--------------------------- MODULE Acquisition ---------------------------
(***************************************************************************)
(* How an update gets from GitHub to a tree under versions/: the check     *)
(* (ReleaseSearch), the download (Fetching), and the assembly from a full  *)
(* or a delta artifact (ArtifactTrees), as RunCheck, Download and Install  *)
(* of internal/update/manager.go drive them.                               *)
(*                                                                         *)
(* The user may cancel at any time, the daemon may stop at any time, and   *)
(* updaters activate what was handed to them when the application closes.  *)
(* One operation is under way at a time: what overlapping operations do to *)
(* the state of the manager is the subject of UpdateManager, how an        *)
(* updater works that of UpdateHandoff.                                    *)
(***************************************************************************)
EXTENDS ReleaseSearch, Fetching, ArtifactTrees, FiniteSets

CONSTANTS
  Names,     \* names of files and directories
  Released,  \* the tree of every version ever published, by its text
  Folder,    \* the top folder of full artifacts: one name, or none
  Running,   \* the version that runs at first
  Bases,     \* what the live install may be at first
  None

\* requiredTreeFiles: every tree has files of its own, outside of all directories.
ASSUME ReleasedAssumption ==
  \A v \in DOMAIN Released :
    /\ DOMAIN Released[v] \subseteq Seq(Names) \ {<<>>}
    /\ \E p \in DOMAIN Released[v] : Len(p) = 1

ASSUME FolderAssumption == Folder \in Seq(Names) /\ Len(Folder) <= 1

\* Installed trees are as released, up to their permission bits.
ASSUME BasesAssumption ==
  \A b \in Bases \ {None} :
    b.name \in DOMAIN Released /\ Contents(b.tree) = Contents(Released[b.name])

\* A manifest tells the truth: its artifacts are of the version it names, and made
\* from released trees.
Truthful(m) ==
  /\ m.version \in DOMAIN Released
  /\ \A i \in DOMAIN m.artifacts :
       /\ m.artifacts[i].size \in Nat
       /\ m.artifacts[i].type = "delta" => m.artifacts[i].from \in DOMAIN Released

ASSUME ListingsAssumption ==
  \A l \in Listings :
    /\ Len(l) \in Nat /\ DOMAIN l = 1..Len(l)
    /\ \A k \in DOMAIN l :
         /\ HasManifest(l[k]) => Candidate(l[k]) \in DOMAIN l[k].manifests
         /\ \A n \in DOMAIN l[k].manifests : Truthful(l[k].manifests[n])

VARIABLES
  status,    \* m.status.State
  pending,   \* m.pending: the manifest the last check found
  artifact,  \* m.artifact
  staged,    \* m.staged: the version and artifact of the verified file
  current,   \* the version that runs
  base,      \* the tree under the live current link, and the link's name
  trees,     \* the stage root: assembled trees, by version
  handed     \* versions whose updater waits for the application to close

manager == <<status, pending, artifact, staged>>
disk    == <<current, base, trees, handed>>
vars    == <<search, fetch, manager, disk>>

Resting == {"idle", "no-update", "update-available", "cancelled", "failed"}
Busy    == {"checking", "downloading", "verifying", "staging"}

Init ==
  /\ SearchIdle /\ fetch = Off
  /\ status = "idle" /\ pending = None /\ artifact = None /\ staged = None
  /\ current = Running /\ base \in Bases
  /\ trees = <<>> /\ handed = {}

----------------------------------------------------------------------------
\* The check.

StartCheck(channel) ==
  /\ status \in Resting
  /\ status' = "checking"
  /\ SearchStarts(channel, current)
  /\ UNCHANGED <<fetch, pending, artifact, staged, disk>>

Check ==
  /\ status = "checking" /\ Searching
  /\ UNCHANGED <<fetch, manager, disk>>

\* VerifyManifest over what releaseFrom left of the manifest: a relative URL has been
\* replaced by then, in the array the signed manifest still refers to.
VerifyManifest(m) == m.signature = "valid" /\ m.urls # "relative"

Fulls(m) == {i \in DOMAIN m.artifacts : m.artifacts[i].type = "full"}
DeltasFrom(m, v) ==
  {i \in DOMAIN m.artifacts :
     /\ m.artifacts[i].type = "delta"
     /\ Parses(m.artifacts[i].from)
     /\ Compare(ParseVersion(m.artifacts[i].from), ParseVersion(v)) = 0}

\* The place of the first full artifact, and of the first of the smallest deltas.
fullArtifactOf(m, i) == i \in Fulls(m) /\ \A j \in Fulls(m) : i <= j

BestDelta(m, v, i) ==
  /\ i \in DeltasFrom(m, v)
  /\ \A j \in DeltasFrom(m, v) :
       \/ m.artifacts[i].size < m.artifacts[j].size
       \/ m.artifacts[i].size = m.artifacts[j].size /\ i <= j

Beneficial(m, v, i) ==
  BestDelta(m, v, i) /\ \A j \in DOMAIN m.artifacts :
    fullArtifactOf(m, j) => m.artifacts[i].size < m.artifacts[j].size

\* The delta that is smaller than the full artifact, or else the full artifact.
SelectArtifact(m, v, i) ==
  \/ Beneficial(m, v, i)
  \/ fullArtifactOf(m, i) /\ ~\E j \in DOMAIN m.artifacts : Beneficial(m, v, j)

\* RunCheck, once the provider has answered.
NoUpdate ==
  /\ status = "checking" /\ answer.kind = "none"
  /\ status' = "no-update"
  /\ SearchOver /\ UNCHANGED <<fetch, pending, artifact, staged, disk>>

Found == ManifestOf(listing[answer.at])

CheckFails ==
  /\ status = "checking"
  /\ \/ answer.kind = "failed"
     \/ answer.kind = "release" /\ ~VerifyManifest(Found)
     \/ answer.kind = "release" /\ Fulls(Found) = {}
  /\ status' = "failed"
  /\ SearchOver /\ UNCHANGED <<fetch, pending, artifact, staged, disk>>

\* A file staged for an earlier offer is removed.
Offer ==
  /\ status = "checking" /\ answer.kind = "release"
  /\ VerifyManifest(Found) /\ Fulls(Found) # {}
  /\ status' = "update-available"
  /\ pending' = Found /\ staged' = None
  /\ \E i \in DOMAIN Found.artifacts :
       SelectArtifact(Found, current, i) /\ artifact' = Found.artifacts[i]
  /\ SearchOver /\ UNCHANGED <<fetch, disk>>

----------------------------------------------------------------------------
\* The download, and the fetch of the full artifact that an install falls back to.

StartDownload ==
  /\ status = "update-available" /\ pending # None
  /\ status' = "downloading"
  /\ fetch' = FetchStarts(artifact.size)
  /\ UNCHANGED <<search, pending, artifact, staged, disk>>

Fetch ==
  /\ status \in {"downloading", "staging"} /\ Fetches
  /\ UNCHANGED <<search, manager, disk>>

\* The deadline counts as a cancel: Download asks whether the context is over.
DownloadFails ==
  /\ status = "downloading" /\ fetch.pc = "failed"
  /\ status' = IF fetch.why = "context" THEN "cancelled" ELSE "failed"
  /\ fetch' = Off
  /\ UNCHANGED <<search, pending, artifact, staged, disk>>

Downloaded ==
  /\ status = "downloading" /\ fetch.pc = "done"
  /\ status' = "verifying"
  /\ UNCHANGED <<search, fetch, pending, artifact, staged, disk>>

\* The verified file: the version and artifact it stands for, and what it holds.
Staged(a) == [version |-> pending.version, artifact |-> a,
              bytes |-> IF Genuine(fetch) THEN "genuine" ELSE "other"]

Verified ==
  /\ status = "verifying" /\ Genuine(fetch)
  /\ status' = "update-available" /\ staged' = Staged(artifact) /\ fetch' = Off
  /\ UNCHANGED <<search, pending, artifact, disk>>

VerifyFails ==
  /\ status = "verifying" /\ ~Genuine(fetch)
  /\ status' = "failed" /\ fetch' = Off
  /\ UNCHANGED <<search, pending, artifact, staged, disk>>

----------------------------------------------------------------------------
\* The install.

StartInstall ==
  /\ status = "update-available" /\ pending # None /\ staged # None
  /\ status' = "staging"
  /\ UNCHANGED <<search, fetch, pending, artifact, staged, disk>>

Target  == pending.version
Present == Target \in DOMAIN trees
Idle    == status = "staging" /\ fetch = Off

\* What the staged file is: the archive or the delta of its version, or nothing like it.
Holds(type) == staged.bytes = "genuine" /\ staged.artifact.type = type
FullArchive == IF Holds("full") THEN Archive(Released[staged.version], Folder) ELSE <<>>
Delta == IF Holds("delta")
         THEN genDelta(Released[staged.artifact.from], Released[staged.version])
         ELSE [files |-> <<>>, listing |-> {}]

WithTree(tree) == [v \in DOMAIN trees \cup {Target} |-> IF v = Target THEN tree ELSE trees[v]]
Without(v)     == [w \in DOMAIN trees \ {v} |-> trees[w]]

HandedOver(tree) ==
  /\ trees' = WithTree(tree)
  /\ status' = "restarting" /\ handed' = handed \cup {Target}
  /\ UNCHANGED <<search, fetch, pending, artifact, staged, current, base>>

\* A tree that is there is complete, and taken as it is.
AssembledBefore == Idle /\ Present /\ HandedOver(trees[Target])

AssembleFull ==
  /\ Idle /\ ~Present /\ artifact.type = "full"
  /\ HandedOver(unzipAll(FullArchive))

\* Mutation: any installed tree will do.
AnyBase == base # None

\* The overlay is only good for the tree the delta was made against.
BaseFits == base # None /\ base.name = artifact.from

AssembleDelta ==
  /\ Idle /\ ~Present /\ artifact.type = "delta"
  /\ BaseFits
  /\ Applies(base.tree, Delta)
  /\ HandedOver(Apply(base.tree, Delta))

\* The wrong base, a file in the way of a directory, or a disk error.
FallBack ==
  /\ Idle /\ ~Present /\ artifact.type = "delta"
  /\ \E i \in DOMAIN pending.artifacts :
       fullArtifactOf(pending, i) /\ fetch' = FetchStarts(pending.artifacts[i].size)
  /\ UNCHANGED <<search, manager, disk>>

\* Mutation: the install goes on with the kind of artifact it had.
FellBackAsDelta ==
  /\ status = "staging" /\ fetch.pc = "done" /\ Genuine(fetch)
  /\ \E i \in DOMAIN pending.artifacts :
       fullArtifactOf(pending, i) /\ staged' = Staged(pending.artifacts[i])
  /\ fetch' = Off
  /\ UNCHANGED <<search, status, pending, artifact, disk>>

\* The file of the delta stays behind, under a name nobody knows any more.
FellBack ==
  /\ status = "staging" /\ fetch.pc = "done" /\ Genuine(fetch)
  /\ \E i \in DOMAIN pending.artifacts :
       /\ fullArtifactOf(pending, i)
       /\ artifact' = pending.artifacts[i] /\ staged' = Staged(pending.artifacts[i])
  /\ fetch' = Off
  /\ UNCHANGED <<search, status, pending, disk>>

InstallFails ==
  /\ \/ status = "staging" /\ fetch.pc = "failed"
     \/ status = "staging" /\ fetch.pc = "done" /\ ~Genuine(fetch)
     \/ Idle /\ ~Present /\ artifact.type = "full"
  /\ status' = "failed" /\ fetch' = Off
  /\ UNCHANGED <<search, pending, artifact, staged, disk>>

\* The updater is gone, or could not be started.
UpdaterFails ==
  /\ status = "restarting"
  /\ status' = "failed" /\ handed' = handed \ {Target}
  /\ UNCHANGED <<search, fetch, pending, artifact, staged, current, base, trees>>

----------------------------------------------------------------------------
\* The user, and the end of the process.

\* A check goes on for nothing.  An install that is called off drops its tree, one
\* that it only found included, and its file; a waiting updater stays.
Cancel ==
  /\ status \in Busy \cup {"restarting"}
  /\ status' = "cancelled"
  /\ SearchOver /\ fetch' = Off
  /\ trees'  = IF Idle /\ Present THEN Without(Target) ELSE trees
  /\ staged' = IF status = "staging" THEN None ELSE staged
  /\ UNCHANGED <<pending, artifact, current, base, handed>>

Forgets ==
  /\ status' = "idle" /\ pending' = None /\ artifact' = None /\ staged' = None
  /\ SearchOver /\ fetch' = Off

Stops == Forgets /\ UNCHANGED disk

\* One of the waiting updaters: PromoteStaged, Activate, and the new version starts.
Activated ==
  /\ \E v \in handed \cap DOMAIN trees :
       /\ base' = [name |-> v, tree |-> CopyTree(trees[v])]
       /\ current' = v /\ handed' = handed \ {v}
  /\ Forgets /\ UNCHANGED trees

Channels == {"stable", "beta"}

User == StartDownload \/ StartInstall \/ Cancel \/ \E c \in Channels : StartCheck(c)

Work == Check \/ NoUpdate \/ CheckFails \/ Offer \/ Fetch \/ DownloadFails
        \/ Downloaded \/ Verified \/ VerifyFails \/ AssembledBefore \/ AssembleFull
        \/ AssembleDelta \/ FallBack \/ FellBack \/ InstallFails

Next == User \/ Work \/ UpdaterFails \/ Stops \/ Activated

Spec == Init /\ [][Next]_vars

\* Requests and connections time out, a download or install has 30 minutes, and the
\* rest is local: whatever is under way goes on.  Users and updaters need not.
FairSpec == Spec /\ WF_vars(Work)

----------------------------------------------------------------------------
\* Properties

\* Some release that serves the query, were it in reach.
Serves(r) == ~Ignored(r) /\ Parses(r.tag) /\ Judged(r) = "serves"
Sound == {i \in 1..Reach : Serves(listing[i])}
Lost  == Count({"down", "limited"})

\* Check answers with the newest release that serves, of those it could reach; it is
\* newer than what runs, of the channel asked for, and accepts this version as its
\* base.  It says "no update" only if no release it could reach serves, and fails
\* for less only at the request limit or when the index cannot be read.
SearchAnswers ==
  /\ answer.kind = "release" =>
       /\ answer.at \in Sound \ Lost
       /\ \A i \in Sound \ Lost : answer.at <= i
       /\ Found.channel = query.channel
       /\ Compare(ParseVersion(Found.version), ParseVersion(query.current)) > 0
       /\ \A k \in DOMAIN Found.minimum :
            Compare(ParseVersion(query.current), ParseVersion(Found.minimum[k])) >= 0
  /\ answer.kind = "none" => Sound \subseteq Lost
  /\ answer.kind = "failed" =>
       \/ MorePages \/ Count({"limited"}) # {}
       \/ Sound \subseteq Lost /\ hardErrs # {}

\* However often its connections break and its ranges are ignored, a source that
\* serves the right blocks yields the right file, and never one of a wrong length:
\* what an earlier attempt left in the file does no harm to a later one.
HonestSourceServes ==
  fetch.source = "honest" =>
    /\ fetch.pc = "done" => Genuine(fetch)
    /\ fetch.why # "length"

\* Whatever is assembled under a version has the contents of that version's release,
\* from whichever artifact, over whatever base, after whatever was installed before.
AssembledIsReleased ==
  \A v \in DOMAIN trees :
    v \in DOMAIN Released /\ Contents(trees[v]) = Contents(Released[v])

\* A check, download or install under way comes to an end.
AcquisitionEnds == status \in Busy ~> status \notin Busy

\* "One broken or unreachable release must not block every check" (Check): with all
\* of GitHub in reach, a check does not fail while a release it read would do.
OlderBeatsFailure ==
  [][ (status = "checking" /\ status' = "failed" /\ ~MorePages /\ Lost = {}) =>
        ~\E i \in Sound : VerifyManifest(ManifestOf(listing[i]))
                         /\ Fulls(ManifestOf(listing[i])) # {} ]_vars
=============================================================================
