-------------------------- MODULE ReleaseSearch --------------------------
(***************************************************************************)
(* A check for updates on GitHub: Check, listReleases and releaseFrom of   *)
(* internal/update/github.go, with MatchQuery of provider.go.              *)
(*                                                                         *)
(* The index is read page by page, newest release first, and then release  *)
(* by release until one serves the query.  Every document may turn out to  *)
(* be out of reach or refused for the request limit.  One search at a      *)
(* time: searches that overlap are the subject of UpdateManager.           *)
(***************************************************************************)
EXTENDS Versions

CONSTANTS
  Listings,  \* the indexes GitHub may serve
  PageSize,  \* releases per page: 100 in the code
  MaxPages   \* 5 in the code

ASSUME PagesAssumption == PageSize \in Nat \ {0} /\ MaxPages \in Nat \ {0}

VARIABLES
  query,     \* the channel asked for and the version that runs
  listing,   \* the index as GitHub serves it during this check
  pages,     \* pages read
  outcomes,  \* what became of the releases looked at so far
  answer     \* what Check returned

search == <<query, listing, pages, outcomes, answer>>

NoAnswer == [kind |-> "pending", at |-> 0]
NoQuery  == [channel |-> "stable", current |-> Text(<<>>, 0)]

SearchIdle ==
  /\ query = NoQuery /\ listing = <<>> /\ pages = 0
  /\ outcomes = <<>> /\ answer = NoAnswer

SearchOver ==
  /\ query' = NoQuery /\ listing' = <<>> /\ pages' = 0
  /\ outcomes' = <<>> /\ answer' = NoAnswer

\* StartCheck takes channel and version once, for the whole search.
SearchStarts(channel, current) ==
  /\ query' = [channel |-> channel, current |-> current]
  /\ listing' \in Listings
  /\ pages' = 0 /\ outcomes' = <<>> /\ answer' = NoAnswer

----------------------------------------------------------------------------
\* One release.

\* Manifest.Validate: no artifact twice, and every delta has a source.
Valid(m) ==
  /\ Parses(m.version) /\ \A i \in DOMAIN m.minimum : Parses(m.minimum[i])
  /\ m.artifacts # <<>>
  /\ \A i \in DOMAIN m.artifacts :
       LET a == m.artifacts[i]
       IN /\ a.size > 0
          /\ a.type = "delta" => Parses(a.from)
          /\ \A j \in DOMAIN m.artifacts :
               <<a.type, a.from>> = <<m.artifacts[j].type, m.artifacts[j].from>> => i = j

\* Mutation: the minimum is forgotten.
MatchesNewer(m) ==
  /\ m.channel = query.channel /\ m.platform = "this"
  /\ IsNewerThan(query.current, m.version)

\* An update for another platform is as little use as one for another channel.
MatchQuery(m) ==
  /\ m.channel = query.channel
  /\ m.platform = "this"
  /\ Acceptable(query.current, m.version, m.minimum)

\* manifestCandidates: the manifest of the platform, or else the shared one.
HasManifest(r) == r.manifests # <<>>
Candidate(r)   == IF "own" \in DOMAIN r.manifests THEN "own" ELSE "shared"
ManifestOf(r)  == r.manifests[Candidate(r)]

\* Its detached signature, or else the shared one, which is then another manifest's.
Detached(r) == {n \in DOMAIN r.sidecars :
                  n = Candidate(r) \/ (n = "shared" /\ Candidate(r) \notin DOMAIN r.sidecars)}
SidecarAgrees(r) == \A n \in Detached(r) : r.sidecars[n] = Candidate(r)

\* Drafts, prereleases for the stable channel, and what is not newer by its tag.
Ignored(r) ==
  \/ r.status = "draft"
  \/ r.status = "prerelease" /\ query.channel = "stable"
  \/ Parses(r.tag) /\ ~IsNewerThan(query.current, r.tag)

\* What releaseFrom makes of a release it can read.
Judged(r) ==
  CASE ~HasManifest(r)                     -> "skip"
    [] HasManifest(r) /\ ~Valid(ManifestOf(r)) -> "broken"
    [] HasManifest(r) /\ Valid(ManifestOf(r)) ->
         IF ~MatchQuery(ManifestOf(r)) THEN "skip"
         ELSE IF SidecarAgrees(r) /\ ManifestOf(r).urls # "missing" THEN "serves"
         ELSE "broken"

\* net: "ok", or what went wrong with the first document that failed.
Read(r, net) == IF ~HasManifest(r) \/ net = "ok" THEN Judged(r) ELSE net

\* Check skips a tag that is no version.
Examined(r, net) ==
  IF Ignored(r) THEN "ignored" ELSE IF ~Parses(r.tag) THEN "skip" ELSE Read(r, net)

Nets == {"ok", "down", "limited"}

----------------------------------------------------------------------------
\* The search.

\* The releases read so far, and whether a next page is asked for.
Reach == IF pages * PageSize < Len(listing) THEN pages * PageSize ELSE Len(listing)
MorePages == pages = 0 \/ (Reach < Len(listing) /\ pages < MaxPages)

Ended == outcomes # <<>> /\ outcomes[Len(outcomes)] \in {"serves", "limited"}

FetchPage(net) ==
  /\ answer = NoAnswer /\ MorePages
  /\ \/ net = "ok" /\ pages' = pages + 1 /\ UNCHANGED answer
     \/ net # "ok" /\ answer' = [kind |-> "failed", at |-> 0] /\ UNCHANGED pages
  /\ UNCHANGED <<query, listing, outcomes>>

Examine(net) ==
  /\ answer = NoAnswer /\ ~MorePages /\ ~Ended /\ Len(outcomes) < Reach
  /\ outcomes' = Append(outcomes, Examined(listing[Len(outcomes) + 1], net))
  /\ UNCHANGED <<query, listing, pages, answer>>

Count(kinds) == {i \in DOMAIN outcomes : outcomes[i] \in kinds}
hardErrs == Count({"broken", "down"})
skipped  == Count({"skip", "broken", "down"})

\* Everything that could have served failed outright: an error, not "no update".
Failed == hardErrs # {} /\ hardErrs = skipped

Answer ==
  /\ answer = NoAnswer /\ ~MorePages /\ (Ended \/ Len(outcomes) = Reach)
  /\ LET last == Len(outcomes)
     IN answer' =
          CASE Ended /\ outcomes[last] = "serves" -> [kind |-> "release", at |-> last]
            [] Ended /\ outcomes[last] # "serves" -> [kind |-> "failed", at |-> 0]
            [] ~Ended -> [kind |-> IF Failed THEN "failed" ELSE "none", at |-> 0]
  /\ UNCHANGED <<query, listing, pages, outcomes>>

Searching == Answer \/ \E net \in Nets : FetchPage(net) \/ Examine(net)
=============================================================================
