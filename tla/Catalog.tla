------------------------------ MODULE Catalog ------------------------------
(***************************************************************************)
(* The daemon's catalog: the list of servers, the subscriptions some of    *)
(* them came from and the selection, in memory and in the three documents  *)
(* servers.json, subscriptions.json and selection.json.                    *)
(*                                                                         *)
(* The sources are the servers.* and subscriptions.* handlers,             *)
(* refreshSubscriptions, persistServers and loadState of                   *)
(* cmd/connectived/main.go and UpdateAll, UpdateOne and Merge of           *)
(* internal/subscriptions.  Requests run concurrently.  Every handler      *)
(* changes the catalog and saves all three documents under d.mu, but a     *)
(* refresh holds d.mu only to read its targets and, minutes of downloads   *)
(* later, to write the result back.                                        *)
(*                                                                         *)
(* serverList is a set: where the code takes the first (or, in Merge, the  *)
(* last) of several records that match, the model takes any of them.       *)
(***************************************************************************)
EXTENDS Naturals, FiniteSets

CONSTANTS
  Subs,         \* subscription ids: NewID never hands one out twice
  Nodes,        \* Server.Key(): what makes two records the same remote server
  Bodies,       \* the sets of nodes that a subscription may be answered with
  Ids,          \* server ids
  Refreshes,    \* calls of refreshSubscriptions that may overlap
  Local,        \* the empty SubscriptionID of a server the user added
  AutoSelect,   \* selection{Auto: true}
  MaxRequests,  \* bound on the requests in a behaviour, refreshes included,
  MaxCrashes    \* and on the crashes

ASSUME LocalAssumption == Local \notin Subs
ASSUME BodiesAssumption == Bodies \subseteq SUBSET Nodes
ASSUME BoundsAssumption == {MaxRequests, MaxCrashes} \subseteq Nat

VARIABLES
  serverList,   \* d.serverList
  subs,         \* d.subs
  sel,          \* d.sel
  disk,         \* the three documents
  mu,           \* "free", or the document the holder of d.mu saves next
  refresh,      \* the calls of refreshSubscriptions
  requests, crashes   \* how much of the bounds is used up

vars == <<serverList, subs, sel, disk, mu, refresh, requests, crashes>>

Server == [id : Ids, node : Nodes, sub : Subs \cup {Local},
           mark : {"plain", "favorite"}]

\* A subscription that was never added is "unborn", one not in d.subs "removed".
Subscription == [state : {"unborn", "listed", "removed"}, enabled : {"on", "off"},
                 url : {"http", "other"}, lastError : {"none", "failed"}]

Blank == [state |-> "unborn", enabled |-> "on", url |-> "http", lastError |-> "none"]

\* One call of refreshSubscriptions.  todo holds the targets still to be fetched: pointers to the
\* objects of d.subs, except those in "stale", whose object has left d.subs
\* since and is kept in view.  For a fetched target view is UpdateAll's copy.
Refresh == [pc : {"idle", "fetching", "done"}, todo : SUBSET Subs, stale : SUBSET Subs,
            updated : SUBSET Subs, view : [Subs -> Subscription],
            fresh : SUBSET (Subs \X Nodes)]

At(p) == [pc |-> p, todo |-> {}, stale |-> {}, updated |-> {},
          view |-> [s \in Subs |-> Blank], fresh |-> {}]

Documents == [servers : SUBSET Server, subs : [Subs -> Subscription],
              sel : Ids \cup {AutoSelect}]

TypeOK ==
  /\ serverList \in SUBSET Server
  /\ subs \in [Subs -> Subscription]
  /\ sel \in Ids \cup {AutoSelect}
  /\ disk \in Documents
  /\ mu \in {"free", "servers", "subs", "selection"}
  /\ refresh \in [Refreshes -> Refresh]
  /\ requests \in Nat /\ crashes \in Nat

Listed(m) == {s \in Subs : m[s].state = "listed"}
Owned(list, s) == {x \in list : x.sub = s}

\* loadState on a store whose subscriptions were added and never refreshed.
Init ==
  /\ serverList = {}
  /\ subs \in [Subs -> {Blank, [Blank EXCEPT !.state = "listed"]}]
  /\ sel = AutoSelect
  /\ disk = [servers |-> serverList, subs |-> subs, sel |-> sel]
  /\ mu = "free"
  /\ refresh = [r \in Refreshes |-> At("idle")]
  /\ requests = 0 /\ crashes = 0

----------------------------------------------------------------------------
\* persistServers: three documents, one after the other, under d.mu.

SaveServers ==
  /\ mu = "servers"
  /\ disk' = [disk EXCEPT !.servers = serverList]
  /\ mu' = "subs"

SaveSubs ==
  /\ mu = "subs"
  /\ disk' = [disk EXCEPT !.subs = subs]
  /\ mu' = "selection"

SaveSelection ==
  /\ mu = "selection"
  /\ disk' = [disk EXCEPT !.sel = sel]
  /\ mu' = "free"

Persist == /\ SaveServers \/ SaveSubs \/ SaveSelection
           /\ UNCHANGED <<serverList, subs, sel, refresh, requests, crashes>>

\* A request of the user takes d.mu, and lets go of it once all is saved.
Request == /\ mu = "free" /\ requests < MaxRequests
           /\ mu' = "servers" /\ requests' = requests + 1
           /\ UNCHANGED <<disk, crashes>>

\* Ids in use: NewID draws 128 random bits, so it never repeats one of them.
Used == {x.id : x \in serverList} \cup {sel}
NewID == CHOOSE i \in Ids : i \notin Used

\* Objects of the subscriptions in gone leave d.subs: refreshes that are still
\* to fetch them hold the only pointer.
Detached(gone) ==
  [r \in Refreshes |->
    LET cut == (refresh[r].todo \ refresh[r].stale) \cap gone
    IN  [refresh[r] EXCEPT !.stale = @ \cup cut,
           !.view = [s \in Subs |-> IF s \in cut THEN subs[s] ELSE @[s]]]]

----------------------------------------------------------------------------
\* Requests about servers.

AddServer(n) ==
  /\ Ids \ Used # {}
  /\ Request
  /\ serverList' = serverList \cup
       {[id |-> NewID, node |-> n, sub |-> Local, mark |-> "plain"]}
  /\ UNCHANGED <<subs, sel, refresh>>

DuplicateServer(x) ==
  /\ Ids \ Used # {}
  /\ Request
  /\ serverList' = serverList \cup {[x EXCEPT !.id = NewID, !.sub = Local]}
  /\ UNCHANGED <<subs, sel, refresh>>

\* The user interface sends the record y it shows under that id, with its
\* changes; an empty SubscriptionID keeps that of the record replaced.
UpdateServer(x, y, n, m) ==
  /\ y.id = x.id
  /\ Request
  /\ serverList' = (serverList \ {x}) \cup
       {[id |-> x.id, node |-> n, mark |-> m,
         sub |-> IF y.sub = Local THEN x.sub ELSE y.sub]}
  /\ UNCHANGED <<subs, sel, refresh>>

\* Servers of a subscription are refused.  So is the server of a session, which
\* the catalog knows nothing of: the model allows that removal.
RemoveServer(x) ==
  /\ x.sub = Local
  /\ Request
  /\ serverList' = serverList \ {x}
  /\ sel' = IF sel = x.id THEN AutoSelect ELSE sel
  /\ UNCHANGED <<subs, refresh>>

SelectServer(choice) ==
  /\ choice \in {AutoSelect} \cup {x.id : x \in serverList}
  /\ Request
  /\ sel' = choice
  /\ UNCHANGED <<serverList, subs, refresh>>

----------------------------------------------------------------------------
\* Requests about subscriptions.

\* Mutation: the new subscription is saved by whoever saves next.
AddsUnsaved(s) ==
  /\ subs[s].state = "unborn"
  /\ mu = "free" /\ requests < MaxRequests
  /\ requests' = requests + 1
  /\ subs' = [subs EXCEPT ![s] = [Blank EXCEPT !.state = "listed"]]
  /\ UNCHANGED <<serverList, sel, disk, mu, refresh, crashes>>

AddSubscription(s) ==
  /\ subs[s].state = "unborn"
  /\ Request
  /\ subs' = [subs EXCEPT ![s] = [Blank EXCEPT !.state = "listed"]]
  /\ UNCHANGED <<serverList, sel, refresh>>

\* The object is changed in place: whoever holds a pointer to it sees that.  A
\* request that brings no URL leaves the one there is unchecked.
EditSubscription(s, on, url) ==
  /\ s \in Listed(subs)
  /\ Request
  /\ subs' = [subs EXCEPT ![s].enabled = on, ![s].url = url]
  /\ UNCHANGED <<serverList, sel, refresh>>

\* A URL that Validate refuses is answered with an error, and stays in the
\* object; nothing is saved.
EditRejected(s) ==
  /\ s \in Listed(subs)
  /\ mu = "free" /\ requests < MaxRequests
  /\ requests' = requests + 1
  /\ subs' = [subs EXCEPT ![s].url = "other"]
  /\ UNCHANGED <<serverList, sel, disk, mu, refresh, crashes>>

\* Mutation: the documents are not saved after a removal.
RemovesUnsaved(s) ==
  /\ s \in Listed(subs)
  /\ mu = "free" /\ requests < MaxRequests
  /\ requests' = requests + 1
  /\ subs' = [subs EXCEPT ![s] = [Blank EXCEPT !.state = "removed"]]
  /\ serverList' = serverList \ Owned(serverList, s)
  /\ refresh' = Detached({s})
  /\ UNCHANGED <<sel, disk, mu, crashes>>

RemoveSubscription(s) ==
  /\ s \in Listed(subs)
  /\ Request
  /\ subs' = [subs EXCEPT ![s] = [Blank EXCEPT !.state = "removed"]]
  /\ serverList' = serverList \ Owned(serverList, s)
  /\ refresh' = Detached({s})
  /\ UNCHANGED sel

----------------------------------------------------------------------------
\* refreshSubscriptions.

\* only = Subs at startup and for "update all", {s} for one subscription.
StartRefresh(r, only) ==
  /\ refresh[r].pc = "idle"
  /\ mu = "free" /\ requests < MaxRequests
  /\ requests' = requests + 1
  /\ refresh' = [refresh EXCEPT ![r] = [At("fetching") EXCEPT
                    !.todo = only \cap Listed(subs)]]
  /\ UNCHANGED <<serverList, subs, sel, disk, mu, crashes>>

\* What UpdateAll finds behind its pointer when it comes to target s.
Target(r, s) == IF s \in refresh[r].stale THEN refresh[r].view[s] ELSE subs[s]

Fetched(r, s, copy, found) ==
  /\ s \in refresh[r].todo
  /\ refresh' = [refresh EXCEPT
       ![r].todo = @ \ {s}, ![r].updated = @ \cup {s},
       ![r].view = [@ EXCEPT ![s] = copy],
       ![r].fresh = @ \cup ({s} \X found)]
  /\ UNCHANGED <<serverList, subs, sel, disk, mu, requests, crashes>>

Skip(r, s) ==
  /\ Target(r, s).enabled = "off"
  /\ Fetched(r, s, Target(r, s), {})

\* The download, or Validate, fails.
FetchFails(r, s) ==
  /\ Target(r, s).enabled = "on"
  /\ Fetched(r, s, [Target(r, s) EXCEPT !.lastError = "failed"], {})

\* parseBody refuses a body without any server and drops repeated keys.
FetchOk(r, s, found) ==
  /\ Target(r, s).enabled = "on" /\ Target(r, s).url = "http"
  /\ found # {}
  /\ Fetched(r, s, [Target(r, s) EXCEPT !.lastError = "none"], found)

\* Mutation: LastError is not looked at.
AllUpdated(r) == refresh[r].updated

\* The subscriptions whose servers the refresh replaces.
Refreshed(r) == {s \in refresh[r].updated : refresh[r].view[s].lastError = "none"}

\* Merge: a fresh record of a node that is already listed takes over its id and
\* mark, from the one record byKey has for the node; any other has a new id.
Known(list) == {x.node : x \in list}
Unmatched(list, fresh) == {p \in fresh : p[2] \notin Known(list)}

\* Mutation: only the id is taken over.
MergeIds(fresh, byKey, mint) ==
  {[id |-> IF p[2] \in Known(serverList) THEN byKey[p[2]].id ELSE mint[p],
    node |-> p[2], sub |-> p[1], mark |-> "plain"] : p \in fresh}

Merge(fresh, byKey, mint) ==
  {IF p[2] \in Known(serverList)
   THEN [byKey[p[2]] EXCEPT !.sub = p[1]]
   ELSE [id |-> mint[p], node |-> p[2], sub |-> p[1], mark |-> "plain"] : p \in fresh}

ByKeys == {f \in [Known(serverList) -> serverList] :
             \A n \in Known(serverList) : f[n].node = n}

Distinct(f) == \A p, q \in DOMAIN f : f[p] = f[q] => p = q

Mint(new) == CHOOSE f \in [new -> Ids \ Used] : Distinct(f)

\* Mutation: the merge is added to all there is.
KeepsAll(r) == serverList

Kept(r) == {x \in serverList : x.sub = Local \/ x.sub \notin Refreshed(r)}

\* Mutation: the copy of a subscription removed meanwhile is dropped.
WrittenIfListed(r) ==
  [s \in Subs |-> IF s \in refresh[r].updated \cap Listed(subs)
                  THEN refresh[r].view[s] ELSE subs[s]]

\* byID: d.subs with the copies of what was updated over it.
Written(r) ==
  [s \in Subs |-> IF s \in refresh[r].updated THEN refresh[r].view[s] ELSE subs[s]]

FinishRefresh(r) ==
  LET new == Unmatched(serverList, refresh[r].fresh) IN
  /\ refresh[r].pc = "fetching" /\ refresh[r].todo = {}
  /\ mu = "free" /\ mu' = "servers"
  /\ \E f \in [new -> Ids \ Used] : Distinct(f)
  /\ \E byKey \in ByKeys :
       serverList' = Kept(r) \cup Merge(refresh[r].fresh, byKey, Mint(new))
  /\ subs' = Written(r)
  /\ refresh' = [Detached(refresh[r].updated) EXCEPT ![r] = At("done")]
  /\ UNCHANGED <<sel, disk, requests, crashes>>

----------------------------------------------------------------------------
\* The daemon dies, and the next one loads what was saved.
Crash ==
  /\ crashes < MaxCrashes
  /\ crashes' = crashes + 1
  /\ serverList' = disk.servers /\ subs' = disk.subs /\ sel' = disk.sel
  /\ mu' = "free"
  /\ refresh' = [r \in Refreshes |->
       At(IF refresh[r].pc = "idle" THEN "idle" ELSE "done")]
  /\ UNCHANGED <<disk, requests>>

User ==
  \/ \E n \in Nodes : AddServer(n)
  \/ \E x \in serverList : DuplicateServer(x) \/ RemoveServer(x)
  \/ \E x, y \in serverList, n \in Nodes, m \in {"plain", "favorite"} :
       UpdateServer(x, y, n, m)
  \/ \E c \in Ids \cup {AutoSelect} : SelectServer(c)
  \/ \E s \in Subs : AddSubscription(s) \/ EditRejected(s) \/ RemoveSubscription(s)
  \/ \E s \in Subs, on \in {"on", "off"} :
       \E url \in {"http", subs[s].url} : EditSubscription(s, on, url)

Fetch(r) ==
  \E s \in Subs : \/ Skip(r, s) \/ FetchFails(r, s)
                  \/ \E found \in Bodies : FetchOk(r, s, found)

Start(r) == StartRefresh(r, Subs) \/ \E s \in Subs : StartRefresh(r, {s})

Next ==
  \/ User \/ Persist \/ Crash
  \/ \E r \in Refreshes : Start(r) \/ Fetch(r) \/ FinishRefresh(r)

Spec == Init /\ [][Next]_vars

----------------------------------------------------------------------------
\* Properties.

\* With d.mu free the documents hold the catalog of the memory, whatever the
\* handlers did and however a refresh interleaved with them: what a user was
\* answered survives the next crash.  Only the URL of a rejected edit differs.
DiskFollows ==
  mu = "free" =>
    /\ disk.servers = serverList /\ disk.sel = sel
    /\ \A s \in Subs : /\ disk.subs[s].state = subs[s].state
                       /\ disk.subs[s].enabled = subs[s].enabled
                       /\ disk.subs[s].lastError = subs[s].lastError

\* No server is tagged with a subscription that never was: whatever order the
\* documents are saved in, and wherever a crash cuts that short, a tag that is
\* loaded or shown was given by a subscription the daemon once had on disk.
OwnersKnown ==
  \A x \in serverList \cup disk.servers :
    x.sub # Local => disk.subs[x.sub].state # "unborn"

\* Until the first crash a tagged server can always be removed by removing its
\* subscription: a refresh that brings back servers of a subscription removed
\* meanwhile brings the subscription back too.
OwnersListed ==
  crashes = 0 =>
    \A x \in serverList : x.sub # Local => x.sub \in Listed(subs)

Finishes(r) == refresh[r].pc = "fetching" /\ refresh'[r].pc = "done" /\ mu' = "servers"

\* The comment on refreshSubscriptions: locals always survive, and servers of
\* subscriptions whose fetch failed, or that it had not to fetch, are kept, the
\* ones added, moved or marked while it was downloading included.
RefreshKeepsTheRest ==
  [][\A r \in Refreshes : Finishes(r) =>
       \A x \in serverList :
         (\/ x.sub \notin refresh[r].updated
          \/ refresh[r].view[x.sub].lastError = "failed")
           => x \in serverList']_vars

\* A subscription that was fetched ends up with exactly the nodes it was sent,
\* whatever other refreshes and edits made of its servers in between.
FetchedIsExact ==
  [][\A r \in Refreshes : Finishes(r) =>
       \A p \in refresh[r].fresh :
         {x.node : x \in Owned(serverList', p[1])}
           = {q[2] : q \in {q \in refresh[r].fresh : q[1] = p[1]}}]_vars

\* A server that is the only record of its node keeps its id and its mark when
\* its subscription is refreshed and still has it, even if the user set the mark
\* while the download ran.
MetadataSurvives ==
  [][\A r \in Refreshes : Finishes(r) =>
       \A x \in serverList :
         (/\ <<x.sub, x.node>> \in refresh[r].fresh
          /\ \A y \in serverList : y.node = x.node => y = x)
           => x \in serverList']_vars

\* refreshSubscriptions: everything else (untouched or failed subs) is preserved.
\* A disabled subscription is not fetched, so its servers should stay.
SkippedKeepServers ==
  [][\A r \in Refreshes : Finishes(r) =>
       \A x \in serverList :
         (x.sub \in refresh[r].updated /\ \A p \in refresh[r].fresh : p[1] # x.sub)
           => x \in serverList']_vars
=============================================================================
