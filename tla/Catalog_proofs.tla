--------------------------- MODULE Catalog_proofs ---------------------------
(***************************************************************************)
(* Proofs about Catalog, for any number of subscriptions, servers, nodes   *)
(* and overlapping refreshes, with crashes between any two steps.          *)
(***************************************************************************)
EXTENDS Catalog, TLAPS

\* What a refresh holds: its targets were saved when it read them, the servers it
\* found belong to what it fetched without an error, and every object it has or points at was one
\* of d.subs.
RefreshSound(r) ==
  /\ refresh[r].todo \cap refresh[r].updated = {}
  /\ \A p \in refresh[r].fresh :
       p[1] \in refresh[r].updated /\ refresh[r].view[p[1]].lastError = "none"
  /\ \A s \in refresh[r].todo \cup refresh[r].updated : disk.subs[s].state # "unborn"
  /\ \A s \in refresh[r].updated : refresh[r].view[s].state = "listed"
  /\ \A s \in refresh[r].todo : Target(r, s).state = "listed"

RefreshesSound == \A r \in Refreshes : RefreshSound(r)

\* A subscription that is on disk was added in memory too.
Remembered ==
  \A s \in Subs : disk.subs[s].state # "unborn" => subs[s].state # "unborn"

\* How far the save under way has come.
SaveUnderWay ==
  /\ mu \in {"subs", "selection"} => disk.servers = serverList
  /\ mu = "selection" => disk.subs = subs

\* The inductive invariant of the catalog.
CatalogInv ==
  /\ TypeOK /\ RefreshesSound /\ Remembered /\ SaveUnderWay
  /\ DiskFollows /\ OwnersKnown /\ OwnersListed

----------------------------------------------------------------------------
\* Types.

\* Detaching objects keeps the shape of every refresh.
LEMMA DetachedType ==
  ASSUME TypeOK, NEW gone \in SUBSET Subs
  PROVE  Detached(gone) \in [Refreshes -> Refresh]
<1> SUFFICES ASSUME NEW r \in Refreshes PROVE Detached(gone)[r] \in Refresh
  BY DEF Detached
<1> DEFINE cut == (refresh[r].todo \ refresh[r].stale) \cap gone
           view == [s \in Subs |-> IF s \in cut THEN subs[s] ELSE refresh[r].view[s]]
<1>1. refresh[r] \in Refresh  BY DEF TypeOK
<1>2. refresh[r].stale \cup cut \in SUBSET Subs  BY <1>1 DEF Refresh
<1>3. view \in [Subs -> Subscription]  BY <1>1 DEF TypeOK, Refresh
<1>4. Detached(gone)[r] = [refresh[r] EXCEPT !.stale = @ \cup cut, !.view = view]
  BY <1>1 DEF Detached, Refresh
<1> HIDE DEF cut, view
<1> QED  BY <1>1, <1>2, <1>3, <1>4 DEF Refresh

LEMMA BlankType == Blank \in Subscription /\ \A p \in {"idle", "fetching", "done"} : At(p) \in Refresh
BY DEF Blank, Subscription, At, Refresh

LEMMA NewIDType == ASSUME Ids \ Used # {} PROVE NewID \in Ids
BY DEF NewID

\* What a refresh puts in the list are servers.
LEMMA MergeType ==
  ASSUME TypeOK, NEW fresh \in SUBSET (Subs \X Nodes), NEW byKey \in ByKeys,
         \E f \in [Unmatched(serverList, fresh) -> Ids \ Used] : Distinct(f)
  PROVE  Merge(fresh, byKey, Mint(Unmatched(serverList, fresh))) \in SUBSET Server
<1> DEFINE new == Unmatched(serverList, fresh)
<1>1. Mint(new) \in [new -> Ids \ Used]  BY DEF Mint
<1> SUFFICES ASSUME NEW p \in fresh
    PROVE (IF p[2] \in Known(serverList) THEN [byKey[p[2]] EXCEPT !.sub = p[1]]
           ELSE [id |-> Mint(new)[p], node |-> p[2], sub |-> p[1], mark |-> "plain"])
            \in Server
  BY DEF Merge
<1>2. p[1] \in Subs /\ p[2] \in Nodes  OBVIOUS
<1>3. CASE p[2] \in Known(serverList)
  <2>1. byKey[p[2]] \in Server  BY <1>3 DEF ByKeys, TypeOK
  <2> QED  BY <1>2, <1>3, <2>1 DEF Server
<1>4. CASE p[2] \notin Known(serverList)
  <2>1. p \in new  BY <1>4 DEF Unmatched
  <2>2. Mint(new)[p] \in Ids  BY <1>1, <2>1
  <2> QED  BY <1>2, <1>4, <2>2 DEF Server
<1> QED  BY <1>3, <1>4

LEMMA TargetType ==
  ASSUME TypeOK, NEW r \in Refreshes, NEW s \in Subs
  PROVE  Target(r, s) \in Subscription
BY DEF Target, TypeOK, Refresh

LEMMA FetchedType ==
  ASSUME TypeOK, NEW r \in Refreshes, NEW s \in Subs, NEW copy \in Subscription,
         NEW found \in SUBSET Nodes, Fetched(r, s, copy, found)
  PROVE  TypeOK'
<1>1. refresh[r] \in Refresh  BY DEF TypeOK
<1> DEFINE new == [refresh[r] EXCEPT
       !.todo = @ \ {s}, !.updated = @ \cup {s},
       !.view = [@ EXCEPT ![s] = copy], !.fresh = @ \cup ({s} \X found)]
<1>2. new \in Refresh  BY <1>1 DEF Refresh
<1>3. refresh' = [refresh EXCEPT ![r] = new]  BY DEF Fetched
<1> HIDE DEF new
<1>4. refresh' \in [Refreshes -> Refresh]  BY <1>2, <1>3 DEF TypeOK
<1> QED  BY <1>4 DEF TypeOK, Fetched

LEMMA TypeStep == ASSUME TypeOK, [Next]_vars PROVE TypeOK'
<1>b. /\ Blank \in Subscription /\ [Blank EXCEPT !.state = "listed"] \in Subscription
      /\ [Blank EXCEPT !.state = "removed"] \in Subscription
      /\ \A p \in {"idle", "fetching", "done"} : At(p) \in Refresh
  BY BlankType DEF Blank, Subscription
<1>1. ASSUME NEW n \in Nodes, AddServer(n) PROVE TypeOK'
  BY <1>1, NewIDType DEF TypeOK, AddServer, Request, Server
<1>2. ASSUME NEW x \in serverList, DuplicateServer(x) PROVE TypeOK'
  <2>1. x \in Server  BY DEF TypeOK
  <2>2. [x EXCEPT !.id = NewID, !.sub = Local] \in Server
    BY <1>2, <2>1, NewIDType DEF DuplicateServer, Server
  <2> QED  BY <1>2, <2>2 DEF TypeOK, DuplicateServer, Request
<1>3. ASSUME NEW x \in serverList, NEW y \in serverList, NEW n \in Nodes,
             NEW m \in {"plain", "favorite"}, UpdateServer(x, y, n, m)
      PROVE TypeOK'
  <2>1. x \in Server /\ y \in Server  BY DEF TypeOK
  <2>2. [id |-> x.id, node |-> n, mark |-> m,
         sub |-> IF y.sub = Local THEN x.sub ELSE y.sub] \in Server
    BY <2>1 DEF Server
  <2> QED  BY <1>3, <2>2 DEF TypeOK, UpdateServer, Request
<1>4. ASSUME NEW x \in serverList, RemoveServer(x) PROVE TypeOK'
  BY <1>4 DEF TypeOK, RemoveServer, Request
<1>5. ASSUME NEW c \in Ids \cup {AutoSelect}, SelectServer(c) PROVE TypeOK'
  BY <1>5 DEF TypeOK, SelectServer, Request
<1>6. ASSUME NEW s \in Subs, AddSubscription(s) PROVE TypeOK'
  BY <1>6, <1>b DEF TypeOK, AddSubscription, Request
<1>7. ASSUME NEW s \in Subs, NEW on \in {"on", "off"}, NEW url \in {"http", subs[s].url},
             EditSubscription(s, on, url)
      PROVE TypeOK'
  <2>1. subs[s] \in Subscription  BY DEF TypeOK
  <2>2. [subs[s] EXCEPT !.enabled = on, !.url = url] \in Subscription
    BY <2>1 DEF Subscription
  <2>3. subs' = [subs EXCEPT ![s] = [subs[s] EXCEPT !.enabled = on, !.url = url]]
    BY <1>7 DEF EditSubscription, TypeOK
  <2> QED  BY <1>7, <2>2, <2>3 DEF TypeOK, EditSubscription, Request
<1>8. ASSUME NEW s \in Subs, EditRejected(s) PROVE TypeOK'
  <2>1. subs[s] \in Subscription  BY DEF TypeOK
  <2>2. [subs[s] EXCEPT !.url = "other"] \in Subscription  BY <2>1 DEF Subscription
  <2>3. subs' = [subs EXCEPT ![s] = [subs[s] EXCEPT !.url = "other"]]
    BY <1>8 DEF EditRejected
  <2> QED  BY <1>8, <2>2, <2>3 DEF TypeOK, EditRejected
<1>9. ASSUME NEW s \in Subs, RemoveSubscription(s) PROVE TypeOK'
  <2>1. refresh' \in [Refreshes -> Refresh]  BY <1>9, DetachedType DEF RemoveSubscription
  <2>2. subs' \in [Subs -> Subscription]  BY <1>9, <1>b DEF TypeOK, RemoveSubscription
  <2>3. serverList' \in SUBSET Server  BY <1>9 DEF TypeOK, RemoveSubscription, Owned
  <2>4. /\ sel' = sel /\ disk' = disk /\ mu' = "servers" /\ crashes' = crashes
        /\ requests' = requests + 1
    BY <1>9 DEF RemoveSubscription, Request
  <2> QED  BY <2>1, <2>2, <2>3, <2>4 DEF TypeOK
<1>10. CASE Persist
  BY <1>10 DEF TypeOK, Persist, SaveServers, SaveSubs, SaveSelection, Documents
<1>11. CASE Crash
  BY <1>11, <1>b DEF TypeOK, Crash, Documents
<1>12. ASSUME NEW r \in Refreshes, NEW only \in SUBSET Subs, StartRefresh(r, only)
       PROVE TypeOK'
  <2>1. [At("fetching") EXCEPT !.todo = only \cap Listed(subs)] \in Refresh
    BY <1>b DEF Refresh, Listed
  <2> QED  BY <1>12, <2>1 DEF TypeOK, StartRefresh
<1>13. ASSUME NEW r \in Refreshes, Fetch(r) PROVE TypeOK'
  <2>1. PICK s \in Subs : \/ Skip(r, s) \/ FetchFails(r, s)
                         \/ \E found \in Bodies : FetchOk(r, s, found)
    BY <1>13 DEF Fetch
  <2>2. Target(r, s) \in Subscription  BY TargetType
  <2>3. CASE Skip(r, s)  BY <2>2, <2>3, FetchedType DEF Skip
  <2>4. CASE FetchFails(r, s)
    <3>1. [Target(r, s) EXCEPT !.lastError = "failed"] \in Subscription
      BY <2>2 DEF Subscription
    <3> QED  BY <2>4, <3>1, FetchedType DEF FetchFails
  <2>5. ASSUME NEW found \in Bodies, FetchOk(r, s, found) PROVE TypeOK'
    <3>1. [Target(r, s) EXCEPT !.lastError = "none"] \in Subscription
      BY <2>2 DEF Subscription
    <3>2. found \in SUBSET Nodes  BY BodiesAssumption
    <3> QED  BY <2>5, <3>1, <3>2, FetchedType DEF FetchOk
  <2> QED  BY <2>1, <2>3, <2>4, <2>5
<1>14. ASSUME NEW r \in Refreshes, FinishRefresh(r) PROVE TypeOK'
  <2>1. refresh[r] \in Refresh  BY DEF TypeOK
  <2>2. refresh[r].fresh \in SUBSET (Subs \X Nodes)  BY <2>1 DEF Refresh
  <2>3. PICK byKey \in ByKeys : serverList' = Kept(r) \cup
          Merge(refresh[r].fresh, byKey, Mint(Unmatched(serverList, refresh[r].fresh)))
    BY <1>14 DEF FinishRefresh
  <2>4. serverList' \in SUBSET Server
    BY <1>14, <2>2, <2>3, MergeType DEF FinishRefresh, Kept, TypeOK
  <2>5. subs' \in [Subs -> Subscription]
    BY <1>14, <2>1 DEF FinishRefresh, Written, TypeOK, Refresh
  <2>6. refresh[r].updated \in SUBSET Subs  BY <2>1 DEF Refresh
  <2>7. refresh' \in [Refreshes -> Refresh]
    BY <1>14, <1>b, <2>6, DetachedType DEF FinishRefresh
  <2> QED  BY <1>14, <2>4, <2>5, <2>7 DEF FinishRefresh, TypeOK
<1>15. CASE UNCHANGED vars  BY <1>15 DEF vars, TypeOK
<1>16. ASSUME NEW r \in Refreshes, Start(r) PROVE TypeOK'  BY <1>12, <1>16 DEF Start
<1>17. CASE User
  BY <1>1, <1>2, <1>3, <1>4, <1>5, <1>6, <1>7, <1>8, <1>9, <1>17 DEF User
<1> QED  BY <1>10, <1>11, <1>13, <1>14, <1>15, <1>16, <1>17 DEF Next

LEMMA InitType == Init => TypeOK
<1> SUFFICES ASSUME Init PROVE TypeOK  OBVIOUS
<1>1. Blank \in Subscription /\ [Blank EXCEPT !.state = "listed"] \in Subscription
      /\ At("idle") \in Refresh
  BY BlankType DEF Blank, Subscription
<1> QED  BY <1>1 DEF Init, TypeOK, Documents

\* Every variable keeps its type.
THEOREM SpecTypeOK == Spec => []TypeOK
BY InitType, TypeStep, PTL DEF Spec

----------------------------------------------------------------------------
\* Refreshes.

LEMMA DetachedFields ==
  ASSUME TypeOK, NEW gone \in SUBSET Subs, NEW r \in Refreshes
  PROVE  LET d == Detached(gone)[r]
             cut == (refresh[r].todo \ refresh[r].stale) \cap gone
         IN  /\ d.todo = refresh[r].todo /\ d.updated = refresh[r].updated
             /\ d.fresh = refresh[r].fresh
             /\ d.stale = refresh[r].stale \cup cut
             /\ \A s \in Subs : d.view[s] = IF s \in cut THEN subs[s]
                                          ELSE refresh[r].view[s]
<1>1. refresh[r] \in Refresh  BY DEF TypeOK
<1> QED  BY <1>1 DEF Detached, Refresh

\* A refresh that a step does not touch stays sound while subscriptions on disk
\* are not forgotten and listed ones stay listed.
LEMMA SoundSame ==
  ASSUME TypeOK, NEW r \in Refreshes, RefreshSound(r), refresh'[r] = refresh[r],
         \A s \in Subs : disk.subs[s].state # "unborn" => disk'.subs[s].state # "unborn",
         \A s \in Subs : subs[s].state = "listed" => subs'[s].state = "listed"
  PROVE  RefreshSound(r)'
<1>1. refresh[r] \in Refresh  BY DEF TypeOK
<1>2. refresh[r].todo \in SUBSET Subs /\ refresh[r].updated \in SUBSET Subs
  BY <1>1 DEF Refresh
<1> QED  BY <1>2 DEF RefreshSound, Target

\* Nor is a refresh the worse for losing objects it points at.
LEMMA SoundDetached ==
  ASSUME TypeOK, NEW gone \in SUBSET Subs, NEW r \in Refreshes, RefreshSound(r),
         refresh'[r] = Detached(gone)[r], disk' = disk,
         \A s \in Subs \ gone : subs[s].state = "listed" => subs'[s].state = "listed"
  PROVE  RefreshSound(r)'
<1>1. refresh[r] \in Refresh  BY DEF TypeOK
<1>2. refresh[r].todo \in SUBSET Subs /\ refresh[r].updated \in SUBSET Subs
  BY <1>1 DEF Refresh
<1> DEFINE cut == (refresh[r].todo \ refresh[r].stale) \cap gone
<1>3. /\ refresh'[r].todo = refresh[r].todo /\ refresh'[r].updated = refresh[r].updated
      /\ refresh'[r].fresh = refresh[r].fresh
      /\ refresh'[r].stale = refresh[r].stale \cup cut
      /\ \A s \in Subs : refresh'[r].view[s] = IF s \in cut THEN subs[s]
                                              ELSE refresh[r].view[s]
  BY DetachedFields
<1>4. \A s \in refresh[r].updated : s \notin cut  BY DEF RefreshSound
<1>5. \A s \in refresh'[r].todo : Target(r, s)'.state = "listed"
  <2> SUFFICES ASSUME NEW s \in refresh[r].todo PROVE Target(r, s)'.state = "listed"
    BY <1>3
  <2>1. Target(r, s).state = "listed" /\ s \in Subs  BY <1>2 DEF RefreshSound
  <2>2. CASE s \in cut  BY <1>3, <2>1, <2>2 DEF Target
  <2>3. CASE s \in refresh[r].stale  BY <1>3, <2>1, <2>3 DEF Target
  <2>4. CASE s \notin refresh[r].stale /\ s \notin gone  BY <1>3, <2>1, <2>4 DEF Target
  <2> QED  BY <2>2, <2>3, <2>4
<1>6. \A s \in refresh'[r].updated : refresh'[r].view[s].state = "listed"
  BY <1>2, <1>3, <1>4 DEF RefreshSound
<1>7. \A p \in refresh'[r].fresh :
        p[1] \in refresh'[r].updated /\ refresh'[r].view[p[1]].lastError = "none"
  BY <1>2, <1>3, <1>4 DEF RefreshSound
<1> QED  BY <1>3, <1>5, <1>6, <1>7 DEF RefreshSound

LEMMA SoundFetched ==
  ASSUME TypeOK, NEW r \in Refreshes, NEW s \in Subs, NEW copy \in Subscription,
         NEW found \in SUBSET Nodes, RefreshesSound, Fetched(r, s, copy, found),
         copy.state = "listed", found # {} => copy.lastError = "none"
  PROVE  RefreshesSound'
<1> SUFFICES ASSUME NEW q \in Refreshes PROVE RefreshSound(q)'
  BY DEF RefreshesSound
<1>1. RefreshSound(q) /\ RefreshSound(r)  BY DEF RefreshesSound
<1>2. disk' = disk /\ subs' = subs /\ s \in refresh[r].todo  BY DEF Fetched
<1>3. CASE q # r
  <2>1. refresh'[q] = refresh[q]  BY <1>3 DEF Fetched, TypeOK
  <2> QED  BY <1>1, <1>2, <2>1, SoundSame
<1>4. CASE q = r
  <2>1. refresh[r] \in Refresh  BY DEF TypeOK
  <2>2. /\ refresh'[r].todo = refresh[r].todo \ {s}
        /\ refresh'[r].updated = refresh[r].updated \cup {s}
        /\ refresh'[r].stale = refresh[r].stale
        /\ refresh'[r].view = [refresh[r].view EXCEPT ![s] = copy]
        /\ refresh'[r].fresh = refresh[r].fresh \cup ({s} \X found)
    BY <2>1 DEF Fetched, Refresh, TypeOK
  <2>3. /\ refresh[r].todo \in SUBSET Subs /\ refresh[r].updated \in SUBSET Subs
        /\ refresh[r].view \in [Subs -> Subscription]
    BY <2>1 DEF Refresh
  <2>4. \A p \in refresh'[r].fresh :
          p[1] \in refresh'[r].updated /\ refresh'[r].view[p[1]].lastError = "none"
    <3>1. s \notin refresh[r].updated
      BY <1>1, <1>2 DEF RefreshSound
    <3>2. ASSUME NEW p \in refresh[r].fresh
          PROVE  p[1] \in refresh'[r].updated /\ refresh'[r].view[p[1]].lastError = "none"
      BY <1>1, <2>2, <2>3, <3>1 DEF RefreshSound
    <3>3. ASSUME NEW p \in {s} \X found
          PROVE  p[1] \in refresh'[r].updated /\ refresh'[r].view[p[1]].lastError = "none"
      BY <2>2, <2>3
    <3> QED  BY <2>2, <3>2, <3>3
  <2>5. \A t \in refresh'[r].updated : refresh'[r].view[t].state = "listed"
    BY <1>1, <2>2, <2>3 DEF RefreshSound
  <2>6. \A t \in refresh'[r].todo : Target(r, t)'.state = "listed"
    BY <1>1, <1>2, <2>2, <2>3 DEF RefreshSound, Target
  <2>7. /\ refresh'[r].todo \cap refresh'[r].updated = {}
        /\ \A t \in refresh'[r].todo \cup refresh'[r].updated :
             disk'.subs[t].state # "unborn"
    BY <1>1, <1>2, <2>2 DEF RefreshSound
  <2> QED  BY <1>4, <2>4, <2>5, <2>6, <2>7 DEF RefreshSound
<1> QED  BY <1>3, <1>4

\* A refresh that has not begun, or is over, holds nothing.
LEMMA SoundAtRest ==
  ASSUME NEW r \in Refreshes, NEW p \in {"idle", "fetching", "done"},
         refresh'[r] = At(p)
  PROVE  RefreshSound(r)'
BY DEF RefreshSound, At

\* One step keeps every refresh sound.
LEMMA RefreshStep ==
  ASSUME TypeOK, TypeOK', RefreshesSound, Remembered, SaveUnderWay, DiskFollows,
         [Next]_vars
  PROVE  RefreshesSound'
<1>t. \A q \in Refreshes : refresh[q] \in Refresh /\ RefreshSound(q)
  BY DEF TypeOK, RefreshesSound
<1>a. ASSUME refresh' = refresh,
             \A s \in Subs : disk.subs[s].state # "unborn" => disk'.subs[s].state # "unborn",
             \A s \in Subs : subs[s].state = "listed" => subs'[s].state = "listed"
      PROVE  RefreshesSound'
  BY <1>t, <1>a, SoundSame DEF RefreshesSound
<1>1. ASSUME NEW n \in Nodes, AddServer(n) PROVE RefreshesSound'
  BY <1>1, <1>a DEF AddServer, Request
<1>2. ASSUME NEW x \in serverList, DuplicateServer(x) PROVE RefreshesSound'
  BY <1>2, <1>a DEF DuplicateServer, Request
<1>3. ASSUME NEW x \in serverList, NEW y \in serverList, NEW n \in Nodes,
             NEW m \in {"plain", "favorite"}, UpdateServer(x, y, n, m)
      PROVE RefreshesSound'
  BY <1>3, <1>a DEF UpdateServer, Request
<1>4. ASSUME NEW x \in serverList, RemoveServer(x) PROVE RefreshesSound'
  BY <1>4, <1>a DEF RemoveServer, Request
<1>5. ASSUME NEW c \in Ids \cup {AutoSelect}, SelectServer(c) PROVE RefreshesSound'
  BY <1>5, <1>a DEF SelectServer, Request
<1>6. ASSUME NEW s \in Subs, AddSubscription(s) PROVE RefreshesSound'
  <2>1. \A q \in Subs : subs[q].state = "listed" => subs'[q].state = "listed"
    BY <1>6 DEF AddSubscription, TypeOK
  <2> QED  BY <1>6, <1>a, <2>1 DEF AddSubscription, Request
<1>7. ASSUME NEW s \in Subs, NEW on \in {"on", "off"}, NEW url \in {"http", subs[s].url},
             EditSubscription(s, on, url)
      PROVE RefreshesSound'
  <2>1. \A q \in Subs : subs[q].state = "listed" => subs'[q].state = "listed"
    BY <1>7 DEF EditSubscription, TypeOK, Subscription
  <2> QED  BY <1>7, <1>a, <2>1 DEF EditSubscription, Request
<1>8. ASSUME NEW s \in Subs, EditRejected(s) PROVE RefreshesSound'
  <2>1. \A q \in Subs : subs[q].state = "listed" => subs'[q].state = "listed"
    BY <1>8 DEF EditRejected, TypeOK, Subscription
  <2> QED  BY <1>8, <1>a, <2>1 DEF EditRejected
<1>9. ASSUME NEW s \in Subs, RemoveSubscription(s) PROVE RefreshesSound'
  <2>1. \A q \in Subs \ {s} : subs[q].state = "listed" => subs'[q].state = "listed"
    BY <1>9 DEF RemoveSubscription, TypeOK
  <2>2. disk' = disk /\ refresh' = Detached({s})  BY <1>9 DEF RemoveSubscription, Request
  <2> QED  BY <1>t, <2>1, <2>2, SoundDetached DEF RefreshesSound
<1>10. CASE Persist
  <2>1. refresh' = refresh /\ subs' = subs  BY <1>10 DEF Persist
  <2>2. \A s \in Subs : disk.subs[s].state # "unborn" => disk'.subs[s].state # "unborn"
    BY <1>10 DEF Persist, SaveServers, SaveSubs, SaveSelection, Remembered, TypeOK, Documents
  <2> QED  BY <1>a, <2>1, <2>2
<1>11. CASE Crash
  <2> SUFFICES ASSUME NEW q \in Refreshes PROVE RefreshSound(q)'
    BY DEF RefreshesSound
  <2>1. \E p \in {"idle", "fetching", "done"} : refresh'[q] = At(p)
    BY <1>11 DEF Crash
  <2> QED  BY <2>1, SoundAtRest
<1>12. ASSUME NEW r \in Refreshes, NEW only \in SUBSET Subs, StartRefresh(r, only)
       PROVE RefreshesSound'
  <2> SUFFICES ASSUME NEW q \in Refreshes PROVE RefreshSound(q)'
    BY DEF RefreshesSound
  <2>0. mu = "free" /\ disk' = disk /\ subs' = subs  BY <1>12 DEF StartRefresh
  <2>1. CASE q # r
    <3>1. refresh'[q] = refresh[q]  BY <1>12, <2>1 DEF StartRefresh, TypeOK
    <3> QED  BY <1>t, <2>0, <3>1, SoundSame
  <2>2. CASE q = r
    <3>1. refresh'[r] = [At("fetching") EXCEPT !.todo = only \cap Listed(subs)]
      BY <1>12 DEF StartRefresh, TypeOK
    <3>2. /\ refresh'[r].todo = only \cap Listed(subs) /\ refresh'[r].updated = {}
          /\ refresh'[r].fresh = {} /\ refresh'[r].stale = {}
      BY <3>1 DEF At
    <3>3. \A s \in refresh'[r].todo : subs[s].state = "listed" /\ disk.subs[s].state = "listed"
      BY <2>0, <3>2 DEF Listed, DiskFollows
    <3> QED  BY <2>0, <2>2, <3>2, <3>3 DEF RefreshSound, Target
  <2> QED  BY <2>1, <2>2
<1>13. ASSUME NEW r \in Refreshes, Fetch(r) PROVE RefreshesSound'
  <2>1. PICK s \in Subs : \/ Skip(r, s) \/ FetchFails(r, s)
                         \/ \E found \in Bodies : FetchOk(r, s, found)
    BY <1>13 DEF Fetch
  <2>2. s \in refresh[r].todo  BY <2>1 DEF Skip, FetchFails, FetchOk, Fetched
  <2>3. Target(r, s) \in Subscription /\ Target(r, s).state = "listed"
    BY <1>t, <2>2, TargetType DEF RefreshSound
  <2>4. CASE Skip(r, s)  BY <2>3, <2>4, SoundFetched DEF Skip
  <2>5. CASE FetchFails(r, s)
    <3> DEFINE copy == [Target(r, s) EXCEPT !.lastError = "failed"]
    <3>1. copy \in Subscription /\ copy.state = "listed"  BY <2>3 DEF Subscription
    <3>2. Fetched(r, s, copy, {}) /\ {} \in SUBSET Nodes  BY <2>5 DEF FetchFails
    <3> HIDE DEF copy
    <3> QED  BY <3>1, <3>2, SoundFetched
  <2>6. ASSUME NEW found \in Bodies, FetchOk(r, s, found) PROVE RefreshesSound'
    <3>1. /\ [Target(r, s) EXCEPT !.lastError = "none"] \in Subscription
          /\ [Target(r, s) EXCEPT !.lastError = "none"].state = "listed"
          /\ [Target(r, s) EXCEPT !.lastError = "none"].lastError = "none"
      BY <2>3 DEF Subscription
    <3>2. found \in SUBSET Nodes  BY BodiesAssumption
    <3> QED  BY <2>6, <3>1, <3>2, SoundFetched DEF FetchOk
  <2> QED  BY <2>1, <2>4, <2>5, <2>6
<1>14. ASSUME NEW r \in Refreshes, FinishRefresh(r) PROVE RefreshesSound'
  <2> SUFFICES ASSUME NEW q \in Refreshes PROVE RefreshSound(q)'
    BY DEF RefreshesSound
  <2>1. refresh[r].updated \in SUBSET Subs  BY <1>t DEF Refresh
  <2>2. /\ disk' = disk /\ subs' = Written(r)
        /\ refresh' = [Detached(refresh[r].updated) EXCEPT ![r] = At("done")]
    BY <1>14 DEF FinishRefresh
  <2>3. CASE q = r
    <3>1. refresh'[r] = At("done")  BY <2>1, <2>2, DetachedType
    <3> QED  BY <2>3, <3>1, SoundAtRest
  <2>4. CASE q # r
    <3>1. refresh'[q] = Detached(refresh[r].updated)[q]  BY <2>1, <2>2, <2>4, DetachedType
    <3>2. \A s \in Subs \ refresh[r].updated : subs'[s] = subs[s]  BY <2>2 DEF Written
    <3> QED  BY <1>t, <2>1, <2>2, <3>1, <3>2, SoundDetached
  <2> QED  BY <2>3, <2>4
<1>15. CASE UNCHANGED vars  BY <1>15, <1>a DEF vars
<1>16. ASSUME NEW r \in Refreshes, Start(r) PROVE RefreshesSound'
  BY <1>12, <1>16 DEF Start
<1>17. CASE User
  BY <1>1, <1>2, <1>3, <1>4, <1>5, <1>6, <1>7, <1>8, <1>9, <1>17 DEF User
<1> QED  BY <1>10, <1>11, <1>13, <1>14, <1>15, <1>16, <1>17 DEF Next

----------------------------------------------------------------------------
\* The documents and the list.

\* A handler that has d.mu leaves it with the save to come.
LEMMA DocsRequest ==
  ASSUME disk' = disk, mu' = "servers", Remembered,
         \A s \in Subs : subs[s].state # "unborn" => subs'[s].state # "unborn"
  PROVE  (Remembered /\ SaveUnderWay /\ DiskFollows)'
BY DEF Remembered, SaveUnderWay, DiskFollows

LEMMA DocsStep ==
  ASSUME TypeOK, RefreshesSound, Remembered, SaveUnderWay, DiskFollows, [Next]_vars
  PROVE  (Remembered /\ SaveUnderWay /\ DiskFollows)'
<1> DEFINE Docs == Remembered /\ SaveUnderWay /\ DiskFollows
<1>1. ASSUME NEW n \in Nodes, AddServer(n) PROVE Docs'
  BY <1>1, DocsRequest DEF AddServer, Request
<1>2. ASSUME NEW x \in serverList, DuplicateServer(x) PROVE Docs'
  BY <1>2, DocsRequest DEF DuplicateServer, Request
<1>3. ASSUME NEW x \in serverList, NEW y \in serverList, NEW n \in Nodes,
             NEW m \in {"plain", "favorite"}, UpdateServer(x, y, n, m)
      PROVE Docs'
  BY <1>3, DocsRequest DEF UpdateServer, Request
<1>4. ASSUME NEW x \in serverList, RemoveServer(x) PROVE Docs'
  BY <1>4, DocsRequest DEF RemoveServer, Request
<1>5. ASSUME NEW c \in Ids \cup {AutoSelect}, SelectServer(c) PROVE Docs'
  BY <1>5, DocsRequest DEF SelectServer, Request
<1>6. ASSUME NEW s \in Subs, AddSubscription(s) PROVE Docs'
  <2>1. \A q \in Subs : subs[q].state # "unborn" => subs'[q].state # "unborn"
    BY <1>6 DEF AddSubscription, TypeOK
  <2> QED  BY <1>6, <2>1, DocsRequest DEF AddSubscription, Request
<1>7. ASSUME NEW s \in Subs, NEW on \in {"on", "off"}, NEW url \in {"http", subs[s].url},
             EditSubscription(s, on, url)
      PROVE Docs'
  <2>1. \A q \in Subs : subs'[q].state = subs[q].state
    BY <1>7 DEF EditSubscription, TypeOK, Subscription
  <2> QED  BY <1>7, <2>1, DocsRequest DEF EditSubscription, Request
<1>8. ASSUME NEW s \in Subs, EditRejected(s) PROVE Docs'
  <2>1. \A q \in Subs : /\ subs'[q].state = subs[q].state
                        /\ subs'[q].enabled = subs[q].enabled
                        /\ subs'[q].lastError = subs[q].lastError
    BY <1>8 DEF EditRejected, TypeOK, Subscription
  <2>2. /\ mu = "free" /\ mu' = mu /\ disk' = disk
        /\ serverList' = serverList /\ sel' = sel
    BY <1>8 DEF EditRejected
  <2> QED  BY <2>1, <2>2 DEF Remembered, SaveUnderWay, DiskFollows
<1>9. ASSUME NEW s \in Subs, RemoveSubscription(s) PROVE Docs'
  <2>1. \A q \in Subs : subs[q].state # "unborn" => subs'[q].state # "unborn"
    BY <1>9 DEF RemoveSubscription, TypeOK
  <2>2. disk' = disk /\ mu' = "servers"  BY <1>9 DEF RemoveSubscription, Request
  <2> QED  BY <2>1, <2>2, DocsRequest
<1>10. CASE Persist
  <2> USE DEF Persist, Remembered, SaveUnderWay, DiskFollows, TypeOK, Documents
  <2>1. CASE SaveServers  BY <1>10, <2>1 DEF SaveServers
  <2>2. CASE SaveSubs  BY <1>10, <2>2 DEF SaveSubs
  <2>3. CASE SaveSelection  BY <1>10, <2>3 DEF SaveSelection
  <2> QED  BY <1>10, <2>1, <2>2, <2>3
<1>11. CASE Crash
  BY <1>11 DEF Crash, Remembered, SaveUnderWay, DiskFollows
<1>12. ASSUME NEW r \in Refreshes, Start(r) \/ Fetch(r) PROVE Docs'
  <2>1. UNCHANGED <<subs, serverList, sel, disk, mu>>
    BY <1>12 DEF Start, StartRefresh, Fetch, Skip, FetchFails, FetchOk, Fetched
  <2> QED  BY <2>1 DEF Remembered, SaveUnderWay, DiskFollows
<1>13. ASSUME NEW r \in Refreshes, FinishRefresh(r) PROVE Docs'
  <2>1. disk' = disk /\ mu' = "servers" /\ subs' = Written(r)
    BY <1>13 DEF FinishRefresh
  <2>2. \A s \in Subs : subs[s].state # "unborn" => subs'[s].state # "unborn"
    BY <2>1 DEF Written, RefreshesSound, RefreshSound
  <2> QED  BY <2>1, <2>2, DocsRequest
<1>14. CASE UNCHANGED vars
  BY <1>14 DEF vars, Remembered, SaveUnderWay, DiskFollows
<1>15. CASE User
  BY <1>1, <1>2, <1>3, <1>4, <1>5, <1>6, <1>7, <1>8, <1>9, <1>15 DEF User
<1> QED  BY <1>10, <1>11, <1>12, <1>13, <1>14, <1>15 DEF Next

\* A server that a refresh writes was there or belongs to what it fetched.
LEMMA FinishOwners ==
  ASSUME TypeOK, RefreshesSound, NEW r \in Refreshes, FinishRefresh(r),
         NEW x \in serverList'
  PROVE  \/ x \in serverList
         \/ x.sub \in refresh[r].updated
<1>1. PICK byKey \in ByKeys : serverList' = Kept(r) \cup
        Merge(refresh[r].fresh, byKey, Mint(Unmatched(serverList, refresh[r].fresh)))
  BY DEF FinishRefresh
<1> DEFINE mint == Mint(Unmatched(serverList, refresh[r].fresh))
<1>2. CASE x \in Kept(r)  BY <1>2 DEF Kept
<1>3. CASE x \in Merge(refresh[r].fresh, byKey, mint)
  <2>1. PICK p \in refresh[r].fresh :
          x = IF p[2] \in Known(serverList) THEN [byKey[p[2]] EXCEPT !.sub = p[1]]
              ELSE [id |-> mint[p], node |-> p[2], sub |-> p[1], mark |-> "plain"]
    BY <1>3 DEF Merge
  <2>2. p[1] \in refresh[r].updated  BY DEF RefreshesSound, RefreshSound
  <2>3. CASE p[2] \in Known(serverList)
    <3>1. byKey[p[2]] \in Server  BY <2>3 DEF ByKeys, TypeOK
    <3>2. x.sub = p[1]  BY <2>1, <2>3, <3>1 DEF Server
    <3> QED  BY <2>2, <3>2
  <2>4. CASE p[2] \notin Known(serverList)
    <3>1. x.sub = p[1]  BY <2>1, <2>4
    <3> QED  BY <2>2, <3>1
  <2> QED  BY <2>3, <2>4
<1> QED  BY <1>1, <1>2, <1>3

\* What is true of the owners of all servers stays true when every server of the
\* new list has the owner of an old one, or none.
LEMMA OwnersFrom ==
  ASSUME OwnersKnown, OwnersListed, disk' = disk, crashes' = crashes,
         \A x \in serverList' : x.sub = Local \/ \E y \in serverList : y.sub = x.sub,
         \A s \in Subs : subs[s].state = "listed" => subs'[s].state = "listed"
  PROVE  (OwnersKnown /\ OwnersListed)'
<1>1. OwnersKnown'  BY DEF OwnersKnown
<1>2. OwnersListed'  BY DEF OwnersListed, Listed
<1> QED  BY <1>1, <1>2

LEMMA OwnersStep ==
  ASSUME TypeOK, TypeOK', RefreshesSound, Remembered, OwnersKnown, OwnersListed,
         [Next]_vars
  PROVE  (OwnersKnown /\ OwnersListed)'
<1> DEFINE Owners == OwnersKnown /\ OwnersListed
<1>1. ASSUME NEW n \in Nodes, AddServer(n) PROVE Owners'
  BY <1>1, OwnersFrom DEF AddServer, Request
<1>2. ASSUME NEW x \in serverList, DuplicateServer(x) PROVE Owners'
  <2>1. [x EXCEPT !.id = NewID, !.sub = Local].sub = Local  BY DEF TypeOK, Server
  <2> QED  BY <1>2, <2>1, OwnersFrom DEF DuplicateServer, Request
<1>3. ASSUME NEW x \in serverList, NEW y \in serverList, NEW n \in Nodes,
             NEW m \in {"plain", "favorite"}, UpdateServer(x, y, n, m)
      PROVE Owners'
  <2> DEFINE new == [id |-> x.id, node |-> n, mark |-> m,
                     sub |-> IF y.sub = Local THEN x.sub ELSE y.sub]
  <2>1. new.sub = x.sub \/ new.sub = y.sub  OBVIOUS
  <2>2. /\ serverList' = (serverList \ {x}) \cup {new} /\ disk' = disk
        /\ crashes' = crashes /\ subs' = subs
    BY <1>3 DEF UpdateServer, Request
  <2> HIDE DEF new
  <2> QED  BY <2>1, <2>2, OwnersFrom
<1>4. ASSUME NEW x \in serverList, RemoveServer(x) PROVE Owners'
  BY <1>4, OwnersFrom DEF RemoveServer, Request
<1>5. ASSUME NEW c \in Ids \cup {AutoSelect}, SelectServer(c) PROVE Owners'
  BY <1>5, OwnersFrom DEF SelectServer, Request
<1>6. ASSUME NEW s \in Subs, AddSubscription(s) PROVE Owners'
  <2>1. \A q \in Subs : subs[q].state = "listed" => subs'[q].state = "listed"
    BY <1>6 DEF AddSubscription, TypeOK
  <2> QED  BY <1>6, <2>1, OwnersFrom DEF AddSubscription, Request
<1>7. ASSUME NEW s \in Subs, NEW on \in {"on", "off"}, NEW url \in {"http", subs[s].url},
             EditSubscription(s, on, url)
      PROVE Owners'
  <2>1. \A q \in Subs : subs'[q].state = subs[q].state
    BY <1>7 DEF EditSubscription, TypeOK, Subscription
  <2> QED  BY <1>7, <2>1, OwnersFrom DEF EditSubscription, Request
<1>8. ASSUME NEW s \in Subs, EditRejected(s) PROVE Owners'
  <2>1. \A q \in Subs : subs'[q].state = subs[q].state
    BY <1>8 DEF EditRejected, TypeOK, Subscription
  <2> QED  BY <1>8, <2>1, OwnersFrom DEF EditRejected
<1>9. ASSUME NEW s \in Subs, RemoveSubscription(s) PROVE Owners'
  <2>1. /\ disk' = disk /\ crashes' = crashes
        /\ serverList' = {x \in serverList : x.sub # s}
        /\ \A q \in Subs \ {s} : subs'[q] = subs[q]
    BY <1>9 DEF RemoveSubscription, Request, Owned, TypeOK
  <2>2. OwnersKnown'  BY <2>1 DEF OwnersKnown
  <2>3. OwnersListed'  BY <2>1 DEF OwnersListed, Listed
  <2> QED  BY <2>2, <2>3
<1>10. CASE Persist
  <2>1. /\ serverList' = serverList /\ subs' = subs /\ crashes' = crashes
        /\ disk'.servers \in {disk.servers, serverList}
        /\ disk'.subs \in {disk.subs, subs}
    BY <1>10 DEF Persist, SaveServers, SaveSubs, SaveSelection, TypeOK, Documents
  <2>2. \A x \in serverList \cup disk.servers : x.sub # Local => x.sub \in Subs
    BY DEF TypeOK, Server, Documents
  <2>3. OwnersKnown'  BY <2>1, <2>2 DEF OwnersKnown, Remembered
  <2>4. OwnersListed'  BY <2>1 DEF OwnersListed, Listed
  <2> QED  BY <2>3, <2>4
<1>11. CASE Crash
  <2>1. OwnersKnown'  BY <1>11 DEF Crash, OwnersKnown
  <2>2. crashes' # 0  BY <1>11 DEF Crash, TypeOK
  <2> QED  BY <2>1, <2>2 DEF OwnersListed
<1>12. ASSUME NEW r \in Refreshes, Start(r) \/ Fetch(r) PROVE Owners'
  BY <1>12, OwnersFrom DEF Start, StartRefresh, Fetch, Skip, FetchFails, FetchOk, Fetched
<1>13. ASSUME NEW r \in Refreshes, FinishRefresh(r) PROVE Owners'
  <2>1. disk' = disk /\ crashes' = crashes /\ subs' = Written(r)
    BY <1>13 DEF FinishRefresh
  <2>2. \A x \in serverList' : x \in serverList \/ x.sub \in refresh[r].updated
    BY <1>13, FinishOwners
  <2>3. \A s \in refresh[r].updated : /\ disk.subs[s].state # "unborn"
                                     /\ refresh[r].view[s].state = "listed"
    BY DEF RefreshesSound, RefreshSound
  <2>4. \A x \in serverList' : x.sub # Local => x.sub \in Subs
    BY DEF TypeOK, Server
  <2>5. OwnersKnown'  BY <2>1, <2>2, <2>3 DEF OwnersKnown
  <2>6. OwnersListed'  BY <2>1, <2>2, <2>3, <2>4 DEF OwnersListed, Listed, Written
  <2> QED  BY <2>5, <2>6
<1>14. CASE UNCHANGED vars  BY <1>14, OwnersFrom DEF vars
<1>15. CASE User
  BY <1>1, <1>2, <1>3, <1>4, <1>5, <1>6, <1>7, <1>8, <1>9, <1>15 DEF User
<1> QED  BY <1>10, <1>11, <1>12, <1>13, <1>14, <1>15 DEF Next

----------------------------------------------------------------------------

THEOREM SpecCatalogInv == Spec => []CatalogInv
<1>1. Init => CatalogInv
  <2> SUFFICES ASSUME Init PROVE CatalogInv  OBVIOUS
  <2>1. TypeOK  BY InitType
  <2>2. RefreshesSound  BY DEF Init, RefreshesSound, RefreshSound, At
  <2>3. Remembered /\ SaveUnderWay /\ DiskFollows
    BY DEF Init, Remembered, SaveUnderWay, DiskFollows
  <2>4. OwnersKnown /\ OwnersListed  BY DEF Init, OwnersKnown, OwnersListed
  <2> QED  BY <2>1, <2>2, <2>3, <2>4 DEF CatalogInv
<1>2. CatalogInv /\ [Next]_vars => CatalogInv'
  BY TypeStep, RefreshStep, DocsStep, OwnersStep DEF CatalogInv
<1> QED  BY <1>1, <1>2, PTL DEF Spec

\* With d.mu free, what the handlers answered is on disk.
THEOREM SpecDiskFollows == Spec => []DiskFollows
BY SpecCatalogInv, PTL DEF CatalogInv

\* No tag is of a subscription that never was, in memory or on disk.
THEOREM SpecOwnersKnown == Spec => []OwnersKnown
BY SpecCatalogInv, PTL DEF CatalogInv

\* Until the first crash every tagged server has its subscription.
THEOREM SpecOwnersListed == Spec => []OwnersListed
BY SpecCatalogInv, PTL DEF CatalogInv

----------------------------------------------------------------------------
\* What a refresh does to the list.

\* Only FinishRefresh brings a call from its downloads to its end with a save.
LEMMA FinishesOnly ==
  ASSUME TypeOK, [Next]_vars, NEW r \in Refreshes, Finishes(r)
  PROVE  FinishRefresh(r)
<1>1. refresh[r].pc = "fetching" /\ refresh'[r].pc = "done" /\ mu' = "servers"
  BY DEF Finishes
<1>2. refresh[r] \in Refresh  BY DEF TypeOK
<1>3. \A gone \in SUBSET Subs : Detached(gone)[r].pc = refresh[r].pc
  BY <1>2 DEF Detached, Refresh
<1>4. ~ UNCHANGED refresh  BY <1>1
<1>5. ~ User
  <2>1. \A s \in Subs : ~ RemoveSubscription(s)
    BY <1>1, <1>3 DEF RemoveSubscription
  <2> QED
    BY <1>4, <2>1 DEF User, AddServer, DuplicateServer, RemoveServer, UpdateServer,
       SelectServer, AddSubscription, EditRejected, EditSubscription
<1>6. ~ Persist /\ ~ UNCHANGED vars  BY <1>4 DEF Persist, vars
<1>7. ~ Crash  BY <1>1 DEF Crash
<1>8. ASSUME NEW q \in Refreshes, Start(q) PROVE FALSE
  <2>1. refresh[q].pc = "idle" /\ \A t \in Refreshes \ {q} : refresh'[t] = refresh[t]
    BY <1>8 DEF Start, StartRefresh, TypeOK
  <2> QED  BY <1>1, <2>1
<1>9. ASSUME NEW q \in Refreshes, Fetch(q) PROVE FALSE
  <2>1. \E s \in Subs : \E copy, found : Fetched(q, s, copy, found)
    BY <1>9 DEF Fetch, Skip, FetchFails, FetchOk
  <2>2. refresh'[r].pc = refresh[r].pc  BY <1>2, <2>1 DEF Fetched, TypeOK, Refresh
  <2> QED  BY <1>1, <2>2
<1>10. ASSUME NEW q \in Refreshes, FinishRefresh(q), q # r PROVE FALSE
  <2>1. refresh[q].updated \in SUBSET Subs  BY DEF TypeOK, Refresh
  <2>2. refresh'[r] = Detached(refresh[q].updated)[r]
    BY <1>10, <2>1, DetachedType DEF FinishRefresh
  <2> QED  BY <1>1, <1>3, <2>1, <2>2
<1> QED  BY <1>5, <1>6, <1>7, <1>8, <1>9, <1>10 DEF Next

\* A refresh leaves alone what it did not fetch, what it failed to fetch and what
\* the user owns.
THEOREM SpecRefreshKeepsTheRest == Spec => RefreshKeepsTheRest
<1>1. ASSUME TypeOK, [Next]_vars, NEW r \in Refreshes, Finishes(r),
             NEW x \in serverList,
             \/ x.sub \notin refresh[r].updated
             \/ refresh[r].view[x.sub].lastError = "failed"
      PROVE  x \in serverList'
  <2>1. FinishRefresh(r)  BY <1>1, FinishesOnly
  <2>2. x \in Kept(r)  BY <1>1 DEF Kept, Refreshed
  <2> QED  BY <2>1, <2>2 DEF FinishRefresh
<1>2. TypeOK /\ [Next]_vars =>
        [\A r \in Refreshes : Finishes(r) =>
           \A x \in serverList :
             (\/ x.sub \notin refresh[r].updated
              \/ refresh[r].view[x.sub].lastError = "failed")
               => x \in serverList']_vars
  BY <1>1
<1> QED  BY <1>2, SpecTypeOK, PTL DEF Spec, RefreshKeepsTheRest

\* A server that alone stands for its node keeps id and mark through a refresh of
\* its subscription.
THEOREM SpecMetadataSurvives == Spec => MetadataSurvives
<1>1. ASSUME TypeOK, [Next]_vars, NEW r \in Refreshes, Finishes(r),
             NEW x \in serverList, <<x.sub, x.node>> \in refresh[r].fresh,
             \A y \in serverList : y.node = x.node => y = x
      PROVE  x \in serverList'
  <2>1. FinishRefresh(r)  BY <1>1, FinishesOnly
  <2>2. PICK byKey \in ByKeys : serverList' = Kept(r) \cup
          Merge(refresh[r].fresh, byKey, Mint(Unmatched(serverList, refresh[r].fresh)))
    BY <2>1 DEF FinishRefresh
  <2>3. x.node \in Known(serverList)  BY DEF Known
  <2>4. byKey[x.node] = x  BY <1>1, <2>3 DEF ByKeys
  <2>5. x \in Server  BY <1>1 DEF TypeOK
  <2>6. [x EXCEPT !.sub = x.sub] = x  BY <2>5 DEF Server
  <2>7. x \in Merge(refresh[r].fresh, byKey, Mint(Unmatched(serverList, refresh[r].fresh)))
    BY <1>1, <2>3, <2>4, <2>6 DEF Merge
  <2> QED  BY <2>2, <2>7
<1>2. TypeOK /\ [Next]_vars =>
        [\A r \in Refreshes : Finishes(r) =>
           \A x \in serverList :
             (/\ <<x.sub, x.node>> \in refresh[r].fresh
              /\ \A y \in serverList : y.node = x.node => y = x)
               => x \in serverList']_vars
  BY <1>1
<1> QED  BY <1>2, SpecTypeOK, PTL DEF Spec, MetadataSurvives

\* What is merged is tagged with a subscription that was fetched without an error, so
\* nothing of its earlier servers is kept, and a record taken over is of the same node.
THEOREM SpecFetchedIsExact == Spec => FetchedIsExact
<1>1. ASSUME CatalogInv, [Next]_vars, NEW r \in Refreshes, Finishes(r),
             NEW p \in refresh[r].fresh
      PROVE  {x.node : x \in Owned(serverList', p[1])}
               = {q[2] : q \in {q \in refresh[r].fresh : q[1] = p[1]}}
  <2> DEFINE fresh == refresh[r].fresh
             s == p[1]
             mint == Mint(Unmatched(serverList, fresh))
             Merged(byKey, q) == IF q[2] \in Known(serverList)
                                 THEN [byKey[q[2]] EXCEPT !.sub = q[1]]
                                 ELSE [id |-> mint[q], node |-> q[2], sub |-> q[1],
                                       mark |-> "plain"]
  <2>1. FinishRefresh(r)  BY <1>1, FinishesOnly DEF CatalogInv
  <2>2. PICK byKey \in ByKeys : serverList' = Kept(r) \cup Merge(fresh, byKey, mint)
    BY <2>1 DEF FinishRefresh
  <2>3. /\ fresh \in SUBSET (Subs \X Nodes) /\ serverList \in SUBSET Server
    BY <1>1 DEF CatalogInv, TypeOK, Refresh
  <2>4. s \in Refreshed(r) /\ s # Local
    BY <1>1, <2>3, LocalAssumption DEF CatalogInv, RefreshesSound, RefreshSound, Refreshed
  <2>5. \A x \in Kept(r) : x.sub # s
    BY <2>4 DEF Kept
  <2>6. ASSUME NEW q \in fresh
        PROVE  Merged(byKey, q).node = q[2] /\ Merged(byKey, q).sub = q[1]
    <3>1. CASE q[2] \in Known(serverList)
      <4>1. byKey[q[2]] \in Server /\ byKey[q[2]].node = q[2]
        BY <2>3, <3>1 DEF ByKeys
      <4> QED  BY <3>1, <4>1 DEF Server
    <3>2. CASE q[2] \notin Known(serverList)
      BY <3>2
    <3> QED  BY <3>1, <3>2
  <2>7. Merge(fresh, byKey, mint) = {Merged(byKey, q) : q \in fresh}
    BY DEF Merge
  <2> HIDE DEF Merged, mint
  <2>8. ASSUME NEW n, \E x \in Owned(serverList', s) : n = x.node
        PROVE  \E q \in fresh : q[1] = s /\ q[2] = n
    <3>1. PICK x \in serverList' : x.sub = s /\ n = x.node
      BY <2>8 DEF Owned
    <3>2. PICK q \in fresh : x = Merged(byKey, q)
      BY <2>2, <2>5, <2>7, <3>1
    <3> QED  BY <2>6, <3>1, <3>2
  <2>9. ASSUME NEW q \in fresh, q[1] = s
        PROVE  \E x \in Owned(serverList', s) : q[2] = x.node
    BY <2>2, <2>6, <2>7, <2>9 DEF Owned
  <2> QED  BY <2>8, <2>9
<1>2. CatalogInv /\ [Next]_vars =>
        [\A r \in Refreshes : Finishes(r) =>
           \A p \in refresh[r].fresh :
             {x.node : x \in Owned(serverList', p[1])}
               = {q[2] : q \in {q \in refresh[r].fresh : q[1] = p[1]}}]_vars
  BY <1>1
<1> QED  BY <1>2, SpecCatalogInv, PTL DEF Spec, FetchedIsExact
=============================================================================
