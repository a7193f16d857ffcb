---------------------- MODULE UpdateHandoff_proofs ----------------------
(***************************************************************************)
(* Proofs about UpdateHandoff, for any number of versions and of updaters  *)
(* at work at the same time.                                               *)
(***************************************************************************)
EXTENDS UpdateHandoff, TLAPS

\* What the properties leave out: an updater past its promotion works on a tree
\* that is in place, and so does the temporary link all updaters share; nothing
\* removes a tree that is in place.
PromotedIsInstalled ==
  \A u \in Updaters :
    ups[u].at \in {"anchor", "link", "swap", "report"} => ups[u].ver \in installed
TmpIsInstalled == tmp = None \/ tmp \in installed

\* The inductive invariant of the trees and links.
TreeInv == /\ TypeOK
           /\ CurrentIsComplete /\ AnchorIsComplete /\ ReportedIsInstalled
           /\ PromotedIsInstalled /\ TmpIsInstalled

USE DEF Steps, Trees, links, daemon, At, Move, NoResult, Done

\* Every variable keeps its type.
LEMMA TypeStep ==
  ASSUME TypeOK, TreeInv, [Next]_vars
  PROVE  TypeOK'
<1> USE DEF TypeOK
<1>1. ASSUME NEW u \in Updaters, NEW v \in Versions, HandOff(u, v) PROVE TypeOK'
  BY <1>1 DEF HandOff
<1>2. ASSUME NEW u \in Updaters, Waited(u) PROVE TypeOK'
  BY <1>2 DEF Waited
<1>3. ASSUME NEW u \in Updaters, Promote(u) PROVE TypeOK'
  BY <1>3 DEF Promote
<1>4. ASSUME NEW u \in Updaters, Anchor(u) PROVE TypeOK'
  BY <1>4 DEF Anchor
<1>5. ASSUME NEW u \in Updaters, Link(u) PROVE TypeOK'
  <2>1. ups[u].ver \in installed
    BY <1>5 DEF Link, TreeInv, PromotedIsInstalled
  <2> QED  BY <1>5, <2>1 DEF Link
<1>6. ASSUME NEW u \in Updaters, Swap(u) PROVE TypeOK'
  BY <1>6 DEF Swap
<1>7. ASSUME NEW u \in Updaters, Report(u) PROVE TypeOK'
  <2>1. restarting' \in BOOLEAN  BY <1>7 DEF Report, Noticed
  <2>2. result' \in [ver : Versions \cup {None}, fate : {"none", "ok", "failed"}]
    BY <1>7 DEF Report
  <2>3. ups' \in [Updaters -> [at : Steps, ver : Versions \cup {None}]]
    BY <1>7 DEF Report
  <2>4. staged' \subseteq Versions /\ UNCHANGED <<app, contract, installed, links>>
    BY <1>7 DEF Report
  <2> QED  BY <2>1, <2>2, <2>3, <2>4
<1>8. ASSUME NEW u \in Updaters, Killed(u) PROVE TypeOK'
  BY <1>8 DEF Killed, Noticed
<1>9. ASSUME NEW v \in Versions, Abandons(v) PROVE TypeOK'
  BY <1>9 DEF Abandons
<1>10. CASE Withdraw  BY <1>10 DEF Withdraw
<1>11. CASE AppCloses  BY <1>11 DEF AppCloses
<1>12. CASE AppStarts  BY <1>12 DEF AppStarts
<1>13. CASE UNCHANGED vars  BY <1>13 DEF vars
<1> QED
  BY <1>1, <1>2, <1>3, <1>4, <1>5, <1>6, <1>7, <1>8, <1>9, <1>10, <1>11,
     <1>12, <1>13 DEF Next, UpdaterStep

\* Trees, links and reports stay in agreement, whichever process moves.
LEMMA TreeStep ==
  ASSUME TreeInv, TypeOK', [Next]_vars
  PROVE  TreeInv'
<1> USE DEF TreeInv, TypeOK, CurrentIsComplete, AnchorIsComplete,
            ReportedIsInstalled, PromotedIsInstalled, TmpIsInstalled
<1>1. ASSUME NEW u \in Updaters, NEW v \in Versions, HandOff(u, v) PROVE TreeInv'
  BY <1>1 DEF HandOff
<1>2. ASSUME NEW u \in Updaters, Waited(u) PROVE TreeInv'
  BY <1>2 DEF Waited
<1>3. ASSUME NEW u \in Updaters, Promote(u) PROVE TreeInv'
  BY <1>3 DEF Promote
<1>4. ASSUME NEW u \in Updaters, Anchor(u) PROVE TreeInv'
  BY <1>4 DEF Anchor
<1>5. ASSUME NEW u \in Updaters, Link(u) PROVE TreeInv'
  BY <1>5 DEF Link
<1>6. ASSUME NEW u \in Updaters, Swap(u) PROVE TreeInv'
  BY <1>6 DEF Swap
<1>7. ASSUME NEW u \in Updaters, Report(u) PROVE TreeInv'
  BY <1>7 DEF Report, Noticed
<1>8. ASSUME NEW u \in Updaters, Killed(u) PROVE TreeInv'
  BY <1>8 DEF Killed, Noticed
<1>9. ASSUME NEW v \in Versions, Abandons(v) PROVE TreeInv'
  BY <1>9 DEF Abandons
<1>10. CASE Withdraw  BY <1>10 DEF Withdraw
<1>11. CASE AppCloses  BY <1>11 DEF AppCloses
<1>12. CASE AppStarts  BY <1>12 DEF AppStarts
<1>13. CASE UNCHANGED vars  BY <1>13 DEF vars
<1> QED
  BY <1>1, <1>2, <1>3, <1>4, <1>5, <1>6, <1>7, <1>8, <1>9, <1>10, <1>11,
     <1>12, <1>13 DEF Next, UpdaterStep

\* The inductive invariant holds of every behaviour.
LEMMA SpecTreeInv == Spec => []TreeInv
<1>1. Init => TreeInv
  <2> SUFFICES ASSUME Init PROVE TreeInv  OBVIOUS
  <2>1. TypeOK  BY DEF Init, TypeOK
  <2>2. CurrentIsComplete /\ AnchorIsComplete /\ TmpIsInstalled
    BY DEF Init, CurrentIsComplete, AnchorIsComplete, TmpIsInstalled
  <2>3. ReportedIsInstalled  BY DEF Init, ReportedIsInstalled
  <2>4. PromotedIsInstalled  BY DEF Init, PromotedIsInstalled
  <2> QED  BY <2>1, <2>2, <2>3, <2>4 DEF TreeInv
<1>2. TreeInv /\ [Next]_vars => TreeInv'
  BY TypeStep, TreeStep DEF TreeInv
<1> QED  BY <1>1, <1>2, PTL DEF Spec

\* Every variable keeps its type.
THEOREM SpecTypeOK == Spec => []TypeOK
<1>1. TreeInv => TypeOK  BY DEF TreeInv
<1> QED  BY SpecTreeInv, <1>1, PTL

\* However many updaters overlap and wherever they are killed, the current link
\* names a complete tree: runApply promotes and checks before it activates.
THEOREM SpecCurrentIsComplete == Spec => []CurrentIsComplete
<1>1. TreeInv => CurrentIsComplete  BY DEF TreeInv
<1> QED  BY SpecTreeInv, <1>1, PTL

\* So does the previous link, the anchor of a rollback, when there is one.
THEOREM SpecAnchorIsComplete == Spec => []AnchorIsComplete
<1>1. TreeInv => AnchorIsComplete  BY DEF TreeInv
<1> QED  BY SpecTreeInv, <1>1, PTL

\* No updater writes a success for a version whose tree is not in place.
THEOREM SpecReportedIsInstalled == Spec => []ReportedIsInstalled
<1>1. TreeInv => ReportedIsInstalled  BY DEF TreeInv
<1> QED  BY SpecTreeInv, <1>1, PTL

----------------------------------------------------------------------------
\* The layout

\* Each action of the hand-off is a step of the layout, or leaves it alone: only the
\* promotion adds a tree, only the anchor and the swap touch a link that counts, and
\* the swap takes a temporary link that names a tree in place.
LEMMA LayoutStep ==
  ASSUME TreeInv, [Next]_vars
  PROVE  [Layout!Next]_(Layout!dvars)
<1> USE DEF Layout!Next, Layout!dvars
<1>1. ASSUME NEW u \in Updaters, Promote(u) PROVE Layout!Install
  BY <1>1 DEF Promote, Layout!Install
<1>2. ASSUME NEW u \in Updaters, Anchor(u) PROVE Layout!SetAnchor \/ Layout!DropAnchor
  BY <1>2 DEF Anchor, Layout!SetAnchor, Layout!DropAnchor
<1>3. ASSUME NEW u \in Updaters, Swap(u) PROVE Layout!Activate
  <2>1. tmp # None => tmp \in installed
    BY DEF TreeInv, TmpIsInstalled
  <2>2. current \in installed
    BY DEF TreeInv, CurrentIsComplete
  <2> QED  BY <1>3, <2>1, <2>2 DEF Swap, Layout!Activate
<1>4. ASSUME NEW u \in Updaters, NEW v \in Versions, HandOff(u, v)
      PROVE  UNCHANGED Layout!dvars
  BY <1>4 DEF HandOff
<1>5. ASSUME NEW u \in Updaters, Waited(u) \/ Link(u) \/ Report(u) \/ Killed(u)
      PROVE  UNCHANGED Layout!dvars
  BY <1>5 DEF Waited, Link, Report, Killed
<1>6. ASSUME (\E v \in Versions : Abandons(v)) \/ Withdraw \/ AppCloses \/ AppStarts
      PROVE  UNCHANGED Layout!dvars
  BY <1>6 DEF Abandons, Withdraw, AppCloses, AppStarts
<1>7. CASE UNCHANGED vars  BY <1>7 DEF vars
<1> QED
  BY <1>1, <1>2, <1>3, <1>4, <1>5, <1>6, <1>7 DEF Next, UpdaterStep

\* Whatever updaters overlap and are killed, the install tree goes through the states
\* that the layout of install.go allows, in its steps.
THEOREM SpecDeployment == Spec => DeploymentSpec
<1>1. Init => Layout!Init
  BY DEF Init, Layout!Init
<1>2. TreeInv /\ [Next]_vars => [Layout!Next]_(Layout!dvars)
  BY LayoutStep
<1> QED  BY <1>1, <1>2, SpecTreeInv, PTL DEF Spec, DeploymentSpec, Layout!Spec

\* The layout by itself is enough for what a start and a rollback need, so whatever
\* implements it has that too.
THEOREM DeploymentStartable == DeploymentSpec => []Layout!Startable
<1>1. Layout!Init => Layout!Startable
  BY DEF Layout!Init, Layout!Startable
<1>2. Layout!Startable /\ [Layout!Next]_(Layout!dvars) => Layout!Startable'
  BY DEF Layout!Startable, Layout!Next, Layout!dvars, Layout!Install, Layout!SetAnchor,
         Layout!DropAnchor, Layout!Activate
<1> QED  BY <1>1, <1>2, PTL DEF DeploymentSpec, Layout!Spec
=========================================================================
