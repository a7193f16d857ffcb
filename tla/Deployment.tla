----------------------------- MODULE Deployment -----------------------------
(***************************************************************************)
(* What the versioned layout promises, without saying who does it or how:  *)
(* trees appear whole and never go, the version in use changes in one step *)
(* to a tree that was there before the step, and the anchor of a rollback  *)
(* is only ever made to name the version in use at that moment.            *)
(***************************************************************************)

CONSTANTS Base,  \* the version there at the start
          None   \* no version

VARIABLES trees,  \* the versions whose tree is in place
          live,   \* the version in use
          anchor  \* the version a rollback would return to, or None

dvars == <<trees, live, anchor>>

Init == trees = {Base} /\ live = Base /\ anchor = None

Install    == trees \subseteq trees' /\ UNCHANGED <<live, anchor>>
SetAnchor  == anchor' = live /\ UNCHANGED <<trees, live>>
DropAnchor == anchor' = None /\ UNCHANGED <<trees, live>>
Activate   == live' \in trees /\ UNCHANGED <<trees, anchor>>

Next == Install \/ SetAnchor \/ DropAnchor \/ Activate

Spec == Init /\ [][Next]_dvars

\* Both versions one could start have their trees.
Startable == live \in trees /\ anchor \in trees \cup {None}
=============================================================================
