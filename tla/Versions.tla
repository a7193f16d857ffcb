---------------------------- MODULE Versions ----------------------------
(***************************************************************************)
(* Version texts, and the order and the policy on them                     *)
(* (backend/internal/update/version.go).                                   *)
(*                                                                         *)
(* A text is its dotted components and its prerelease tag: "6.0" and       *)
(* "6.0.0" are two texts of one version.  A component that is no number    *)
(* leaves no components.  Tags are compared as strings, by bytes; a tag is *)
(* its place in that order, 0 for none.                                    *)
(***************************************************************************)
EXTENDS Integers, Sequences

\* A text as written, e.g. Text(<<6, 0>>, 0).
Text(parts, pre) == [parts |-> parts, pre |-> pre]

Parses(text) == Len(text.parts) \in 1..3

\* Missing components are 0.
ParseVersion(text) ==
  [core |-> [i \in 1..3 |-> IF i <= Len(text.parts) THEN text.parts[i] ELSE 0],
   pre  |-> text.pre]

Version == [core : [1..3 -> Nat], pre : Nat]

cmpInt(a, b) == IF a < b THEN -1 ELSE IF a > b THEN 1 ELSE 0

\* A final release outranks any prerelease of the same core.
ComparePre(a, b) ==
  IF a = b THEN 0 ELSE IF a = 0 THEN 1 ELSE IF b = 0 THEN -1 ELSE cmpInt(a, b)

Compare(v, o) ==
  IF v.core[1] # o.core[1] THEN cmpInt(v.core[1], o.core[1])
  ELSE IF v.core[2] # o.core[2] THEN cmpInt(v.core[2], o.core[2])
  ELSE IF v.core[3] # o.core[3] THEN cmpInt(v.core[3], o.core[3])
  ELSE ComparePre(v.pre, o.pre)

\* An error (a text that does not parse) counts as not newer, as in Check.
IsNewerThan(current, candidate) ==
  /\ Parses(current) /\ Parses(candidate)
  /\ Compare(ParseVersion(candidate), ParseVersion(current)) > 0

\* minimum is the empty sequence or holds the one text of the manifest.
Acceptable(current, target, minimum) ==
  /\ IsNewerThan(current, target)
  /\ \A i \in DOMAIN minimum :
       /\ Parses(minimum[i])
       /\ Compare(ParseVersion(current), ParseVersion(minimum[i])) >= 0
=============================================================================
