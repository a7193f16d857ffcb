--------------------------- MODULE MCAcquisition ---------------------------
\* Values for TLC: five versions, and releases that fail in every way there is.
EXTENDS Acquisition, TLC

V0 == Text(<<6, 0>>, 0)
R0 == Text(<<6, 0, 0>>, 0)   \* a rebuild, under another text of the same version
B1 == Text(<<6, 1>>, 1)
V1 == Text(<<6, 1>>, 0)
V2 == Text(<<6, 2>>, 0)
Junk == Text(<<>>, 0)

File(data, mode) == [data |-> data, mode |-> mode]
Bin == <<"connective">>
Old == <<"old">>
Lib == <<"lib">>
Sub == <<"lib", "x">>
Dat == <<"data">>

\* V1 drops a file and makes one executable; B1 makes a directory of a file.
MCReleased ==
  (V0 :> (Bin :> File(1, "0755") @@ Dat :> File(1, "0644") @@ Lib :> File(1, "0644")
          @@ Old :> File(1, "0644"))) @@
  (R0 :> (Bin :> File(1, "0755") @@ Dat :> File(2, "0644") @@ Lib :> File(1, "0644"))) @@
  (B1 :> (Bin :> File(2, "0755") @@ Sub :> File(1, "0644"))) @@
  (V1 :> (Bin :> File(2, "0755") @@ Dat :> File(1, "0755") @@ Lib :> File(1, "0644"))) @@
  (V2 :> (Bin :> File(3, "0755") @@ Lib :> File(1, "0644")))

Full(size)        == [type |-> "full", from |-> Junk, size |-> size]
DeltaOf(v, size)  == [type |-> "delta", from |-> v, size |-> size]

Manifest(v, min, arts) ==
  [version |-> v, channel |-> IF v.pre = 0 THEN "stable" ELSE "beta",
   platform |-> "this", minimum |-> min, artifacts |-> arts,
   signature |-> "valid", urls |-> "absolute"]

Release(v, m) ==
  [tag |-> v, status |-> IF v.pre = 0 THEN "final" ELSE "prerelease",
   manifests |-> ("shared" :> m), sidecars |-> ("shared" :> "shared")]

One == Release(V1, Manifest(V1, <<>>, <<Full(2), DeltaOf(V0, 1)>>))
Two == Release(V2, Manifest(V2, <<V1>>, <<Full(2), DeltaOf(V1, 1)>>))
Beta == Release(B1, Manifest(B1, <<>>, <<Full(2), DeltaOf(V0, 1), DeltaOf(V1, 2)>>))

\* The manifest of One in the place of the newest release, with a flaw.
New == [One EXCEPT !.tag = V2]
M1  == ManifestOf(One)
With(m) == [New EXCEPT !.manifests = ("shared" :> m)]
Broken == With([M1 EXCEPT !.artifacts = <<Full(2), Full(2)>>])

\* Newest releases that no check should come to grief over.
Odd == {
  [New EXCEPT !.manifests = <<>>], Broken, [New EXCEPT !.sidecars = ("shared" :> "other")],
  [New EXCEPT !.manifests = ("own" :> M1 @@ "shared" :> [M1 EXCEPT !.platform = "other"])],
  With([M1 EXCEPT !.urls = "missing"]), With([M1 EXCEPT !.urls = "relative"]),
  With([M1 EXCEPT !.signature = "invalid"]), With([M1 EXCEPT !.platform = "other"]),
  With([M1 EXCEPT !.artifacts = <<DeltaOf(V0, 1)>>]), With([M1 EXCEPT !.version = V0]),
  [Two EXCEPT !.status = "draft"], [Two EXCEPT !.tag = Junk]}

MCListings == {<<>>, <<One>>, <<Two, One>>, <<Two, Beta, One>>, <<Beta, One>>}
              \cup {<<odd, One>> : odd \in Odd} \cup {<<Broken>>}

MCBases == {None, [name |-> V0, tree |-> MCReleased[V0]], [name |-> R0, tree |-> MCReleased[R0]]}
MCFolder == <<"v">>
MCNames == {"connective", "old", "lib", "x", "data", "v"}
=============================================================================
