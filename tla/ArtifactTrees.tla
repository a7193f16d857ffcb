-------------------------- MODULE ArtifactTrees --------------------------
(***************************************************************************)
(* What an artifact is made of and what unpacking it leaves on disk:       *)
(* genDelta of cmd/update-tool, and Apply, CopyTree and unzipAll of        *)
(* internal/update (delta.go, install.go).                                 *)
(*                                                                         *)
(* A tree maps the path of each of its files, a sequence of names, to the  *)
(* contents and the permission bits.  A directory is a proper prefix of a  *)
(* path; empty directories are left out.                                   *)
(***************************************************************************)
EXTENDS Naturals, Sequences

\* p is a directory on the way to q.
Above(p, q) == Len(p) < Len(q) /\ p = SubSeq(q, 1, Len(p))

Contents(tree) == [p \in DOMAIN tree |-> tree[p].data]

Restriction(tree, paths) == [p \in DOMAIN tree \cap paths |-> tree[p]]

----------------------------------------------------------------------------
\* The publisher.

\* New or different files of to; the permission bits are not compared.
diffTrees(from, to) ==
  {p \in DOMAIN to : p \in DOMAIN from => from[p].data # to[p].data}

listTreeFiles(to) == DOMAIN to

genDelta(from, to) == [files   |-> Restriction(to, diffTrees(from, to)),
                       listing |-> listTreeFiles(to)]

----------------------------------------------------------------------------
\* Extraction.

\* Modes that a tool without modes writes count as none recorded.
filePerm(mode) == IF mode \in {"0000", "0666"} THEN "0755" ELSE mode

\* O_TRUNC opens a file that is there and keeps its permission bits.
unzipInto(tree, files) ==
  [p \in DOMAIN tree \cup DOMAIN files |->
     IF p \notin DOMAIN files THEN tree[p]
     ELSE [data |-> files[p].data,
           mode |-> IF p \in DOMAIN tree THEN tree[p].mode ELSE filePerm(files[p].mode)]]

\* MkdirAll fails where a file is in the way, and OpenFile where a directory is.
Extracts(tree, files) ==
  \A p \in DOMAIN files, q \in DOMAIN tree : ~Above(q, p) /\ ~Above(p, q)

dropMissing(tree, listing) == Restriction(tree, listing)

CopyTree(tree) == tree

\* ZipOverlayApplier.Apply; the overlay has no tree where Extracts fails.
Applies(base, delta) == Extracts(CopyTree(base), delta.files)
Apply(base, delta)   == dropMissing(unzipInto(CopyTree(base), delta.files), delta.listing)

\* A full artifact has the tree under one folder (release.yml) or flat (windows.yml).
Archive(tree, folder) ==
  [m \in {folder \o p : p \in DOMAIN tree} |->
     tree[SubSeq(m, Len(folder) + 1, Len(m))]]

\* The top folder, if all members are in one.
zipTopPrefix(members) ==
  IF \E top \in DOMAIN members : \A m \in DOMAIN members : Len(m) > 1 /\ m[1] = top[1]
  THEN 1 ELSE 0

unzipAll(archive) ==
  LET strip == zipTopPrefix(archive)
      files == [p \in {SubSeq(m, strip + 1, Len(m)) : m \in DOMAIN archive} |->
                  LET m == CHOOSE m \in DOMAIN archive : SubSeq(m, strip + 1, Len(m)) = p
                  IN archive[m]]
  IN unzipInto(<<>>, files)
=============================================================================
