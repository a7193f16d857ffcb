------------------------ MODULE Acquisition_proofs ------------------------
(***************************************************************************)
(* Proofs about Acquisition: the answer of a search, the file a download   *)
(* makes of what an honest source serves, and the tree an install makes of *)
(* a genuine artifact, whatever the index, the releases and the live       *)
(* install are.                                                            *)
(***************************************************************************)
EXTENDS Acquisition, SequenceTheorems, TLAPS

----------------------------------------------------------------------------
\* Artifacts and trees.

\* A delta turns a tree with the contents of the version it was made against into one
\* with the contents of the version it was made for, whatever the modes of either.
LEMMA DeltaRoundTrip ==
  ASSUME NEW old, NEW from, NEW to, Contents(old) = Contents(from)
  PROVE  Contents(Apply(old, genDelta(from, to))) = Contents(to)
<1> DEFINE patch == Restriction(to, diffTrees(from, to))
<1> DEFINE over  == unzipInto(old, patch)
<1>1. /\ DOMAIN old = DOMAIN from
      /\ \A p \in DOMAIN old : old[p].data = from[p].data
  <2>1. DOMAIN Contents(old) = DOMAIN old /\ DOMAIN Contents(from) = DOMAIN from
    BY DEF Contents
  <2>2. \A p \in DOMAIN old : Contents(old)[p] = old[p].data
    BY DEF Contents
  <2>3. \A p \in DOMAIN from : Contents(from)[p] = from[p].data
    BY DEF Contents
  <2> QED  BY <2>1, <2>2, <2>3
<1>2. /\ DOMAIN patch = DOMAIN to \cap diffTrees(from, to)
      /\ \A p \in DOMAIN patch : patch[p] = to[p]
  BY DEF Restriction
<1>3. \A p \in DOMAIN to : p \in DOMAIN patch <=> (p \in DOMAIN from => from[p].data # to[p].data)
  BY <1>2 DEF diffTrees
<1> HIDE DEF patch
<1>4. DOMAIN over = DOMAIN old \cup DOMAIN patch
  BY DEF unzipInto
<1>5. \A p \in DOMAIN over :
        over[p].data = IF p \in DOMAIN patch THEN patch[p].data ELSE old[p].data
  BY DEF unzipInto
<1> HIDE DEF over
<1>6. Apply(old, genDelta(from, to)) = Restriction(over, DOMAIN to)
  BY DEF Apply, genDelta, dropMissing, CopyTree, listTreeFiles, over, patch
<1>7. DOMAIN Restriction(over, DOMAIN to) = DOMAIN to
  BY <1>1, <1>3, <1>4 DEF Restriction
<1>8. \A p \in DOMAIN to : Restriction(over, DOMAIN to)[p].data = to[p].data
  BY <1>1, <1>2, <1>3, <1>4, <1>5 DEF Restriction
<1> QED  BY <1>6, <1>7, <1>8 DEF Contents

\* Taking the folder off the path of an archived file gives the file's own path.
LEMMA FolderOff ==
  ASSUME NEW p \in Seq(Names)
  PROVE  /\ Folder \o p \in Seq(Names)
         /\ Len(Folder \o p) = Len(Folder) + Len(p)
         /\ SubSeq(Folder \o p, Len(Folder) + 1, Len(Folder \o p)) = p
         /\ Len(Folder) = 1 => (Folder \o p)[1] = Folder[1]
<1>1. Folder \in Seq(Names) /\ Len(Folder) \in Nat /\ Len(p) \in Nat
  BY FolderAssumption, LenProperties
<1>2. /\ Folder \o p \in Seq(Names)
      /\ Len(Folder \o p) = Len(Folder) + Len(p)
      /\ \A i \in 1..Len(Folder) + Len(p) :
           (Folder \o p)[i] = IF i <= Len(Folder) THEN Folder[i] ELSE p[i - Len(Folder)]
  BY <1>1, ConcatProperties
<1> DEFINE m == Folder \o p
           n == Len(Folder)
           s == SubSeq(m, n + 1, n + Len(p))
<1> HIDE DEF m
<1>3. \A i \in n + 1 .. n + Len(p) : m[i] \in Names
  BY <1>1, <1>2, ElementOfSeq DEF m
<1>4. /\ s \in Seq(Names)
      /\ Len(s) = IF n + 1 <= n + Len(p) THEN (n + Len(p)) - (n + 1) + 1 ELSE 0
      /\ \A i \in 1 .. (n + Len(p)) - (n + 1) + 1 : s[i] = m[(n + 1) + i - 1]
  BY <1>1, <1>3, SubSeqProperties
<1>5. Len(s) = Len(p)
  BY <1>1, <1>4
<1>6. \A i \in 1..Len(s) : s[i] = p[i]
  BY <1>1, <1>2, <1>4, <1>5 DEF m
<1>7. s = p
  BY <1>4, <1>5, <1>6, SeqEqual
<1> QED  BY <1>1, <1>2, <1>7 DEF m

\* What unpacking takes off the paths of a full artifact is its folder, no more: a
\* file outside of all directories keeps a flat archive from losing one.
LEMMA FolderFound ==
  ASSUME NEW tree, DOMAIN tree \subseteq Seq(Names) \ {<<>>},
         \E p \in DOMAIN tree : Len(p) = 1
  PROVE  zipTopPrefix(Archive(tree, Folder)) = Len(Folder)
<1> DEFINE members == {Folder \o p : p \in DOMAIN tree}
<1>1. DOMAIN Archive(tree, Folder) = members
  BY DEF Archive
<1>2. Len(Folder) \in {0, 1}
  BY FolderAssumption, LenProperties
<1>3. \A p \in DOMAIN tree : Len(p) \in Nat /\ Len(p) > 0
  <2>1. \A p \in Seq(Names) : p # <<>> => Len(p) \in Nat \ {0}
    BY EmptySeq
  <2> QED  BY <2>1
<1>4. \A p \in DOMAIN tree : /\ Len(Folder \o p) = Len(Folder) + Len(p)
                             /\ Len(Folder) = 1 => (Folder \o p)[1] = Folder[1]
  BY FolderOff
<1>5. CASE Len(Folder) = 1
  <2>1. \E top \in members : \A m \in members : Len(m) > 1 /\ m[1] = top[1]
    <3>1. PICK p \in DOMAIN tree : TRUE
      OBVIOUS
    <3>2. Folder \o p \in members
      OBVIOUS
    <3>3. \A m \in members : Len(m) > 1 /\ m[1] = Folder[1]
      BY <1>3, <1>4, <1>5
    <3> QED  BY <3>1, <3>2, <3>3, <1>4, <1>5
  <2> HIDE DEF members
  <2> QED  BY <1>1, <1>5, <2>1 DEF zipTopPrefix
<1>6. CASE Len(Folder) = 0
  <2>1. PICK p \in DOMAIN tree : Len(p) = 1
    OBVIOUS
  <2>2. Folder \o p \in members
    OBVIOUS
  <2> HIDE DEF members
  <2>3. Len(Folder \o p) = 1
    <3>1. Len(Folder \o p) = Len(Folder) + Len(p)
      BY <1>4
    <3> QED  BY <1>6, <2>1, <3>1
  <2>4. ~\E top \in members : \A m \in members : Len(m) > 1 /\ m[1] = top[1]
    <3>1. ~(Len(Folder \o p) > 1)
      BY <2>3
    <3> QED  BY <2>2, <3>1
  <2> QED  BY <1>1, <1>6, <2>4 DEF zipTopPrefix
<1> QED  BY <1>2, <1>5, <1>6

\* A full artifact unpacks to the contents it was made of, under a folder or flat.
LEMMA FullRoundTrip ==
  ASSUME NEW tree, DOMAIN tree \subseteq Seq(Names) \ {<<>>},
         \E p \in DOMAIN tree : Len(p) = 1
  PROVE  Contents(unzipAll(Archive(tree, Folder))) = Contents(tree)
<1> DEFINE n       == Len(Folder)
           archive == Archive(tree, Folder)
           bare(m) == SubSeq(m, n + 1, Len(m))
<1>1. DOMAIN archive = {Folder \o p : p \in DOMAIN tree}
  BY DEF Archive
<1>2. \A p \in DOMAIN tree : bare(Folder \o p) = p
  BY FolderOff
<1>3. \A m \in DOMAIN archive : archive[m] = tree[bare(m)]
  BY DEF Archive
<1>4. zipTopPrefix(archive) = n
  BY FolderFound
<1> HIDE DEF archive, bare
<1>5. {bare(m) : m \in DOMAIN archive} = DOMAIN tree
  <2>1. ASSUME NEW m \in DOMAIN archive  PROVE bare(m) \in DOMAIN tree
    <3>1. PICK p \in DOMAIN tree : m = Folder \o p
      BY <1>1
    <3> QED  BY <1>2, <3>1
  <2>2. \A p \in DOMAIN tree : Folder \o p \in DOMAIN archive
    BY <1>1
  <2> QED  BY <1>2, <2>1, <2>2
<1> DEFINE pick(p) == CHOOSE m \in DOMAIN archive : bare(m) = p
           files   == [p \in {bare(m) : m \in DOMAIN archive} |-> archive[pick(p)]]
<1>6. \A p \in DOMAIN tree : pick(p) \in DOMAIN archive /\ bare(pick(p)) = p
  BY <1>1, <1>2
<1> HIDE DEF pick
<1>7. DOMAIN files = DOMAIN tree /\ \A p \in DOMAIN tree : files[p] = tree[p]
  BY <1>3, <1>5, <1>6
<1>8. unzipAll(archive) = unzipInto(<<>>, files)
  BY <1>4 DEF unzipAll, bare, pick
<1> HIDE DEF files
<1>9. DOMAIN unzipInto(<<>>, files) = DOMAIN tree
  BY <1>7 DEF unzipInto
<1>10. \A p \in DOMAIN tree : unzipInto(<<>>, files)[p].data = tree[p].data
  BY <1>7 DEF unzipInto
<1> QED  BY <1>8, <1>9, <1>10 DEF Contents, archive

----------------------------------------------------------------------------
\* The file of a fetch.

FetchType ==
  [pc : {"off", "request", "body", "done", "failed"}, try : Nat, size : Nat,
   file : Seq(Nat), next : Nat, source : {"honest", "lying"},
   why : {"none", "tries", "length", "context"}]

\* What an honest source leads to: the first blocks of the artifact, in their order;
\* a response goes on where the file ends, and nothing was cut off or too long.
HonestSoFar(f) ==
  f.source = "honest" =>
    /\ f.file = [k \in 1..Len(f.file) |-> k] /\ Len(f.file) <= f.size
    /\ f.pc = "body" => f.next = Len(f.file) + 1
    /\ f.pc = "done" => Len(f.file) = f.size
    /\ f.why # "length"

FetchInv == fetch \in FetchType /\ HonestSoFar(fetch)

\* Giving up is no promise broken, unless it is over the length of an honest file.
LEMMA GaveUpSound ==
  ASSUME NEW f \in FetchType, NEW why \in {"tries", "length", "context"},
         why = "length" => f.source = "lying"
  PROVE  GaveUp(f, why) \in FetchType /\ HonestSoFar(GaveUp(f, why))
<1> DEFINE g == GaveUp(f, why)
<1>1. g = [f EXCEPT !.pc = "failed", !.file = <<>>, !.next = 0, !.why = why]
  BY DEF GaveUp
<1>2. g \in FetchType
  <2>1. <<>> \in Seq(Nat) /\ 0 \in Nat
    BY EmptySeq
  <2> QED  BY <1>1, <2>1 DEF FetchType
<1>3. /\ g.source = f.source /\ g.file = <<>> /\ g.pc = "failed" /\ g.why = why
      /\ g.size \in Nat
  BY <1>1 DEF FetchType
<1> HIDE DEF g
<1>4. Len(g.file) = 0 /\ g.file = [k \in 1..0 |-> k]
  BY <1>3
<1>5. HonestSoFar(g)
  BY <1>3, <1>4 DEF HonestSoFar
<1> QED  BY <1>2, <1>5 DEF g

\* An attempt that fails leaves a file that the next one may go on with.
LEMMA RetriedSound ==
  ASSUME NEW f \in FetchType, HonestSoFar(f)
  PROVE  Retried(f) \in FetchType /\ HonestSoFar(Retried(f))
<1>1. CASE f.try < MaxTries
  <2> DEFINE g == [f EXCEPT !.pc = "request", !.try = @ + 1, !.next = 0]
  <2>1. g \in FetchType
    <3>1. f.try + 1 \in Nat /\ 0 \in Nat
      BY DEF FetchType
    <3> QED  BY <3>1 DEF FetchType
  <2>2. /\ g.source = f.source /\ g.file = f.file /\ g.size = f.size
        /\ g.pc = "request" /\ g.why = f.why
    BY DEF FetchType
  <2>3. Retried(f) = g
    BY <1>1 DEF Retried
  <2> HIDE DEF g
  <2>4. HonestSoFar(g)
    BY <2>2 DEF HonestSoFar
  <2> QED  BY <2>1, <2>3, <2>4
<1>2. CASE ~(f.try < MaxTries)
  BY <1>2, GaveUpSound DEF Retried
<1> QED  BY <1>1, <1>2

\* One more block at the end of the file.
LEMMA ReadsSound ==
  ASSUME FetchInv, Reads
  PROVE  FetchInv'
<1>1. fetch \in FetchType /\ HonestSoFar(fetch) /\ fetch.pc = "body"
  BY DEF FetchInv, Reads
<1> DEFINE genuine(b) == b # 0 /\ b <= fetch.size
           told(b) == [fetch EXCEPT !.source = IF genuine(b) THEN @ ELSE "lying"]
           more(b) == [told(b) EXCEPT !.file = Append(@, IF genuine(b) THEN b ELSE 0),
                                      !.next = IF genuine(b) THEN b + 1 ELSE @]
<1>2. PICK block \in {0, fetch.next} :
        fetch' = IF Len(fetch.file) < MaxBlocks THEN more(block) ELSE Retried(told(block))
  BY DEF Reads
<1>3. /\ fetch.next \in Nat /\ block \in Nat /\ fetch.size \in Nat
      /\ fetch.file \in Seq(Nat) /\ Len(fetch.file) \in Nat
  BY <1>1 DEF FetchType
<1> DEFINE t == told(block)
<1>4. /\ t \in FetchType
      /\ t.source = IF genuine(block) THEN fetch.source ELSE "lying"
      /\ t.file = fetch.file /\ t.size = fetch.size /\ t.pc = "body"
      /\ t.next = fetch.next /\ t.why = fetch.why
  BY <1>1 DEF FetchType
<1>5. HonestSoFar(t)
  <2> HIDE DEF t
  <2> QED  BY <1>1, <1>4 DEF HonestSoFar
<1>6. CASE Len(fetch.file) < MaxBlocks
  <2> DEFINE b    == IF genuine(block) THEN block ELSE 0
             n    == IF genuine(block) THEN block + 1 ELSE t.next
             g    == [t EXCEPT !.file = Append(@, b), !.next = n]
  <2>1. fetch' = g
    BY <1>2, <1>6
  <2>2. b \in Nat /\ n \in Nat /\ Append(t.file, b) \in Seq(Nat)
    BY <1>3, <1>4
  <2> HIDE DEF t
  <2>3. /\ g \in FetchType
        /\ g.source = t.source /\ g.file = Append(t.file, b) /\ g.next = n
        /\ g.size = t.size /\ g.pc = t.pc /\ g.why = t.why
    <3> HIDE DEF b, n
    <3> QED  BY <1>4, <2>2 DEF FetchType
  <2>4. ASSUME t.source = "honest"
        PROVE  /\ genuine(block) /\ block = Len(t.file) + 1 /\ fetch.source = "honest"
               /\ t.file = [k \in 1..Len(t.file) |-> k]
    BY <1>1, <1>2, <1>4, <2>4 DEF HonestSoFar
  <2>5. ASSUME t.source = "honest"
        PROVE  Append(t.file, b) = [k \in 1..Len(t.file) + 1 |-> k]
    <3>1. b = Len(t.file) + 1
      BY <2>4, <2>5
    <3>2. Len(t.file) \in Nat /\ t.file \in Seq(Nat)
      BY <1>3, <1>4
    <3> DEFINE new == [k \in 1..Len(t.file) + 1 |-> k]
    <3>3. \A k \in 1..Len(t.file) : t.file[k] = k
      BY <2>4, <2>5
    <3> HIDE DEF b
    <3>4. /\ Append(t.file, b) \in Seq(Nat) /\ Len(Append(t.file, b)) = Len(t.file) + 1
          /\ \A k \in 1..Len(t.file) + 1 : Append(t.file, b)[k] = k
      BY <2>2, <3>1, <3>2, <3>3
    <3>5. new \in Seq(Nat) /\ Len(new) = Len(t.file) + 1
      BY <3>2
    <3>6. \A k \in 1..Len(t.file) + 1 : new[k] = k
      OBVIOUS
    <3> HIDE DEF new
    <3>7. Append(t.file, b) = new
      BY <3>2, <3>4, <3>5, <3>6, SeqEqual
    <3> QED  BY <3>7 DEF new
  <2>6. Len(Append(t.file, b)) = Len(t.file) + 1
    BY <1>3, <1>4, <2>2
  <2>7. n = IF genuine(block) THEN block + 1 ELSE t.next
    OBVIOUS
  <2> HIDE DEF g, b, n
  <2>8. HonestSoFar(g)
    <3> SUFFICES ASSUME t.source = "honest" PROVE HonestSoFar(g)
      BY <2>3 DEF HonestSoFar
    <3>1. g.file = [k \in 1..Len(g.file) |-> k] /\ Len(g.file) = Len(t.file) + 1
      BY <2>3, <2>5, <2>6
    <3>2. Len(g.file) <= g.size
      BY <1>3, <1>4, <2>3, <2>4, <3>1
    <3>3. g.next = Len(g.file) + 1
      BY <1>3, <2>3, <2>4, <2>7, <3>1
    <3>4. g.pc = "body" /\ g.why # "length"
      BY <1>1, <1>4, <2>3, <2>4 DEF HonestSoFar
    <3> QED  BY <3>1, <3>2, <3>3, <3>4 DEF HonestSoFar
  <2> QED  BY <2>1, <2>3, <2>8 DEF FetchInv
<1>7. CASE ~(Len(fetch.file) < MaxBlocks)
  <2> HIDE DEF t
  <2>1. fetch' = Retried(t)
    BY <1>2, <1>7 DEF t
  <2> QED  BY <1>4, <1>5, <2>1, RetriedSound DEF FetchInv
<1> QED  BY <1>6, <1>7

\* Every step of a fetch keeps the file of an honest source right.
LEMMA FetchesSound ==
  ASSUME FetchInv, Fetches
  PROVE  FetchInv'
<1>1. /\ fetch \in FetchType /\ HonestSoFar(fetch)
      /\ fetch.size \in Nat /\ fetch.file \in Seq(Nat) /\ Len(fetch.file) \in Nat
  BY DEF FetchInv, FetchType
<1>2. CASE RequestFails  BY <1>1, <1>2, RetriedSound DEF RequestFails, FetchInv
<1>3. CASE StartsOver
  <2> DEFINE g == [fetch EXCEPT !.pc = "body", !.file = <<>>, !.next = 1]
  <2>1. fetch' = g
    BY <1>3 DEF StartsOver
  <2>2. g \in FetchType
    <3>1. <<>> \in Seq(Nat) /\ 1 \in Nat
      BY EmptySeq
    <3> QED  BY <1>1, <3>1 DEF FetchType
  <2>3. /\ g.file = <<>> /\ g.next = 1 /\ g.pc = "body" /\ g.size = fetch.size
        /\ g.source = fetch.source /\ g.why = fetch.why
    BY <1>1 DEF FetchType
  <2> HIDE DEF g
  <2>4. Len(g.file) = 0 /\ g.file = [k \in 1..0 |-> k]
    BY <2>3
  <2>5. HonestSoFar(g)
    BY <1>1, <2>3, <2>4 DEF HonestSoFar
  <2> QED  BY <2>1, <2>2, <2>5 DEF FetchInv
<1>4. CASE Resumes
  <2>1. PICK at \in 1..fetch.size :
          fetch' = [fetch EXCEPT !.pc = "body", !.next = at,
                      !.source = IF at = Len(fetch.file) + 1 THEN @ ELSE "lying"]
    BY <1>4 DEF Resumes
  <2> DEFINE src == IF at = Len(fetch.file) + 1 THEN fetch.source ELSE "lying"
  <2>2. at \in Nat /\ src \in {"honest", "lying"}
    BY <1>1 DEF FetchType
  <2> DEFINE g == [fetch EXCEPT !.pc = "body", !.next = at, !.source = src]
  <2>3. fetch' = g
    BY <2>1
  <2> HIDE DEF src
  <2>4. /\ g \in FetchType
        /\ g.file = fetch.file /\ g.next = at /\ g.pc = "body"
        /\ g.size = fetch.size /\ g.why = fetch.why /\ g.source = src
    BY <1>1, <2>2 DEF FetchType
  <2> HIDE DEF g
  <2>5. HonestSoFar(g)
    BY <1>1, <2>4 DEF HonestSoFar, src
  <2> QED  BY <2>3, <2>4, <2>5 DEF FetchInv
<1>5. CASE Reads  BY <1>5, ReadsSound
<1>6. CASE Breaks  BY <1>1, <1>6, RetriedSound DEF Breaks, FetchInv
<1>7. CASE Ends
  <2> DEFINE t == [fetch EXCEPT !.source = IF fetch.next > fetch.size THEN @ ELSE "lying"]
             g == [t EXCEPT !.pc = "done"]
  <2>1. fetch.pc = "body" /\ fetch' = IF Len(fetch.file) = fetch.size THEN g
                                      ELSE GaveUp(t, "length")
    BY <1>7 DEF Ends
  <2>2. /\ t \in FetchType
        /\ t.source = IF fetch.next > fetch.size THEN fetch.source ELSE "lying"
        /\ t.file = fetch.file /\ t.size = fetch.size /\ t.why = fetch.why
    BY <1>1 DEF FetchType
  <2> HIDE DEF t
  <2>3. CASE Len(fetch.file) = fetch.size
    <3>1. /\ g \in FetchType
          /\ g.source = t.source /\ g.file = t.file /\ g.size = t.size
          /\ g.pc = "done" /\ g.why = t.why
      BY <2>2 DEF FetchType
    <3>2. fetch' = g
      BY <2>1, <2>3
    <3> HIDE DEF g
    <3>3. HonestSoFar(g)
      BY <1>1, <2>2, <2>3, <3>1 DEF HonestSoFar
    <3> QED  BY <3>1, <3>2, <3>3 DEF FetchInv
  <2>4. CASE Len(fetch.file) # fetch.size
    <3>1. t.source = "lying"
      <4>1. fetch.next \in Nat
        BY <1>1 DEF FetchType
      <4> QED  BY <1>1, <2>1, <2>2, <2>4, <4>1 DEF HonestSoFar, FetchType
    <3> QED  BY <2>1, <2>2, <2>4, <3>1, GaveUpSound DEF FetchInv
  <2> QED  BY <2>3, <2>4
<1>8. CASE TimesOut  BY <1>1, <1>8, GaveUpSound DEF TimesOut, FetchInv
<1> QED  BY <1>2, <1>3, <1>4, <1>5, <1>6, <1>7, <1>8 DEF Fetches

----------------------------------------------------------------------------
\* The search.

Outcomes == {"ignored", "skip", "broken", "serves", "down", "limited"}

\* What a search has found out: the releases it looked at, in their order, all of
\* them read after the index, and none after one that serves or the request limit.
LookedAt ==
  /\ listing \in Listings \cup {<<>>}
  /\ pages \in Nat
  /\ outcomes \in Seq(Outcomes) /\ Len(outcomes) <= Reach
  /\ MorePages => outcomes = <<>>
  /\ \A i \in 1..Len(outcomes) :
       \E net \in Nets : outcomes[i] = Examined(listing[i], net)
  /\ \A i \in 1..Len(outcomes) : i < Len(outcomes) => outcomes[i] \notin {"serves", "limited"}

SearchInv == LookedAt /\ SearchAnswers

\* The outcome of a release is one of these; one that serves does so unless it could
\* not be read, and only one that serves is taken for it.
LEMMA ExaminedRight ==
  ASSUME NEW r, NEW net \in Nets
  PROVE  /\ Examined(r, net) \in Outcomes
         /\ Examined(r, net) = "serves" => Serves(r)
         /\ Serves(r) => Examined(r, net) \in {"serves", "down", "limited"}
<1>1. Judged(r) \in {"skip", "broken", "serves"}
  BY Zenon DEF Judged
<1>2. net \in {"ok", "down", "limited"}
  BY DEF Nets
<1>3. Read(r, net) \in Outcomes /\ (Read(r, net) = "serves" => Judged(r) = "serves")
  BY <1>1, <1>2 DEF Read, Outcomes
<1>4. Judged(r) = "serves" => Read(r, net) \in {"serves", "down", "limited"}
  BY <1>2 DEF Read
<1> QED  BY <1>3, <1>4 DEF Examined, Serves, Outcomes

\* A release that serves has a manifest, made for the channel, newer than what runs
\* and content with it as a base.
LEMMA ServesMatches ==
  ASSUME NEW r, Serves(r)
  PROVE  HasManifest(r) /\ MatchQuery(ManifestOf(r))
<1>1. Judged(r) = "serves"
  BY DEF Serves
<1>2. CASE ~HasManifest(r)  BY <1>1, <1>2 DEF Judged
<1>3. CASE HasManifest(r) /\ ~Valid(ManifestOf(r))  BY <1>1, <1>3 DEF Judged
<1>4. CASE HasManifest(r) /\ Valid(ManifestOf(r))  BY <1>1, <1>4 DEF Judged
<1> QED  BY <1>2, <1>3, <1>4

\* The pages read hold some first releases of the index.
LEMMA ReachBounds ==
  ASSUME listing \in Listings \cup {<<>>}, pages \in Nat
  PROVE  /\ Len(listing) \in Nat /\ DOMAIN listing = 1..Len(listing)
         /\ Reach \in Nat /\ Reach <= Len(listing)
<1>1. Len(listing) \in Nat /\ DOMAIN listing = 1..Len(listing)
  <2>1. CASE listing = <<>>  BY <2>1
  <2>2. CASE listing \in Listings  BY <2>2, ListingsAssumption
  <2> QED  BY <2>1, <2>2
<1>2. pages * PageSize \in Nat
  BY PagesAssumption
<1>3. Reach \in {pages * PageSize, Len(listing)}
  BY DEF Reach
<1>4. Reach <= Len(listing)
  <2> DEFINE read == pages * PageSize
             all  == Len(listing)
  <2>1. Reach = IF read < all THEN read ELSE all
    BY DEF Reach
  <2>2. read \in Nat /\ all \in Nat
    BY <1>1, <1>2
  <2> HIDE DEF read, all
  <2>3. (IF read < all THEN read ELSE all) <= all
    BY <2>2
  <2>4. Reach <= all
    BY <2>1, <2>3
  <2> QED  BY <2>4 DEF all
<1> QED  BY <1>1, <1>2, <1>3, <1>4

\* The answer of Check, from what the search found out.
LEMMA AnswerRight ==
  ASSUME LookedAt, Answer
  PROVE  SearchAnswers'
<1> DEFINE last == Len(outcomes)
<1>1. /\ outcomes \in Seq(Outcomes) /\ last \in Nat /\ DOMAIN outcomes = 1..last
      /\ \A i \in 1..last : outcomes[i] \in Outcomes
  BY LenProperties, ElementOfSeq DEF LookedAt
<1>2. Reach \in Nat /\ last <= Reach
  BY ReachBounds DEF LookedAt
<1>3. \A kinds : Count(kinds) = {i \in 1..last : outcomes[i] \in kinds}
  BY <1>1 DEF Count
<1>4. \A i \in 1..last : outcomes[i] = "serves" => i \in Sound \ Lost
  BY <1>2, <1>3, ExaminedRight DEF LookedAt, Sound, Lost
<1>5. \A i \in Sound \ Lost : i <= last => outcomes[i] = "serves"
  <2> SUFFICES ASSUME NEW i \in Sound \ Lost, i <= last PROVE outcomes[i] = "serves"
    OBVIOUS
  <2>1. i \in 1..last /\ Serves(listing[i]) /\ outcomes[i] \notin {"down", "limited"}
    BY <1>1, <1>2, <1>3 DEF Sound, Lost
  <2>2. PICK net \in Nets : outcomes[i] = Examined(listing[i], net)
    BY <2>1 DEF LookedAt
  <2> QED  BY <2>1, <2>2, ExaminedRight
<1>6. /\ Sound' = Sound /\ Lost' = Lost /\ MorePages' = MorePages /\ hardErrs' = hardErrs
      /\ Count({"limited"})' = Count({"limited"})
      /\ listing' = listing /\ query' = query /\ outcomes' = outcomes
  <2>1. UNCHANGED <<query, listing, pages, outcomes>>
    BY DEF Answer
  <2>2. Reach' = Reach
    BY <2>1 DEF Reach
  <2>3. Sound' = Sound
    BY <2>1, <2>2 DEF Sound, Serves, Ignored, Judged, MatchQuery
  <2> QED  BY <2>1, <2>2, <2>3 DEF Lost, MorePages, hardErrs, Count
<1>7. ~MorePages
  BY DEF Answer
<1>8. CASE Ended /\ outcomes[last] = "serves"
  <2>1. answer' = [kind |-> "release", at |-> last]
    BY <1>8 DEF Answer
  <2>2. last \in 1..last
    BY <1>1, <1>8 DEF Ended
  <2>3. last \in Sound \ Lost
    BY <1>4, <1>8, <2>2
  <2>4. \A i \in Sound \ Lost : last <= i
    <3> SUFFICES ASSUME NEW i \in Sound \ Lost, i < last PROVE FALSE
      BY <1>1, <1>2 DEF Sound
    <3>1. outcomes[i] = "serves" /\ i \in 1..last
      BY <1>1, <1>5 DEF Sound
    <3> QED  BY <3>1 DEF LookedAt
  <2>5. Serves(listing[last])
    BY <2>3 DEF Sound
  <2> DEFINE m == ManifestOf(listing[last])
  <2>6. /\ m.channel = query.channel
        /\ Compare(ParseVersion(m.version), ParseVersion(query.current)) > 0
        /\ \A k \in DOMAIN m.minimum :
             Compare(ParseVersion(query.current), ParseVersion(m.minimum[k])) >= 0
    BY <2>5, ServesMatches DEF MatchQuery, Acceptable, IsNewerThan
  <2>7. Found' = m
    BY <1>6, <2>1 DEF Found, ManifestOf, Candidate
  <2> HIDE DEF m
  <2>8. answer'.kind = "release" /\ answer'.at = last
    BY <2>1
  <2> QED  BY <1>6, <2>3, <2>4, <2>6, <2>7, <2>8 DEF SearchAnswers
<1>9. CASE Ended /\ outcomes[last] # "serves"
  <2>1. answer' = [kind |-> "failed", at |-> 0]
    BY <1>9 DEF Answer
  <2>2. last \in 1..last /\ outcomes[last] = "limited"
    BY <1>1, <1>9 DEF Ended
  <2>3. Count({"limited"}) # {}
    BY <1>3, <2>2
  <2> QED  BY <1>6, <2>1, <2>3 DEF SearchAnswers
<1>10. CASE ~Ended
  <2>1. last = Reach /\ answer' = [kind |-> IF Failed THEN "failed" ELSE "none", at |-> 0]
    BY <1>10 DEF Answer
  <2>2. Sound \subseteq Lost
    <3> SUFFICES ASSUME NEW i \in Sound \ Lost PROVE FALSE
      OBVIOUS
    <3>1. i \in 1..last /\ outcomes[i] = "serves"
      BY <1>5, <1>1, <2>1 DEF Sound
    <3>2. i = last
      <4>1. i < last => outcomes[i] \notin {"serves", "limited"}
        BY <3>1 DEF LookedAt
      <4> HIDE DEF last
      <4> QED  BY <1>1, <3>1, <4>1
    <3>3. outcomes # <<>>
      <4>1. last > 0
        BY <1>1, <3>1
      <4> QED  BY <4>1, EmptySeq
    <3> QED  BY <1>10, <3>1, <3>2, <3>3 DEF Ended
  <2>3. Failed => hardErrs # {}
    BY DEF Failed
  <2> QED  BY <1>6, <2>1, <2>2, <2>3 DEF SearchAnswers
<1> QED  BY <1>8, <1>9, <1>10

\* The same search, looked at again: nothing it found out changes with its answer.
LEMMA SameSearch ==
  ASSUME LookedAt, UNCHANGED <<query, listing, pages, outcomes>>
  PROVE  LookedAt'
<1>1. Reach' = Reach /\ (MorePages' <=> MorePages)
  BY DEF Reach, MorePages
<1>2. ASSUME NEW i \in 1..Len(outcomes), NEW net \in Nets
      PROVE  Examined(listing[i], net)' = Examined(listing[i], net)
  BY DEF Examined, Ignored, Read, Judged, MatchQuery
<1> QED  BY <1>1, <1>2 DEF LookedAt

\* One more page: nothing has been looked at yet.
LEMMA FetchPageSound ==
  ASSUME LookedAt, NEW net \in Nets, FetchPage(net)
  PROVE  LookedAt' /\ SearchAnswers'
<1>1. /\ MorePages /\ outcomes = <<>> /\ outcomes' = <<>> /\ listing' = listing
      /\ listing \in Listings \cup {<<>>} /\ pages \in Nat
  BY DEF FetchPage, LookedAt
<1>2. pages' \in Nat
  BY <1>1 DEF FetchPage
<1>3. Reach' \in Nat
  <2>1. Len(listing) \in Nat
    BY <1>1, ReachBounds
  <2>2. pages' * PageSize \in Nat
    <3>1. \A a, b \in Nat : a * b \in Nat
      OBVIOUS
    <3>2. PageSize \in Nat
      BY PagesAssumption
    <3> QED  BY <1>2, <3>1, <3>2
  <2> QED  BY <1>1, <2>1, <2>2 DEF Reach
<1>4. LookedAt'
  <2>1. Len(outcomes') = 0 /\ outcomes' \in Seq(Outcomes)
    BY <1>1, EmptySeq
  <2> QED  BY <1>1, <1>2, <1>3, <2>1 DEF LookedAt
<1>5. SearchAnswers'
  <2>1. CASE net = "ok"
    <3>1. answer' = NoAnswer
      BY <2>1 DEF FetchPage
    <3> QED  BY <3>1 DEF SearchAnswers, NoAnswer
  <2>2. CASE net # "ok"
    <3>1. answer' = [kind |-> "failed", at |-> 0] /\ pages' = pages
      BY <2>2 DEF FetchPage
    <3>2. MorePages'
      BY <1>1, <3>1 DEF MorePages, Reach
    <3> QED  BY <3>1, <3>2 DEF SearchAnswers
  <2> QED  BY <2>1, <2>2
<1> QED  BY <1>4, <1>5

\* One more release, after others that do not end the search.
LEMMA ExamineSound ==
  ASSUME LookedAt, NEW net \in Nets, Examine(net)
  PROVE  LookedAt' /\ SearchAnswers'
<1> DEFINE n   == Len(outcomes)
           new == Examined(listing[n + 1], net)
<1>1. /\ ~MorePages /\ ~Ended /\ n < Reach
      /\ outcomes' = Append(outcomes, new) /\ answer' = answer /\ answer = NoAnswer
      /\ UNCHANGED <<query, listing, pages>>
  BY DEF Examine
<1>2. /\ outcomes \in Seq(Outcomes) /\ n \in Nat /\ Reach \in Nat
      /\ new \in Outcomes
  BY ReachBounds, ExaminedRight, LenProperties DEF LookedAt
<1>3. Reach' = Reach /\ (MorePages' <=> MorePages)
  BY <1>1 DEF Reach, MorePages
<1>4. ASSUME NEW i \in 1..n + 1, NEW m \in Nets
      PROVE  Examined(listing[i], m)' = Examined(listing[i], m)
  BY <1>1 DEF Examined, Ignored, Read, Judged, MatchQuery
<1>5. /\ \A i \in 1..n : \E m \in Nets : outcomes[i] = Examined(listing[i], m)
      /\ \A i \in 1..n : i < n => outcomes[i] \notin {"serves", "limited"}
  BY DEF LookedAt
<1>6. n > 0 => outcomes[n] \notin {"serves", "limited"}
  <2>1. n > 0 => outcomes # <<>>
    BY EmptySeq
  <2> QED  BY <1>1, <2>1 DEF Ended
<1> HIDE DEF new
<1>7. /\ outcomes' \in Seq(Outcomes) /\ Len(outcomes') = n + 1
      /\ \A i \in 1..n : outcomes'[i] = outcomes[i]
      /\ outcomes'[n + 1] = new
  BY <1>1, <1>2
<1> HIDE DEF n
<1>8. Len(outcomes') <= Reach'
  BY <1>1, <1>2, <1>3, <1>7
<1>9. \A i \in 1..n + 1 : \E m \in Nets : outcomes'[i] = Examined(listing[i], m)'
  <2> SUFFICES ASSUME NEW i \in 1..n + 1
               PROVE  \E m \in Nets : outcomes'[i] = Examined(listing[i], m)'
    OBVIOUS
  <2>1. CASE i \in 1..n
    <3>1. PICK m \in Nets : outcomes[i] = Examined(listing[i], m)
      BY <1>5, <2>1
    <3> QED  BY <1>4, <1>7, <2>1, <3>1
  <2>2. CASE i = n + 1  BY <1>4, <1>7, <2>2 DEF new
  <2> QED  BY <1>2, <2>1, <2>2
<1>10. \A i \in 1..n + 1 : i < n + 1 => outcomes'[i] \notin {"serves", "limited"}
  <2> SUFFICES ASSUME NEW i \in 1..n PROVE outcomes'[i] \notin {"serves", "limited"}
    BY <1>2
  <2>1. i < n \/ i = n
    BY <1>2
  <2> QED  BY <1>2, <1>5, <1>6, <1>7, <2>1
<1>11. LookedAt'
  BY <1>1, <1>3, <1>7, <1>8, <1>9, <1>10 DEF LookedAt
<1>12. SearchAnswers'
  BY <1>1 DEF SearchAnswers, NoAnswer
<1> QED  BY <1>11, <1>12

\* Every step of Acquisition keeps what its search found out and answers.
LEMMA SearchStep ==
  ASSUME SearchInv, [Next]_vars
  PROVE  SearchInv'
<1>1. CASE UNCHANGED search
  <2>1. UNCHANGED <<query, listing, pages, outcomes, answer>>
    BY <1>1 DEF search
  <2>2. LookedAt'
    BY <2>1, SameSearch DEF SearchInv
  <2>3. SearchAnswers'
    BY <2>1 DEF SearchInv, SearchAnswers, Sound, Lost, Count, hardErrs, Serves, Ignored,
                Judged, MatchQuery, MorePages, Reach, Found
  <2> QED  BY <2>2, <2>3 DEF SearchInv
<1>2. ASSUME listing' \in Listings \cup {<<>>}, pages' = 0, outcomes' = <<>>, answer' = NoAnswer
      PROVE  SearchInv'
  <2>1. Len(listing') \in Nat
    <3>1. CASE listing' = <<>>  BY <3>1
    <3>2. CASE listing' \in Listings  BY <3>2, ListingsAssumption
    <3> QED  BY <1>2, <3>1, <3>2
  <2>2. pages' * PageSize = 0
    BY <1>2, PagesAssumption
  <2>3. Reach' \in Nat
    BY <2>1, <2>2 DEF Reach
  <2>4. Len(outcomes') = 0 /\ outcomes' \in Seq(Outcomes)
    BY <1>2, EmptySeq
  <2>5. LookedAt'
    BY <1>2, <2>3, <2>4 DEF LookedAt
  <2>6. SearchAnswers'
    BY <1>2 DEF SearchAnswers, NoAnswer
  <2> QED  BY <2>5, <2>6 DEF SearchInv
<1>3. CASE SearchOver  BY <1>2, <1>3 DEF SearchOver
<1>4. CASE Check
  <2>1. CASE Answer
    <3>1. LookedAt'
      BY <2>1, SameSearch DEF SearchInv, Answer
    <3> QED  BY <2>1, <3>1, AnswerRight DEF SearchInv
  <2>2. CASE \E net \in Nets : FetchPage(net)
    BY <2>2, FetchPageSound DEF SearchInv
  <2>3. CASE \E net \in Nets : Examine(net)
    BY <2>3, ExamineSound DEF SearchInv
  <2> QED  BY <1>4, <2>1, <2>2, <2>3 DEF Check, Searching
<1>5. CASE \E c \in Channels : StartCheck(c)
  BY <1>2, <1>5 DEF StartCheck, SearchStarts
<1>6. CASE NoUpdate \/ CheckFails \/ Offer \/ Cancel \/ Stops \/ Activated
  BY <1>3, <1>6 DEF NoUpdate, CheckFails, Offer, Cancel, Stops, Activated, Forgets
<1>7. CASE UNCHANGED vars  BY <1>1, <1>7 DEF vars
<1>8. CASE StartDownload \/ StartInstall \/ Fetch \/ DownloadFails \/ Downloaded \/ Verified
           \/ VerifyFails \/ FallBack \/ FellBack \/ InstallFails \/ UpdaterFails
  BY <1>1, <1>8 DEF StartDownload, StartInstall, Fetch, DownloadFails, Downloaded, Verified,
       VerifyFails, FallBack, FellBack, InstallFails, UpdaterFails
<1>9. CASE AssembledBefore \/ AssembleFull \/ AssembleDelta
  BY <1>1, <1>9 DEF AssembledBefore, AssembleFull, AssembleDelta, HandedOver
<1> QED
  BY <1>4, <1>5, <1>6, <1>7, <1>8, <1>9 DEF Next, User, Work

----------------------------------------------------------------------------
\* The offer, the staged file, and the trees.

\* What is offered is a manifest that tells the truth, and one of its artifacts.
Offered == Truthful(pending) /\ \E i \in DOMAIN pending.artifacts : artifact = pending.artifacts[i]
OfferInv ==
  pending # None \/ status \in {"downloading", "verifying", "staging", "restarting"} => Offered

\* What is staged is the selected artifact of the offer, and genuine.
StagedRight ==
  staged = [version |-> pending.version, artifact |-> artifact, bytes |-> "genuine"]
StagedInv == staged # None \/ status = "staging" => StagedRight

\* The live install has the contents of the version its link names.
BaseInv ==
  base # None =>
    base.name \in DOMAIN Released /\ Contents(base.tree) = Contents(Released[base.name])

\* The inductive invariant: no tree is right unless the base, the staged file and
\* the offer it was made from are.
Inv == SearchInv /\ FetchInv /\ OfferInv /\ StagedInv /\ BaseInv /\ AssembledIsReleased

\* The manifest a search answers with tells the truth.
LEMMA FoundTruthful ==
  ASSUME SearchInv, answer.kind = "release"
  PROVE  Truthful(Found)
<1>1. answer.at \in 1..Reach /\ Serves(listing[answer.at])
  BY DEF SearchInv, SearchAnswers, Sound
<1>2. answer.at \in DOMAIN listing /\ listing \in Listings
  <2>1. /\ Len(listing) \in Nat /\ DOMAIN listing = 1..Len(listing)
        /\ Reach \in Nat /\ Reach <= Len(listing)
    BY ReachBounds DEF SearchInv, LookedAt
  <2>2. answer.at \in DOMAIN listing
    BY <1>1, <2>1
  <2>3. listing # <<>>
    BY <2>2
  <2> QED  BY <2>2, <2>3 DEF SearchInv, LookedAt
<1>3. HasManifest(listing[answer.at])
  BY <1>1, ServesMatches
<1> QED  BY <1>2, <1>3, ListingsAssumption DEF Found, ManifestOf

\* Sizes and bases come from the manifest.
LEMMA OfferedArtifact ==
  ASSUME Offered
  PROVE  /\ artifact.size \in Nat
         /\ artifact.type = "delta" => artifact.from \in DOMAIN Released
         /\ pending.version \in DOMAIN Released
         /\ \A i \in DOMAIN pending.artifacts : pending.artifacts[i].size \in Nat
  BY DEF Offered, Truthful

\* Every step keeps the offer true and the staged file the offer's.
LEMMA OfferStep ==
  ASSUME Inv, Next
  PROVE  OfferInv' /\ StagedInv'
<1>1. OfferInv /\ StagedInv
  BY DEF Inv
<1>2. ASSUME UNCHANGED <<pending, artifact>>, OfferInv,
             status' \in {"downloading", "verifying", "staging", "restarting"} =>
               pending # None \/ status \in {"downloading", "verifying", "staging", "restarting"}
      PROVE  OfferInv'
  BY <1>2 DEF OfferInv, Offered, Truthful
<1>3. ASSUME UNCHANGED <<pending, artifact, staged>>, StagedInv,
             status' = "staging" => staged # None \/ status = "staging"
      PROVE  StagedInv'
  BY <1>3 DEF StagedInv, StagedRight
<1>4. CASE \E c \in Channels : StartCheck(c)  BY <1>1, <1>2, <1>3, <1>4 DEF StartCheck
<1>5. CASE Check  BY <1>1, <1>2, <1>3, <1>5 DEF Check, manager
<1>6. CASE NoUpdate  BY <1>1, <1>2, <1>3, <1>6 DEF NoUpdate
<1>7. CASE CheckFails  BY <1>1, <1>2, <1>3, <1>7 DEF CheckFails
<1>8. CASE Offer
  <2>1. PICK i \in DOMAIN Found.artifacts : artifact' = Found.artifacts[i]
    BY <1>8 DEF Offer
  <2>2. Truthful(Found)
    BY <1>8, FoundTruthful DEF Offer, Inv
  <2>3. pending' = Found /\ staged' = None /\ status' = "update-available"
    BY <1>8 DEF Offer
  <2>4. Truthful(pending') /\ i \in DOMAIN pending'.artifacts /\ artifact' = pending'.artifacts[i]
    BY <2>1, <2>2, <2>3
  <2>5. OfferInv'
    BY <2>4 DEF OfferInv, Offered, Truthful
  <2>6. StagedInv'
    BY <2>3 DEF StagedInv
  <2> QED  BY <2>5, <2>6
<1>9. CASE StartDownload  BY <1>1, <1>2, <1>3, <1>9 DEF StartDownload
<1>10. CASE Fetch  BY <1>1, <1>2, <1>3, <1>10 DEF Fetch, manager
<1>11. CASE DownloadFails  BY <1>1, <1>2, <1>3, <1>11 DEF DownloadFails
<1>12. CASE Downloaded  BY <1>1, <1>2, <1>3, <1>12 DEF Downloaded
<1>13. CASE Verified
  <2>1. OfferInv'
    BY <1>1, <1>2, <1>13 DEF Verified
  <2>2. StagedInv'
    BY <1>13 DEF Verified, Staged, StagedInv, StagedRight
  <2> QED  BY <2>1, <2>2
<1>14. CASE VerifyFails  BY <1>1, <1>2, <1>3, <1>14 DEF VerifyFails
<1>15. CASE StartInstall  BY <1>1, <1>2, <1>3, <1>15 DEF StartInstall
<1>16. CASE AssembledBefore \/ AssembleFull \/ AssembleDelta
  <2>1. /\ status = "staging" /\ status' = "restarting"
        /\ UNCHANGED <<pending, artifact, staged>>
    BY <1>16 DEF AssembledBefore, AssembleFull, AssembleDelta, HandedOver, Idle
  <2> QED  BY <1>1, <1>2, <1>3, <2>1
<1>17. CASE FallBack  BY <1>1, <1>2, <1>3, <1>17 DEF FallBack, manager
<1>18. CASE FellBack
  <2>1. PICK i \in DOMAIN pending.artifacts :
          artifact' = pending.artifacts[i] /\ staged' = Staged(pending.artifacts[i])
    BY <1>18 DEF FellBack
  <2>2. status = "staging" /\ pending' = pending /\ Genuine(fetch)
    BY <1>18 DEF FellBack
  <2>3. Truthful(pending)
    BY <1>1, <2>2 DEF OfferInv, Offered
  <2>4. OfferInv'
    BY <2>1, <2>2, <2>3 DEF OfferInv, Offered, Truthful
  <2>5. StagedInv'
    BY <2>1, <2>2 DEF Staged, StagedInv, StagedRight
  <2> QED  BY <2>4, <2>5
<1>19. CASE InstallFails  BY <1>1, <1>2, <1>3, <1>19 DEF InstallFails
<1>20. CASE UpdaterFails  BY <1>1, <1>2, <1>3, <1>20 DEF UpdaterFails
<1>21. CASE Cancel
  <2>1. UNCHANGED <<pending, artifact>> /\ status' = "cancelled" /\ staged' \in {staged, None}
    BY <1>21 DEF Cancel
  <2>2. StagedInv'
    BY <1>1, <2>1 DEF StagedInv, StagedRight
  <2> QED  BY <1>1, <1>2, <2>1, <2>2
<1>22. CASE Stops \/ Activated
  <2>1. pending' = None /\ staged' = None /\ status' = "idle"
    BY <1>22 DEF Stops, Activated, Forgets
  <2> QED  BY <2>1 DEF OfferInv, StagedInv
<1> QED
  BY <1>4, <1>5, <1>6, <1>7, <1>8, <1>9, <1>10, <1>11, <1>12, <1>13, <1>14, <1>15, <1>16,
     <1>17, <1>18, <1>19, <1>20, <1>21, <1>22 DEF Next, User, Work

\* Every step keeps the file of an honest source right.
LEMMA FetchStep ==
  ASSUME Inv, Next
  PROVE  FetchInv'
<1>1. FetchInv /\ OfferInv
  BY DEF Inv
<1>2. Off \in FetchType /\ HonestSoFar(Off)
  <2>1. <<>> \in Seq(Nat)
    BY EmptySeq
  <2>2. Off \in FetchType
    BY <2>1 DEF Off, FetchType
  <2>3. /\ Off.file = <<>> /\ Off.size = 0 /\ Off.pc = "off" /\ Off.why = "none"
        /\ Len(Off.file) = 0 /\ Off.file = [k \in 1..0 |-> k]
    BY DEF Off
  <2>4. HonestSoFar(Off)
    BY <2>3 DEF HonestSoFar
  <2> QED  BY <2>2, <2>4
<1>3. ASSUME NEW size \in Nat
      PROVE  FetchStarts(size) \in FetchType /\ HonestSoFar(FetchStarts(size))
  <2> DEFINE f == [Off EXCEPT !.pc = "request", !.try = 1, !.size = size]
  <2>1. f \in FetchType
    BY <1>2 DEF FetchType
  <2>2. /\ f.file = Off.file /\ f.size = size /\ f.pc = "request" /\ f.why = Off.why
    BY <1>2 DEF FetchType
  <2> HIDE DEF f
  <2>3. f.file = <<>> /\ f.why = "none" /\ Len(f.file) = 0 /\ f.file = [k \in 1..0 |-> k]
    BY <2>2 DEF Off
  <2>4. HonestSoFar(f)
    BY <2>2, <2>3 DEF HonestSoFar
  <2> QED  BY <2>1, <2>4 DEF f, FetchStarts
<1>4. CASE fetch' = fetch  BY <1>1, <1>4 DEF FetchInv, HonestSoFar
<1>5. CASE fetch' = Off  BY <1>2, <1>5 DEF FetchInv
<1>6. CASE Fetch  BY <1>1, <1>6, FetchesSound DEF Fetch
<1>7. CASE StartDownload
  <2>1. artifact.size \in Nat
    BY <1>1, <1>7, OfferedArtifact DEF StartDownload, OfferInv
  <2> QED  BY <1>3, <1>7, <2>1 DEF StartDownload, FetchInv
<1>8. CASE FallBack
  <2>1. PICK i \in DOMAIN pending.artifacts : fetch' = FetchStarts(pending.artifacts[i].size)
    BY <1>8 DEF FallBack
  <2>2. pending.artifacts[i].size \in Nat
    BY <1>1, <1>8, OfferedArtifact DEF FallBack, Idle, OfferInv
  <2> QED  BY <1>3, <2>1, <2>2 DEF FetchInv
<1>9. CASE (\E c \in Channels : StartCheck(c)) \/ Check \/ NoUpdate \/ CheckFails \/ Offer
  BY <1>4, <1>9 DEF StartCheck, Check, NoUpdate, CheckFails, Offer
<1>10. CASE DownloadFails \/ Verified \/ VerifyFails \/ FellBack \/ InstallFails
  BY <1>5, <1>10 DEF DownloadFails, Verified, VerifyFails, FellBack, InstallFails
<1>11. CASE Downloaded \/ StartInstall \/ UpdaterFails
  BY <1>4, <1>11 DEF Downloaded, StartInstall, UpdaterFails
<1>12. CASE AssembledBefore \/ AssembleFull \/ AssembleDelta
  BY <1>4, <1>12 DEF AssembledBefore, AssembleFull, AssembleDelta, HandedOver
<1>13. CASE Cancel \/ Stops \/ Activated
  BY <1>5, <1>13 DEF Cancel, Stops, Activated, Forgets
<1> QED
  BY <1>6, <1>7, <1>8, <1>9, <1>10, <1>11, <1>12, <1>13 DEF Next, User, Work

\* Every step keeps the live install and the assembled trees as released.
LEMMA TreesStep ==
  ASSUME Inv, Next
  PROVE  BaseInv' /\ AssembledIsReleased'
<1>1. OfferInv /\ StagedInv /\ BaseInv /\ AssembledIsReleased
  BY DEF Inv
<1>2. ASSUME UNCHANGED <<base, trees>>  PROVE BaseInv' /\ AssembledIsReleased'
  BY <1>1, <1>2 DEF BaseInv, AssembledIsReleased
<1>3. ASSUME NEW tree, HandedOver(tree), Idle, Contents(tree) = Contents(Released[Target])
      PROVE  BaseInv' /\ AssembledIsReleased'
  <2>1. Target \in DOMAIN Released
    BY <1>1, <1>3, OfferedArtifact DEF Idle, OfferInv, Target
  <2>2. base' = base /\ trees' = WithTree(tree)
    BY <1>3 DEF HandedOver
  <2>3. /\ DOMAIN trees' = DOMAIN trees \cup {Target}
        /\ \A v \in DOMAIN trees' : trees'[v] = IF v = Target THEN tree ELSE trees[v]
    BY <2>2 DEF WithTree
  <2>4. AssembledIsReleased'
    BY <1>1, <1>3, <2>1, <2>3 DEF AssembledIsReleased
  <2> QED  BY <1>1, <2>2, <2>4 DEF BaseInv
<1>4. CASE AssembledBefore
  <2>1. HandedOver(trees[Target]) /\ Idle /\ Target \in DOMAIN trees
    BY <1>4 DEF AssembledBefore, Present
  <2> QED  BY <1>1, <1>3, <2>1 DEF AssembledIsReleased
<1>5. CASE AssembleFull
  <2>1. Idle /\ artifact.type = "full" /\ HandedOver(unzipAll(FullArchive))
    BY <1>5 DEF AssembleFull
  <2>2. /\ staged.bytes = "genuine" /\ staged.artifact = artifact
        /\ staged.version = Target /\ Target \in DOMAIN Released
    BY <1>1, <2>1, OfferedArtifact DEF Idle, StagedInv, StagedRight, OfferInv, Target
  <2>3. FullArchive = Archive(Released[Target], Folder)
    BY <2>1, <2>2 DEF FullArchive, Holds
  <2>4. Contents(unzipAll(FullArchive)) = Contents(Released[Target])
    BY <2>2, <2>3, FullRoundTrip, ReleasedAssumption
  <2> QED  BY <1>3, <2>1, <2>4
<1>6. CASE AssembleDelta
  <2>1. /\ Idle /\ artifact.type = "delta" /\ base # None /\ base.name = artifact.from
        /\ HandedOver(Apply(base.tree, Delta))
    BY <1>6 DEF AssembleDelta, BaseFits
  <2>2. /\ staged.bytes = "genuine" /\ staged.artifact = artifact
        /\ staged.version = Target /\ Target \in DOMAIN Released
    BY <1>1, <2>1, OfferedArtifact DEF Idle, StagedInv, StagedRight, OfferInv, Target
  <2>3. Delta = genDelta(Released[artifact.from], Released[Target])
    BY <2>1, <2>2 DEF Delta, Holds
  <2>4. Contents(base.tree) = Contents(Released[artifact.from])
    BY <1>1, <2>1 DEF BaseInv
  <2>5. Contents(Apply(base.tree, Delta)) = Contents(Released[Target])
    BY <2>3, <2>4, DeltaRoundTrip
  <2> QED  BY <1>3, <2>1, <2>5
<1>7. CASE Cancel
  <2>1. base' = base /\ (trees' = trees \/ trees' = Without(Target))
    BY <1>7 DEF Cancel
  <2>2. /\ DOMAIN trees' \subseteq DOMAIN trees
        /\ \A v \in DOMAIN trees' : trees'[v] = trees[v]
    BY <2>1 DEF Without
  <2> QED  BY <1>1, <2>1, <2>2 DEF BaseInv, AssembledIsReleased
<1>8. CASE Activated
  <2>1. trees' = trees /\ \E v \in DOMAIN trees : base' = [name |-> v, tree |-> trees[v]]
    BY <1>8 DEF Activated, CopyTree
  <2> QED  BY <1>1, <2>1 DEF BaseInv, AssembledIsReleased
<1>9. CASE (\E c \in Channels : StartCheck(c)) \/ Check \/ NoUpdate \/ CheckFails \/ Offer
  BY <1>2, <1>9 DEF StartCheck, Check, NoUpdate, CheckFails, Offer, disk
<1>10. CASE StartDownload \/ Fetch \/ DownloadFails \/ Downloaded \/ Verified \/ VerifyFails
  BY <1>2, <1>10 DEF StartDownload, Fetch, DownloadFails, Downloaded, Verified, VerifyFails, disk
<1>11. CASE StartInstall \/ FallBack \/ FellBack \/ InstallFails \/ UpdaterFails \/ Stops
  BY <1>2, <1>11 DEF StartInstall, FallBack, FellBack, InstallFails, UpdaterFails, Stops, disk
<1> QED
  BY <1>4, <1>5, <1>6, <1>7, <1>8, <1>9, <1>10, <1>11 DEF Next, User, Work

\* The invariant holds all along.
THEOREM SpecInv == Spec => []Inv
<1>1. Init => Inv
  <2> SUFFICES ASSUME Init PROVE Inv
    OBVIOUS
  <2>1. SearchInv
    <3>1. listing = <<>> /\ pages = 0 /\ outcomes = <<>> /\ answer = NoAnswer
      BY DEF Init, SearchIdle
    <3>2. Reach \in Nat
      BY <3>1, ReachBounds
    <3>3. Len(outcomes) = 0 /\ outcomes \in Seq(Outcomes)
      BY <3>1, EmptySeq
    <3>4. LookedAt
      BY <3>1, <3>2, <3>3 DEF LookedAt
    <3> QED  BY <3>1, <3>4 DEF SearchInv, SearchAnswers, NoAnswer
  <2>2. FetchInv
    <3>1. fetch = Off /\ <<>> \in Seq(Nat)
      BY EmptySeq DEF Init
    <3>2. fetch \in FetchType
      BY <3>1 DEF Off, FetchType
    <3>3. /\ fetch.file = <<>> /\ fetch.size = 0 /\ fetch.pc = "off" /\ fetch.why = "none"
          /\ Len(fetch.file) = 0 /\ fetch.file = [k \in 1..0 |-> k]
      BY <3>1 DEF Off
    <3>4. HonestSoFar(fetch)
      BY <3>3 DEF HonestSoFar
    <3> QED  BY <3>2, <3>4 DEF FetchInv
  <2>3. OfferInv /\ StagedInv
    BY DEF Init, OfferInv, StagedInv
  <2>4. BaseInv
    BY BasesAssumption DEF Init, BaseInv
  <2>5. AssembledIsReleased
    BY DEF Init, AssembledIsReleased
  <2> QED  BY <2>1, <2>2, <2>3, <2>4, <2>5 DEF Inv
<1>2. Inv /\ [Next]_vars => Inv'
  <2> SUFFICES ASSUME Inv, [Next]_vars PROVE Inv'
    OBVIOUS
  <2>1. SearchInv'
    BY SearchStep DEF Inv
  <2>2. CASE Next  BY <2>1, <2>2, OfferStep, FetchStep, TreesStep DEF Inv
  <2>3. CASE UNCHANGED vars
    <3>1. /\ UNCHANGED <<fetch, status, pending, artifact, staged, base, trees>>
          /\ FetchInv /\ OfferInv /\ StagedInv /\ BaseInv /\ AssembledIsReleased
      BY <2>3 DEF vars, manager, disk, Inv
    <3>2. FetchInv' /\ OfferInv' /\ StagedInv'
      BY <3>1 DEF FetchInv, HonestSoFar, OfferInv, Offered, Truthful, StagedInv, StagedRight
    <3>3. BaseInv' /\ AssembledIsReleased'
      BY <3>1 DEF BaseInv, AssembledIsReleased
    <3> QED  BY <2>1, <3>2, <3>3 DEF Inv
  <2> QED  BY <2>2, <2>3
<1> QED  BY <1>1, <1>2, PTL DEF Spec

\* Whatever is assembled under a version has the contents of that version's release,
\* from a full artifact or a delta, over whatever base, after any chain of updates,
\* cancelled installs and restarts.
THEOREM SpecAssembledIsReleased == Spec => []AssembledIsReleased
<1>1. Inv => AssembledIsReleased
  BY DEF Inv
<1> QED  BY <1>1, SpecInv, PTL

\* A source that serves the right blocks yields the right file or none, and none of a
\* wrong length, for any size, any number of tries and wherever connections break.
THEOREM SpecHonestSourceServes == Spec => []HonestSourceServes
<1>1. Inv => HonestSourceServes
  BY DEF Inv, FetchInv, HonestSoFar, HonestSourceServes, Genuine
<1> QED  BY <1>1, SpecInv, PTL

\* A check answers right: with the newest of the releases that serve and could be
\* read, with "no update" only when there is none, and with an error for less only
\* at the request limit or without the index, whatever the index holds.
THEOREM SpecSearchAnswers == Spec => []SearchAnswers
<1>1. Inv => SearchAnswers
  BY DEF Inv, SearchInv
<1> QED  BY <1>1, SpecInv, PTL

----------------------------------------------------------------------------
\* Versions are ordered totally, as pairs of a core and a tag are.

\* Texts whose components are numbers.
Texts == [parts : Seq(Nat), pre : Nat]

\* A missing component counts as 0: every text stands for a version.
LEMMA ParsedVersion ==
  ASSUME NEW t \in Texts
  PROVE  ParseVersion(t) \in Version
<1>1. t.parts \in Seq(Nat) /\ t.pre \in Nat
  BY DEF Texts
<1>2. \A i \in 1..3 : (IF i <= Len(t.parts) THEN t.parts[i] ELSE 0) \in Nat
  BY <1>1
<1> QED  BY <1>1, <1>2 DEF ParseVersion, Version

\* Compare says which of two versions is the higher one, the same both ways round,
\* and equal only of equal ones.
THEOREM CompareIsTotal ==
  ASSUME NEW u \in Version, NEW v \in Version
  PROVE  /\ Compare(u, v) \in {-1, 0, 1} /\ Compare(v, u) = 0 - Compare(u, v)
         /\ Compare(u, v) = 0 <=> u = v
<1>1. /\ u.core \in [1..3 -> Nat] /\ v.core \in [1..3 -> Nat]
      /\ u.pre \in Nat /\ v.pre \in Nat
  BY DEF Version
<1>2. /\ u.core[1] \in Nat /\ u.core[2] \in Nat /\ u.core[3] \in Nat
      /\ v.core[1] \in Nat /\ v.core[2] \in Nat /\ v.core[3] \in Nat
  BY <1>1
<1>3. Compare(u, v) \in {-1, 0, 1} /\ Compare(v, u) = 0 - Compare(u, v)
  BY <1>1, <1>2 DEF Compare, ComparePre, cmpInt
<1>4. Compare(u, v) = 0 => /\ u.core[1] = v.core[1] /\ u.core[2] = v.core[2]
                           /\ u.core[3] = v.core[3] /\ u.pre = v.pre
  BY <1>1, <1>2 DEF Compare, ComparePre, cmpInt
<1>5. ASSUME Compare(u, v) = 0  PROVE u = v
  <2>1. \A i \in 1..3 : u.core[i] = v.core[i]
    BY <1>4, <1>5
  <2>2. u.core = v.core
    BY <1>1, <2>1
  <2> QED  BY <1>4, <1>5, <2>2 DEF Version
<1>6. u = v => Compare(u, v) = 0
  BY DEF Compare, ComparePre
<1> QED  BY <1>3, <1>5, <1>6

\* What is as high as a version that is as high as a third is as high as that one, and
\* higher if either step was.
THEOREM CompareIsTransitive ==
  ASSUME NEW u \in Version, NEW v \in Version, NEW w \in Version,
         Compare(u, v) >= 0, Compare(v, w) >= 0
  PROVE  /\ Compare(u, w) >= 0
         /\ Compare(u, v) > 0 \/ Compare(v, w) > 0 => Compare(u, w) > 0
<1>1. /\ u.core[1] \in Nat /\ u.core[2] \in Nat /\ u.core[3] \in Nat /\ u.pre \in Nat
      /\ v.core[1] \in Nat /\ v.core[2] \in Nat /\ v.core[3] \in Nat /\ v.pre \in Nat
      /\ w.core[1] \in Nat /\ w.core[2] \in Nat /\ w.core[3] \in Nat /\ w.pre \in Nat
  BY DEF Version
<1> QED  BY <1>1 DEF Compare, ComparePre, cmpInt

\* Updates lead upward only: no chain of versions each newer than the one before
\* leads back, and two texts of one version are never newer than each other.
THEOREM NewerIsStrict ==
  ASSUME NEW a \in Texts, NEW b \in Texts, NEW c \in Texts
  PROVE  /\ IsNewerThan(a, b) /\ IsNewerThan(b, c) => IsNewerThan(a, c)
         /\ ~(IsNewerThan(a, b) /\ IsNewerThan(b, a))
         /\ ParseVersion(a) = ParseVersion(b) => ~IsNewerThan(a, b)
<1> DEFINE u == ParseVersion(a)
           v == ParseVersion(b)
           w == ParseVersion(c)
<1>1. u \in Version /\ v \in Version /\ w \in Version
  BY ParsedVersion
<1>2. /\ Compare(u, v) \in {-1, 0, 1} /\ Compare(v, u) = 0 - Compare(u, v)
      /\ Compare(v, w) \in {-1, 0, 1} /\ Compare(w, v) = 0 - Compare(v, w)
      /\ Compare(u, v) = 0 <=> u = v
  BY <1>1, CompareIsTotal
<1>3. Compare(w, v) > 0 /\ Compare(v, u) > 0 => Compare(w, u) > 0
  BY <1>1, <1>2, CompareIsTransitive
<1> HIDE DEF u, v, w
<1>4. /\ IsNewerThan(a, b) <=> Parses(a) /\ Parses(b) /\ Compare(v, u) > 0
      /\ IsNewerThan(b, a) <=> Parses(a) /\ Parses(b) /\ Compare(u, v) > 0
      /\ IsNewerThan(b, c) <=> Parses(b) /\ Parses(c) /\ Compare(w, v) > 0
      /\ IsNewerThan(a, c) <=> Parses(a) /\ Parses(c) /\ Compare(w, u) > 0
  BY DEF IsNewerThan, u, v, w
<1>5. ParseVersion(a) = ParseVersion(b) <=> u = v
  BY DEF u, v
<1> QED  BY <1>2, <1>3, <1>4, <1>5

\* A target that is acceptable stays so while versions only go up, until it is reached.
THEOREM AcceptableOnTheWay ==
  ASSUME NEW a \in Texts, NEW b \in Texts, NEW c \in Texts, NEW minimum \in Seq(Texts),
         Acceptable(a, c, minimum), IsNewerThan(a, b), IsNewerThan(b, c)
  PROVE  Acceptable(b, c, minimum)
<1>1. ASSUME NEW i \in DOMAIN minimum
      PROVE  Parses(minimum[i]) /\ Compare(ParseVersion(b), ParseVersion(minimum[i])) >= 0
  <2>1. minimum[i] \in Texts
    BY <1>1
  <2>2. /\ ParseVersion(a) \in Version /\ ParseVersion(b) \in Version
        /\ ParseVersion(minimum[i]) \in Version
    BY <2>1, ParsedVersion
  <2>3. /\ Parses(minimum[i]) /\ Compare(ParseVersion(a), ParseVersion(minimum[i])) >= 0
        /\ Compare(ParseVersion(b), ParseVersion(a)) > 0
    BY <1>1 DEF Acceptable, IsNewerThan
  <2>4. Compare(ParseVersion(b), ParseVersion(a)) >= 0
    BY <2>2, <2>3, CompareIsTotal
  <2> QED  BY <2>2, <2>3, <2>4, CompareIsTransitive
<1> QED  BY <1>1 DEF Acceptable

----------------------------------------------------------------------------
\* Whatever is under way runs down.

\* What an operation has ahead of it: the file it may have to fetch, or fetch again
\* as a full artifact; the attempts, the steps and the blocks of that fetch; the pages
\* and the releases of the search, and its answer.
Stage ==
  CASE status = "downloading" -> 2
    [] status = "staging" /\ fetch # Off -> 2
    [] status = "staging" /\ fetch = Off /\ artifact.type = "delta" -> 3
    [] OTHER -> 1
Phase == CASE fetch.pc = "request" -> 2 [] fetch.pc = "body" -> 1 [] OTHER -> 0
Waits == IF answer = NoAnswer THEN 1 ELSE 0

Rank == <<Stage, MaxTries - fetch.try, Phase, MaxBlocks - Len(fetch.file),
          MaxPages - pages, Len(listing) - Len(outcomes), Waits>>
Ranks == Nat \X Nat \X Nat \X Nat \X Nat \X Nat \X Nat

\* The order of dictionaries, in which no sequence of ranks goes down for ever.
Lower(r, s) == \E k \in 1..7 : r[k] < s[k] /\ \A j \in 1..k-1 : r[j] = s[j]

\* What makes the differences in Rank numbers.
Bounded == fetch.try <= MaxTries /\ Len(fetch.file) <= MaxBlocks /\ pages <= MaxPages

RunsDown ==
  Work => /\ status \in Busy /\ Rank \in Ranks /\ Rank' \in Ranks
          /\ status' \in Busy => Lower(Rank', Rank)

\* No step takes more attempts, blocks or pages than there may be.
LEMMA BoundedStep ==
  ASSUME Inv, Bounded, [Next]_vars
  PROVE  Bounded'
<1>1. /\ MaxTries \in Nat \ {0} /\ MaxBlocks \in Nat /\ MaxPages \in Nat \ {0}
      /\ fetch \in FetchType /\ pages \in Nat /\ Len(<<>>) = 0
  BY TriesAssumption, BlocksAssumption, PagesAssumption, EmptySeq
     DEF Inv, FetchInv, SearchInv, LookedAt
<1>2. Len(fetch.file) \in Nat
  BY <1>1, LenProperties DEF FetchType
<1>3. ASSUME UNCHANGED fetch  PROVE fetch'.try <= MaxTries /\ Len(fetch'.file) <= MaxBlocks
  BY <1>3 DEF Bounded
<1>4. ASSUME fetch' = Off  PROVE fetch'.try <= MaxTries /\ Len(fetch'.file) <= MaxBlocks
  BY <1>1, <1>4 DEF Off
<1>5. ASSUME NEW n, fetch' = FetchStarts(n)
      PROVE  fetch'.try <= MaxTries /\ Len(fetch'.file) <= MaxBlocks
  BY <1>1, <1>5 DEF FetchStarts, Off
<1>6. ASSUME NEW f \in FetchType, f.try <= MaxTries, Len(f.file) <= MaxBlocks
      PROVE  /\ Retried(f).try <= MaxTries /\ Len(Retried(f).file) <= MaxBlocks
             /\ \A why : GaveUp(f, why).try <= MaxTries /\ Len(GaveUp(f, why).file) <= MaxBlocks
  <2>1. \A why : GaveUp(f, why).try = f.try /\ GaveUp(f, why).file = <<>>
    BY <1>6 DEF GaveUp, FetchType
  <2>2. f.try < MaxTries => Retried(f).try = f.try + 1 /\ Retried(f).file = f.file
    BY <1>6 DEF Retried, FetchType
  <2>3. ~(f.try < MaxTries) => Retried(f) = GaveUp(f, "tries")
    BY DEF Retried
  <2>4. f.try \in Nat
    BY DEF FetchType
  <2> QED  BY <1>1, <1>6, <2>1, <2>2, <2>3, <2>4
<1>7. ASSUME Fetches  PROVE fetch'.try <= MaxTries /\ Len(fetch'.file) <= MaxBlocks
  <2> USE DEF Bounded
  <2>1. CASE RequestFails \/ Breaks  BY <1>1, <1>6, <2>1 DEF RequestFails, Breaks
  <2>2. CASE StartsOver  BY <1>1, <2>2 DEF StartsOver, FetchType
  <2>3. CASE Resumes  BY <1>1, <2>3 DEF Resumes, FetchType
  <2>4. CASE TimesOut  BY <1>1, <1>6, <2>4 DEF TimesOut
  <2>5. CASE Reads
    <3>1. PICK block \in {0, fetch.next} :
            LET genuine == block # 0 /\ block <= fetch.size
                told == [fetch EXCEPT !.source = IF genuine THEN @ ELSE "lying"]
            IN fetch' = IF Len(fetch.file) < MaxBlocks
                        THEN [told EXCEPT !.file = Append(@, IF genuine THEN block ELSE 0),
                                          !.next = IF genuine THEN block + 1 ELSE @]
                        ELSE Retried(told)
      BY <2>5 DEF Reads
    <3> DEFINE genuine == block # 0 /\ block <= fetch.size
               told == [fetch EXCEPT !.source = IF genuine THEN @ ELSE "lying"]
    <3>2. told \in FetchType /\ told.try = fetch.try /\ told.file = fetch.file
      BY <1>1 DEF FetchType
    <3>3. CASE Len(fetch.file) < MaxBlocks
      <4>1. /\ fetch'.try = fetch.try
            /\ fetch'.file = Append(fetch.file, IF genuine THEN block ELSE 0)
        BY <1>1, <3>1, <3>3 DEF FetchType
      <4>2. Len(fetch'.file) = Len(fetch.file) + 1
        BY <1>1, <4>1 DEF FetchType
      <4> QED  BY <1>1, <1>2, <3>3, <4>1, <4>2
    <3>4. CASE ~(Len(fetch.file) < MaxBlocks)
      BY <1>6, <3>1, <3>2, <3>4
    <3> QED  BY <3>3, <3>4
  <2>6. CASE Ends
    <3> DEFINE told == [fetch EXCEPT !.source = IF fetch.next > fetch.size THEN @ ELSE "lying"]
    <3>1. told \in FetchType /\ told.try = fetch.try /\ told.file = fetch.file
      BY <1>1 DEF FetchType
    <3>2. fetch' = [told EXCEPT !.pc = "done"] \/ fetch' = GaveUp(told, "length")
      BY <2>6 DEF Ends
    <3> HIDE DEF told
    <3>3. fetch' = [told EXCEPT !.pc = "done"] => fetch'.try = told.try /\ fetch'.file = told.file
      BY <3>1 DEF FetchType
    <3> QED  BY <1>6, <3>1, <3>2, <3>3
  <2> QED  BY <1>7, <2>1, <2>2, <2>3, <2>4, <2>5, <2>6 DEF Fetches
<1>8. fetch'.try <= MaxTries /\ Len(fetch'.file) <= MaxBlocks
  <2>1. CASE Check \/ (\E c \in Channels : StartCheck(c)) \/ NoUpdate \/ CheckFails \/ Offer
             \/ Downloaded \/ StartInstall \/ AssembledBefore \/ AssembleFull \/ AssembleDelta
             \/ UpdaterFails \/ UNCHANGED vars
    BY <1>3, <2>1 DEF Check, StartCheck, NoUpdate, CheckFails, Offer, Downloaded, StartInstall,
         AssembledBefore, AssembleFull, AssembleDelta, HandedOver, UpdaterFails, vars
  <2>2. CASE Stops \/ Activated \/ Cancel \/ DownloadFails \/ Verified \/ VerifyFails
             \/ FellBack \/ InstallFails
    BY <1>4, <2>2 DEF Stops, Activated, Forgets, Cancel, DownloadFails, Verified, VerifyFails,
         FellBack, InstallFails
  <2>3. CASE StartDownload \/ FallBack  BY <1>5, <2>3 DEF StartDownload, FallBack
  <2>4. CASE Fetch  BY <1>7, <2>4 DEF Fetch
  <2> QED  BY <2>1, <2>2, <2>3, <2>4 DEF Next, User, Work
<1>9. pages' <= MaxPages
  <2>1. CASE Check
    <3>1. ASSUME NEW net \in Nets, FetchPage(net)  PROVE pages' <= MaxPages
      BY <1>1, <3>1 DEF FetchPage, MorePages, Bounded
    <3>2. CASE Answer \/ \E net \in Nets : Examine(net)
      BY <3>2 DEF Answer, Examine, Bounded
    <3> QED  BY <2>1, <3>1, <3>2 DEF Check, Searching
  <2>2. CASE (\E c \in Channels : StartCheck(c)) \/ NoUpdate \/ CheckFails \/ Offer \/ Stops
             \/ Activated \/ Cancel
    BY <1>1, <2>2 DEF StartCheck, SearchStarts, NoUpdate, CheckFails, Offer, Stops, Activated,
         Forgets, Cancel, SearchOver
  <2>3. CASE UNCHANGED search
    BY <2>3 DEF search, Bounded
  <2> QED
    BY <2>1, <2>2, <2>3 DEF Next, User, Work, vars, StartDownload, StartInstall, Fetch,
       DownloadFails, Downloaded, Verified, VerifyFails, AssembledBefore, AssembleFull,
       AssembleDelta, HandedOver, FallBack, FellBack, InstallFails, UpdaterFails
<1> QED  BY <1>8, <1>9 DEF Bounded

\* The differences are numbers.
LEMMA RankIsRank ==
  ASSUME Inv, Bounded
  PROVE  Rank \in Ranks
<1>1. fetch \in FetchType /\ pages \in Nat
      /\ MaxTries \in Nat /\ MaxBlocks \in Nat /\ MaxPages \in Nat
  BY TriesAssumption, BlocksAssumption, PagesAssumption DEF Inv, FetchInv, SearchInv, LookedAt
<1>2. /\ fetch.try \in Nat /\ Len(fetch.file) \in Nat
      /\ Len(listing) \in Nat /\ Len(outcomes) \in Nat /\ Len(outcomes) <= Len(listing)
  <2>1. fetch.try \in Nat /\ Len(fetch.file) \in Nat
    BY <1>1, LenProperties DEF FetchType
  <2>2. Len(listing) \in Nat /\ Reach \in Nat /\ Reach <= Len(listing)
    BY ReachBounds DEF Inv, SearchInv, LookedAt
  <2>3. Len(outcomes) \in Nat /\ Len(outcomes) <= Reach
    BY LenProperties DEF Inv, SearchInv, LookedAt
  <2> QED  BY <2>1, <2>2, <2>3
<1>3. Stage \in Nat /\ Phase \in Nat /\ Waits \in Nat
  BY DEF Stage, Phase, Waits
<1>4. /\ MaxTries - fetch.try \in Nat /\ MaxBlocks - Len(fetch.file) \in Nat
      /\ MaxPages - pages \in Nat /\ Len(listing) - Len(outcomes) \in Nat
  BY <1>1, <1>2 DEF Bounded
<1> QED  BY <1>3, <1>4 DEF Rank, Ranks

\* So they are in every state.
LEMMA SpecBounded == Spec => [](Inv /\ Bounded /\ Rank \in Ranks)
<1>1. Init => Bounded
  BY TriesAssumption, BlocksAssumption, PagesAssumption, EmptySeq
     DEF Init, SearchIdle, Off, Bounded
<1>2. Inv /\ Bounded /\ [Next]_vars => Bounded'
  BY BoundedStep
<1>3. Inv /\ Bounded => Rank \in Ranks
  BY RankIsRank
<1> QED  BY <1>1, <1>2, <1>3, SpecInv, PTL DEF Spec

\* The first place at which two ranks differ decides.
LEMMA FirstPlace ==
  ASSUME NEW r \in Ranks, NEW s \in Ranks, NEW k \in 1..7,
         r[k] < s[k], \A j \in 1..7 : j < k => r[j] = s[j]
  PROVE  Lower(r, s)
BY DEF Lower

\* A search takes one of its pages or releases, or answers.
LEMMA SearchRunsDown ==
  ASSUME Inv, Bounded, Check, Rank \in Ranks, Rank' \in Ranks
  PROVE  Lower(Rank', Rank)
<1>1. /\ UNCHANGED <<fetch, status, pending, artifact>> /\ Searching
      /\ pages \in Nat /\ outcomes \in Seq(Outcomes) /\ Len(listing) \in Nat
      /\ Len(outcomes) \in Nat
  BY ReachBounds, LenProperties DEF Check, manager, Inv, SearchInv, LookedAt
<1>2. Stage' = Stage /\ Phase' = Phase
  BY <1>1 DEF Stage, Phase
<1>3. ASSUME NEW net \in Nets, FetchPage(net), net = "ok"
      PROVE  Lower(Rank', Rank)
  <2>1. Rank'[5] < Rank[5]
    BY <1>1, <1>3, PagesAssumption DEF FetchPage, Rank, Bounded
  <2>2. \A j \in 1..7 : j < 5 => Rank'[j] = Rank[j]
    BY <1>1, <1>2 DEF Rank
  <2> QED  BY <2>1, <2>2, FirstPlace
<1>4. ASSUME NEW net \in Nets, Examine(net)
      PROVE  Lower(Rank', Rank)
  <2>1. Len(outcomes') = Len(outcomes) + 1 /\ UNCHANGED <<listing, pages>>
    BY <1>1, <1>4 DEF Examine
  <2>2. Rank'[6] < Rank[6]
    BY <1>1, <2>1 DEF Rank
  <2>3. \A j \in 1..7 : j < 6 => Rank'[j] = Rank[j]
    BY <1>1, <1>2, <2>1 DEF Rank
  <2> QED  BY <2>2, <2>3, FirstPlace
<1>5. ASSUME answer = NoAnswer, answer' # NoAnswer, UNCHANGED <<listing, pages, outcomes>>
      PROVE  Lower(Rank', Rank)
  <2>1. Rank'[7] < Rank[7]
    BY <1>5 DEF Rank, Waits
  <2>2. \A j \in 1..7 : j < 7 => Rank'[j] = Rank[j]
    BY <1>1, <1>2, <1>5 DEF Rank
  <2> QED  BY <2>1, <2>2, FirstPlace
<1>6. ASSUME NEW net \in Nets, FetchPage(net), net # "ok"
      PROVE  Lower(Rank', Rank)
  BY <1>5, <1>6 DEF FetchPage, NoAnswer
<1>7. CASE Answer
  <2>1. answer' # NoAnswer
    BY <1>7 DEF Answer, NoAnswer
  <2> QED  BY <1>5, <1>7, <2>1 DEF Answer
<1> QED  BY <1>1, <1>3, <1>4, <1>6, <1>7 DEF Searching

\* A fetch reads a block of this attempt, takes its next step or its next attempt.
LEMMA FetchRunsDown ==
  ASSUME Inv, Bounded, Fetch, Rank \in Ranks, Rank' \in Ranks
  PROVE  Lower(Rank', Rank)
<1>1. /\ UNCHANGED <<search, status, pending, artifact>> /\ Fetches
      /\ status \in {"downloading", "staging"}
      /\ fetch \in FetchType /\ fetch.try \in Nat /\ MaxTries \in Nat /\ MaxBlocks \in Nat
      /\ Len(fetch.file) \in Nat
  BY TriesAssumption, BlocksAssumption, LenProperties
     DEF Fetch, manager, Inv, FetchInv, FetchType
<1>2. fetch.pc \in {"request", "body"} /\ fetch # Off
  <2>1. fetch.pc \in {"request", "body"}
    BY <1>1 DEF Fetches, RequestFails, StartsOver, Resumes, Reads, Breaks, Ends, TimesOut
  <2> QED  BY <2>1 DEF Off
<1>3. ASSUME fetch'.pc # "off"  PROVE Stage' = Stage
  <2>1. fetch' # Off
    BY <1>3 DEF Off
  <2> QED  BY <1>1, <1>2, <2>1 DEF Stage
<1>4. ASSUME fetch'.pc # "off", fetch'.try = fetch.try + 1
      PROVE  Lower(Rank', Rank)
  <2>1. Rank'[2] < Rank[2]
    BY <1>1, <1>4 DEF Rank
  <2>2. \A j \in 1..7 : j < 2 => Rank'[j] = Rank[j]
    BY <1>3, <1>4 DEF Rank
  <2> QED  BY <2>1, <2>2, FirstPlace
<1>5. ASSUME fetch'.pc # "off", fetch'.try = fetch.try, Phase' < Phase
      PROVE  Lower(Rank', Rank)
  <2>1. Rank'[3] < Rank[3]
    BY <1>5 DEF Rank
  <2>2. \A j \in 1..7 : j < 3 => Rank'[j] = Rank[j]
    BY <1>3, <1>5 DEF Rank
  <2> QED  BY <2>1, <2>2, FirstPlace
<1>6. ASSUME fetch'.pc = fetch.pc, fetch'.try = fetch.try,
             Len(fetch'.file) = Len(fetch.file) + 1
      PROVE  Lower(Rank', Rank)
  <2>1. Phase' = Phase /\ Stage' = Stage
    BY <1>2, <1>3, <1>6 DEF Phase
  <2>2. Rank'[4] < Rank[4]
    BY <1>1, <1>6 DEF Rank
  <2>3. \A j \in 1..7 : j < 4 => Rank'[j] = Rank[j]
    BY <1>6, <2>1 DEF Rank
  <2> QED  BY <2>2, <2>3, FirstPlace
<1>7. ASSUME NEW f \in FetchType, f.try = fetch.try, NEW why, fetch' = GaveUp(f, why)
      PROVE  Lower(Rank', Rank)
  <2>1. fetch'.pc = "failed" /\ fetch'.try = fetch.try
    BY <1>7 DEF GaveUp, FetchType
  <2> QED  BY <1>2, <1>5, <2>1 DEF Phase
<1>8. ASSUME NEW f \in FetchType, f.try = fetch.try, fetch' = Retried(f)
      PROVE  Lower(Rank', Rank)
  <2>1. CASE f.try < MaxTries
    <3>1. fetch'.pc = "request" /\ fetch'.try = fetch.try + 1
      BY <1>8, <2>1 DEF Retried, FetchType
    <3> QED  BY <1>4, <3>1
  <2>2. CASE ~(f.try < MaxTries)
    BY <1>7, <1>8, <2>2 DEF Retried
  <2> QED  BY <2>1, <2>2
<1>9. CASE RequestFails \/ Breaks  BY <1>1, <1>8, <1>9 DEF RequestFails, Breaks
<1>10. CASE TimesOut  BY <1>1, <1>7, <1>10 DEF TimesOut
<1>11. CASE StartsOver \/ Resumes
  <2>1. fetch.pc = "request" /\ fetch'.pc = "body" /\ fetch'.try = fetch.try
    BY <1>1, <1>11 DEF StartsOver, Resumes, FetchType
  <2> QED  BY <1>5, <2>1 DEF Phase
<1>12. CASE Ends
  <2> DEFINE told == [fetch EXCEPT !.source = IF fetch.next > fetch.size THEN @ ELSE "lying"]
  <2>1. told \in FetchType /\ told.try = fetch.try /\ fetch.pc = "body"
    BY <1>1, <1>12 DEF Ends, FetchType
  <2>2. fetch' = [told EXCEPT !.pc = "done"] \/ fetch' = GaveUp(told, "length")
    BY <1>12 DEF Ends
  <2> HIDE DEF told
  <2>3. CASE fetch' = [told EXCEPT !.pc = "done"]
    <3>1. fetch'.pc = "done" /\ fetch'.try = fetch.try
      BY <2>1, <2>3 DEF FetchType
    <3> QED  BY <1>5, <2>1, <3>1 DEF Phase
  <2> QED  BY <1>7, <2>1, <2>2, <2>3
<1>13. CASE Reads
  <2>1. PICK block \in {0, fetch.next} :
          LET genuine == block # 0 /\ block <= fetch.size
              told == [fetch EXCEPT !.source = IF genuine THEN @ ELSE "lying"]
          IN fetch' = IF Len(fetch.file) < MaxBlocks
                      THEN [told EXCEPT !.file = Append(@, IF genuine THEN block ELSE 0),
                                        !.next = IF genuine THEN block + 1 ELSE @]
                      ELSE Retried(told)
    BY <1>13 DEF Reads
  <2> DEFINE genuine == block # 0 /\ block <= fetch.size
             told == [fetch EXCEPT !.source = IF genuine THEN @ ELSE "lying"]
  <2>2. told \in FetchType /\ told.try = fetch.try
    BY <1>1 DEF FetchType
  <2>3. CASE Len(fetch.file) < MaxBlocks
    <3>1. /\ fetch'.pc = fetch.pc /\ fetch'.try = fetch.try
          /\ fetch'.file = Append(fetch.file, IF genuine THEN block ELSE 0)
      BY <1>1, <2>1, <2>3 DEF FetchType
    <3>2. Len(fetch'.file) = Len(fetch.file) + 1
      BY <1>1, <3>1 DEF FetchType
    <3> QED  BY <1>6, <3>1, <3>2
  <2>4. CASE ~(Len(fetch.file) < MaxBlocks)
    BY <1>8, <2>1, <2>2, <2>4
  <2> QED  BY <2>3, <2>4
<1> QED  BY <1>1, <1>9, <1>10, <1>11, <1>12, <1>13 DEF Fetches

\* Every step of a check, a download or an install leaves less of it ahead, or ends
\* it, whatever connections and sources do: no retry starts anything over for good.
\* With a step that is always taken in the end this is why operations end.
THEOREM SpecRunsDown == Spec => [][RunsDown]_vars
<1>1. ASSUME Inv, Bounded, Rank \in Ranks, Rank' \in Ranks, Work  PROVE RunsDown
  <2>1. Rank \in Ranks /\ Rank' \in Ranks
    BY <1>1
  <2>2. ASSUME UNCHANGED search, Stage' < Stage  PROVE Lower(Rank', Rank)
    <3>1. Rank'[1] < Rank[1]  BY <2>2 DEF Rank
    <3>2. \A j \in 1..7 : ~(j < 1)  OBVIOUS
    <3> QED  BY <2>1, <3>1, <3>2, FirstPlace
  <2>3. CASE Check  BY <1>1, <2>1, <2>3, SearchRunsDown DEF RunsDown, Check, Busy
  <2>4. CASE Fetch  BY <1>1, <2>1, <2>4, FetchRunsDown DEF RunsDown, Fetch, Busy
  <2>5. CASE Downloaded
    <3>1. Stage' < Stage  BY <2>5 DEF Downloaded, Stage
    <3> QED  BY <2>1, <2>2, <2>5, <3>1 DEF RunsDown, Downloaded, search, Busy
  <2>6. CASE FallBack
    <3>1. fetch' # Off
      <4>1. PICK n : fetch' = FetchStarts(n)  BY <2>6 DEF FallBack
      <4>2. fetch'.pc = "request" /\ Off.pc = "off"  BY <4>1 DEF FetchStarts, Off
      <4> QED  BY <4>2
    <3>2. Stage' < Stage  BY <2>6, <3>1 DEF FallBack, Idle, manager, Stage
    <3> QED  BY <2>1, <2>2, <2>6, <3>2 DEF RunsDown, FallBack, Idle, manager, search, Busy
  <2>7. CASE FellBack
    <3>1. artifact'.type = "full"
      BY <2>7 DEF FellBack, fullArtifactOf, Fulls
    <3>2. fetch # Off  BY <2>7 DEF FellBack, Off
    <3>3. Stage' < Stage  BY <2>7, <3>1, <3>2 DEF FellBack, Stage
    <3> QED  BY <2>1, <2>2, <2>7, <3>3 DEF RunsDown, FellBack, search, Busy
  <2>8. CASE NoUpdate \/ CheckFails \/ Offer \/ DownloadFails \/ Verified \/ VerifyFails
             \/ AssembledBefore \/ AssembleFull \/ AssembleDelta \/ InstallFails
    BY <2>1, <2>8 DEF NoUpdate, CheckFails, Offer, DownloadFails, Verified, VerifyFails,
       AssembledBefore, AssembleFull, AssembleDelta, HandedOver, InstallFails, Idle,
       RunsDown, Busy
  <2> QED  BY <1>1, <2>3, <2>4, <2>5, <2>6, <2>7, <2>8 DEF Work
<1>2. Inv /\ Bounded /\ Rank \in Ranks /\ (Rank \in Ranks)' => RunsDown
  BY <1>1 DEF RunsDown
<1> QED  BY <1>2, SpecBounded, PTL DEF Spec
=============================================================================
