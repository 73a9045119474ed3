--------------------------- MODULE ReleaseProofs ---------------------------
(***************************************************************************)
(* Proofs about Release, for any number of people, commits, stops and      *)
(* dispatched runs.                                                        *)
(***************************************************************************)
EXTENDS Release, SequenceTheorems, WellFoundedInduction, TLAPS

History == Seq(Commit) \ {<<>>}
Tag == [version : Version, history : History]
Run == [phase : {"idle", "plan", "check", "push", "publish", "announce"},
        history : Seq(Commit), next : Version,
        dispatch : BOOLEAN, retry : BOOLEAN, fault : BOOLEAN]

Types ==
  /\ main \in History
  /\ tags \subseteq Tag
  /\ pending \subseteq [history : History, dispatch : BOOLEAN]
  /\ run \in Run
  /\ run.phase # "idle" => run.history # <<>>

(* A tag bears the number that its commit has in Cargo.toml.               *)
TagsAreNumbered == \A t \in tags : Current(t.history) = t.version

(* What a version must be for a commit to have it after a tag.             *)
Covers(s, h, v) ==
  LET kind == Strongest(Since(s, h))
  IN  IF kind = "none" THEN ~VersionGE(s.version, v)
      ELSE VersionGE(v, NextVersion(s.version, kind))

(* The run that has the group has chosen well, of the tags it can see.     *)
ChoiceCovers ==
  run.phase \in {"check", "push"} /\ Tagged(run.history) # {} =>
    Covers(LastTag(run.history), run.history, run.next)

(* It never takes itself for a retry, and publishes what it has tagged.    *)
RunIsTagged ==
  /\ ~run.retry
  /\ run.phase = "publish" => At(run.next, run.history) \in tags
  /\ run.phase = "announce" => InIndex(run.next)

(* The invariant that is inductive.                                        *)
IInv ==
  /\ Types
  /\ TagsAreNumbered
  /\ TagsAreOnMain
  /\ VersionsCover
  /\ ChoiceCovers
  /\ RunIsTagged
  /\ PublishedIsTagged

-----------------------------------------------------------------------------
(* Versions are ordered.                                                   *)
LEMMA VersionParts ==
  ASSUME NEW v \in Version
  PROVE  v[1] \in Nat /\ v[2] \in Nat /\ v[3] \in Nat /\ v = <<v[1], v[2], v[3]>>
  BY DEF Version

LEMMA VersionTransitive ==
  ASSUME NEW a \in Version, NEW b \in Version, NEW c \in Version,
         VersionGE(a, b), VersionGE(b, c)
  PROVE  VersionGE(a, c)
  BY VersionParts DEF VersionGE

LEMMA VersionAntisymmetric ==
  ASSUME NEW a \in Version, NEW b \in Version, VersionGE(a, b), VersionGE(b, a)
  PROVE  a = b
<1>1. a[1] = b[1] /\ a[2] = b[2] /\ a[3] = b[3]
  BY VersionParts DEF VersionGE
<1> QED
  BY <1>1, VersionParts

LEMMA VersionTotal ==
  ASSUME NEW a \in Version, NEW b \in Version
  PROVE  VersionGE(a, b) \/ VersionGE(b, a)
  BY VersionParts DEF VersionGE

LEMMA NextParts ==
  ASSUME NEW v \in Version, NEW kind \in {"patch", "minor", "major"}
  PROVE  NextVersion(v, kind) =
           IF kind = "major" /\ v[1] > 0 THEN <<v[1] + 1, 0, 0>>
           ELSE IF kind = "patch" THEN <<v[1], v[2], v[3] + 1>>
           ELSE <<v[1], v[2] + 1, 0>>
<1>1. v[1] \in Nat
  BY VersionParts
<1>2. CASE kind = "patch"
  BY <1>2 DEF NextVersion
<1>3. CASE kind = "minor"
  BY <1>3 DEF NextVersion
<1>4. CASE kind = "major" /\ v[1] > 0
  BY <1>4 DEF NextVersion
<1>5. CASE kind = "major" /\ v[1] = 0
  BY <1>5 DEF NextVersion
<1> QED
  BY <1>1, <1>2, <1>3, <1>4, <1>5

LEMMA NextIsGreater ==
  ASSUME NEW v \in Version, NEW kind \in {"patch", "minor", "major"}
  PROVE  /\ NextVersion(v, kind) \in Version
         /\ VersionGE(NextVersion(v, kind), v)
         /\ ~VersionGE(v, NextVersion(v, kind))
  BY VersionParts, NextParts DEF VersionGE, Version

LEMMA NextIsMonotone ==
  ASSUME NEW v \in Version, NEW w \in Version, VersionGE(w, v),
         NEW kind \in {"patch", "minor", "major"}
  PROVE  VersionGE(NextVersion(w, kind), NextVersion(v, kind))
  BY VersionParts, NextParts DEF VersionGE

-----------------------------------------------------------------------------
(* The strength of a kind is its place in Kinds.                           *)
Rank(commits) ==
  Max({1} \cup {i \in DOMAIN Kinds : \E c \in ToSet(commits) : c.kind = Kinds[i]})

LEMMA KindsAre ==
  /\ DOMAIN Kinds = 1 .. 4
  /\ Kinds[1] = "none" /\ Kinds[2] = "patch" /\ Kinds[3] = "minor" /\ Kinds[4] = "major"
  /\ ToSet(Kinds) = {"none", "patch", "minor", "major"}
<1>1. DOMAIN Kinds = 1 .. 4 /\ Kinds[1] = "none" /\ Kinds[2] = "patch" /\ Kinds[3] = "minor"
      /\ Kinds[4] = "major"
  BY DEF Kinds
<1> QED
  BY <1>1 DEF ToSet

LEMMA RankIs ==
  ASSUME NEW commits \in Seq(Commit)
  PROVE  /\ Rank(commits) \in 1 .. 4
         /\ Strongest(commits) = Kinds[Rank(commits)]
         /\ \A i \in 1 .. Len(commits), j \in 1 .. 4 :
              commits[i].kind = Kinds[j] => j <= Rank(commits)
         /\ Rank(commits) > 1 =>
              \E i \in 1 .. Len(commits) : commits[i].kind = Kinds[Rank(commits)]
<1> DEFINE R == {1} \cup {i \in DOMAIN Kinds : \E c \in ToSet(commits) : c.kind = Kinds[i]}
<1>1. R \subseteq 1 .. 4 /\ 1 \in R
  BY KindsAre
<1>2. \E m \in R : \A n \in R : m >= n
  <2>1. CASE 4 \in R
    BY <2>1, <1>1
  <2>2. CASE 4 \notin R /\ 3 \in R
    BY <2>2, <1>1
  <2>3. CASE 4 \notin R /\ 3 \notin R /\ 2 \in R
    BY <2>3, <1>1
  <2>4. CASE R = {1}
    BY <2>4
  <2> QED
    BY <1>1, <2>1, <2>2, <2>3, <2>4
<1>3. Rank(commits) = Max(R)
  BY DEF Rank
<1>4. Rank(commits) \in R /\ \A n \in R : Rank(commits) >= n
  <2> HIDE DEF R
  <2> QED
    BY <1>2, <1>3 DEF Max
<1>5. Strongest(commits) = Kinds[Rank(commits)]
  BY DEF Strongest, Rank
<1>6. DOMAIN commits = 1 .. Len(commits)
  BY LenProperties
<1>7. ASSUME NEW i \in 1 .. Len(commits), NEW j \in 1 .. 4, commits[i].kind = Kinds[j]
      PROVE  j <= Rank(commits)
  <2>1. commits[i] \in ToSet(commits)
    BY <1>6 DEF ToSet
  <2>2. j \in R
    BY <1>7, <2>1, KindsAre
  <2> QED
    BY <1>1, <1>4, <2>2
<1>8. ASSUME Rank(commits) > 1
      PROVE  \E i \in 1 .. Len(commits) : commits[i].kind = Kinds[Rank(commits)]
  <2>1. PICK c \in ToSet(commits) : c.kind = Kinds[Rank(commits)]
    BY <1>1, <1>4, <1>8
  <2> QED
    BY <2>1, <1>6 DEF ToSet
<1> QED
  BY <1>1, <1>4, <1>5, <1>7, <1>8

-----------------------------------------------------------------------------
(* Versions that cover one stretch of history and the next cover both.     *)
CoversRank(v, w, rank) ==
  IF rank = 1 THEN ~VersionGE(v, w) ELSE VersionGE(w, NextVersion(v, Kinds[rank]))

LEMMA CoversMeansGreater ==
  ASSUME NEW v \in Version, NEW w \in Version, NEW rank \in 1 .. 4, CoversRank(v, w, rank)
  PROVE  VersionGE(w, v) /\ ~VersionGE(v, w)
<1>1. CASE rank = 1
  BY <1>1, VersionTotal DEF CoversRank
<1>2. CASE rank > 1
  <2>1. Kinds[rank] \in {"patch", "minor", "major"}
    BY <1>2, KindsAre
  <2>2. VersionGE(w, NextVersion(v, Kinds[rank]))
    BY <1>2 DEF CoversRank
  <2>3. NextVersion(v, Kinds[rank]) \in Version /\ VersionGE(NextVersion(v, Kinds[rank]), v)
        /\ ~VersionGE(v, NextVersion(v, Kinds[rank]))
    BY <2>1, NextIsGreater
  <2> QED
    BY <2>2, <2>3, VersionTransitive
<1> QED
  BY <1>1, <1>2

LEMMA CoversJoin ==
  ASSUME NEW u \in Version, NEW v \in Version, NEW w \in Version,
         NEW first \in 1 .. 4, NEW second \in 1 .. 4, NEW both \in 1 .. 4,
         both = first \/ both = second, first <= both, second <= both,
         CoversRank(u, v, first), CoversRank(v, w, second)
  PROVE  CoversRank(u, w, both)
<1>1. VersionGE(v, u) /\ ~VersionGE(u, v) /\ VersionGE(w, v) /\ ~VersionGE(v, w)
  BY CoversMeansGreater
<1>2. CASE both = 1
  BY <1>1, <1>2, VersionTransitive DEF CoversRank
<1>3. CASE both > 1
  <2>1. Kinds[both] \in {"patch", "minor", "major"}
    BY <1>3, KindsAre
  <2>2. NextVersion(u, Kinds[both]) \in Version /\ NextVersion(v, Kinds[both]) \in Version
    BY <2>1, NextIsGreater
  <2>3. CASE both = first
    <3>1. VersionGE(v, NextVersion(u, Kinds[both]))
      BY <1>3, <2>3 DEF CoversRank
    <3> QED
      BY <1>1, <1>3, <2>2, <3>1, VersionTransitive DEF CoversRank
  <2>4. CASE both = second
    <3>1. VersionGE(w, NextVersion(v, Kinds[both]))
      BY <1>3, <2>4 DEF CoversRank
    <3>2. VersionGE(NextVersion(v, Kinds[both]), NextVersion(u, Kinds[both]))
      BY <1>1, <2>1, NextIsMonotone
    <3> QED
      BY <1>3, <2>2, <3>1, <3>2, VersionTransitive DEF CoversRank
  <2> QED
    BY <2>3, <2>4
<1> QED
  BY <1>2, <1>3

-----------------------------------------------------------------------------
(* Histories.                                                              *)
LEMMA PrefixIs ==
  ASSUME NEW a \in Seq(Commit), NEW b \in Seq(Commit)
  PROVE  IsPrefix(a, b) <=> Len(a) <= Len(b) /\ \A i \in 1 .. Len(a) : a[i] = b[i]
<1>1. Len(a) \in Nat /\ Len(b) \in Nat
  OBVIOUS
<1>2. SubSeq(a, 1, Len(a)) = a
  BY SubSeqFull
<1>3. CASE Len(a) <= Len(b)
  <2> DEFINE s == SubSeq(b, 1, Len(a))
  <2>1. \A i \in 1 .. Len(a) : b[i] \in Commit
    BY <1>1, <1>3, ElementOfSeq
  <2>2. s \in Seq(Commit) /\ Len(s) = Len(a) /\ \A i \in 1 .. Len(a) : s[i] = b[i]
    BY <1>1, <2>1, SubSeqProperties
  <2> HIDE DEF s
  <2>3. a = s <=> \A i \in 1 .. Len(a) : a[i] = s[i]
    BY <2>2, SeqEqual
  <2>4. IsPrefix(a, b) <=> a = s
    BY <1>2, <1>3 DEF IsPrefix, s
  <2> QED
    BY <1>3, <2>2, <2>3, <2>4
<1> QED
  BY <1>3 DEF IsPrefix

LEMMA PrefixSelf == \A a \in Seq(Commit) : IsPrefix(a, a)
  BY PrefixIs

LEMMA PrefixOfSame ==
  ASSUME NEW a \in Seq(Commit), NEW b \in Seq(Commit), NEW h \in Seq(Commit),
         IsPrefix(a, h), IsPrefix(b, h), Len(a) <= Len(b)
  PROVE  IsPrefix(a, b) /\ (Len(a) = Len(b) => a = b)
<1>1. Len(a) \in Nat /\ Len(b) \in Nat /\ Len(h) \in Nat
  OBVIOUS
<1>2. \A i \in 1 .. Len(a) : a[i] = h[i]
  BY PrefixIs
<1>3. \A i \in 1 .. Len(b) : b[i] = h[i]
  BY PrefixIs
<1>4. \A i \in 1 .. Len(a) : a[i] = b[i]
  BY <1>1, <1>2, <1>3
<1>5. IsPrefix(a, b)
  BY <1>4, PrefixIs
<1>6. Len(a) = Len(b) => a = b
  BY <1>4, SeqEqual
<1> QED
  BY <1>5, <1>6

LEMMA PrefixAppend ==
  ASSUME NEW a \in Seq(Commit), NEW h \in Seq(Commit), NEW c \in Commit, IsPrefix(a, h)
  PROVE  IsPrefix(a, Append(h, c))
<1>1. Len(a) \in Nat /\ Len(h) \in Nat /\ Len(a) <= Len(h) /\ \A i \in 1 .. Len(a) : a[i] = h[i]
  BY PrefixIs
<1>2. Append(h, c) \in Seq(Commit) /\ Len(Append(h, c)) = Len(h) + 1
      /\ \A i \in 1 .. Len(h) : Append(h, c)[i] = h[i]
  BY AppendProperties
<1>3. Len(a) <= Len(Append(h, c)) /\ \A i \in 1 .. Len(a) : a[i] = Append(h, c)[i]
  BY <1>1, <1>2
<1> QED
  BY <1>2, <1>3, PrefixIs

LEMMA SinceIs ==
  ASSUME NEW t \in Tag, NEW h \in Seq(Commit), Len(t.history) <= Len(h)
  PROVE  /\ Since(t, h) \in Seq(Commit)
         /\ Len(Since(t, h)) = Len(h) - Len(t.history)
         /\ \A i \in 1 .. Len(h) - Len(t.history) : Since(t, h)[i] = h[Len(t.history) + i]
<1>1. t.history \in Seq(Commit)
  BY DEF Tag, History
<1>2. Len(t.history) \in Nat /\ Len(h) \in Nat
  BY <1>1
<1>3. \A i \in Len(t.history) + 1 .. Len(h) : h[i] \in Commit
  BY <1>2, ElementOfSeq
<1> DEFINE m == Len(t.history) + 1
           s == SubSeq(h, m, Len(h))
<1>4. m \in Int /\ Len(h) - m + 1 = Len(h) - Len(t.history) /\ m <= Len(h) + 1
  BY <1>2
<1>5. \A i \in m .. Len(h) : h[i] \in Commit
  BY <1>3
<1>6. Since(t, h) = s
  BY DEF Since
<1> HIDE DEF m
<1>7. /\ s \in Seq(Commit)
      /\ Len(s) = IF m <= Len(h) THEN Len(h) - m + 1 ELSE 0
      /\ \A i \in 1 .. Len(h) - m + 1 : s[i] = h[m + i - 1]
  BY <1>2, <1>4, <1>5, SubSeqProperties
<1> HIDE DEF s
<1>8. Len(s) = Len(h) - Len(t.history)
  BY <1>2, <1>4, <1>7
<1>9. ASSUME NEW i \in 1 .. Len(h) - Len(t.history)
      PROVE  s[i] = h[Len(t.history) + i]
  <2>1. i \in 1 .. Len(h) - m + 1 /\ m + i - 1 = Len(t.history) + i
    BY <1>2, <1>4 DEF m
  <2> QED
    BY <1>7, <2>1
<1> QED
  BY <1>6, <1>7, <1>8, <1>9

(* What a tag covers of a history is decided by the commits after it, and  *)
(* a release commit adds nothing to them.                                  *)
CoversMeans(t, h, v) == CoversRank(t.version, v, Rank(Since(t, h)))

LEMMA CoversIsRank ==
  ASSUME NEW t \in Tag, NEW h \in Seq(Commit), Len(t.history) <= Len(h), NEW v
  PROVE  Rank(Since(t, h)) \in 1 .. 4 /\ (Covers(t, h, v) <=> CoversMeans(t, h, v))
<1>1. Since(t, h) \in Seq(Commit)
  BY SinceIs
<1>2. Rank(Since(t, h)) \in 1 .. 4 /\ Strongest(Since(t, h)) = Kinds[Rank(Since(t, h))]
  BY <1>1, RankIs
<1>3. Strongest(Since(t, h)) = "none" <=> Rank(Since(t, h)) = 1
  BY <1>2, KindsAre
<1> QED
  BY <1>2, <1>3 DEF Covers, CoversMeans, CoversRank

LEMMA RankOfTwo ==
  ASSUME NEW s \in Tag, NEW l \in Tag, NEW h \in Seq(Commit),
         IsPrefix(s.history, l.history), IsPrefix(l.history, h)
  PROVE  /\ Rank(Since(s, l.history)) <= Rank(Since(s, h))
         /\ Rank(Since(l, h)) <= Rank(Since(s, h))
         /\ \/ Rank(Since(s, h)) = Rank(Since(s, l.history))
            \/ Rank(Since(s, h)) = Rank(Since(l, h))
<1> DEFINE a == Len(s.history)
           b == Len(l.history)
           c == Len(h)
           first == Since(s, l.history)
           second == Since(l, h)
           both == Since(s, h)
<1>1. s.history \in Seq(Commit) /\ l.history \in Seq(Commit)
  BY DEF Tag, History
<1>2. a \in Nat /\ b \in Nat /\ c \in Nat /\ a <= b /\ b <= c
      /\ \A i \in 1 .. b : l.history[i] = h[i]
  BY <1>1, PrefixIs
<1>3. /\ first \in Seq(Commit) /\ Len(first) = b - a
      /\ \A i \in 1 .. b - a : first[i] = l.history[a + i]
  BY <1>1, <1>2, SinceIs
<1>4. /\ second \in Seq(Commit) /\ Len(second) = c - b
      /\ \A i \in 1 .. c - b : second[i] = h[b + i]
  BY <1>1, <1>2, SinceIs
<1>5. /\ both \in Seq(Commit) /\ Len(both) = c - a
      /\ \A i \in 1 .. c - a : both[i] = h[a + i]
  BY <1>1, <1>2, SinceIs
<1>6. /\ Rank(first) \in 1 .. 4
      /\ \A i \in 1 .. Len(first), j \in 1 .. 4 : first[i].kind = Kinds[j] => j <= Rank(first)
      /\ Rank(first) > 1 => \E i \in 1 .. Len(first) : first[i].kind = Kinds[Rank(first)]
  BY <1>3, RankIs
<1>7. /\ Rank(second) \in 1 .. 4
      /\ \A i \in 1 .. Len(second), j \in 1 .. 4 : second[i].kind = Kinds[j] => j <= Rank(second)
      /\ Rank(second) > 1 => \E i \in 1 .. Len(second) : second[i].kind = Kinds[Rank(second)]
  BY <1>4, RankIs
<1>8. /\ Rank(both) \in 1 .. 4
      /\ \A i \in 1 .. Len(both), j \in 1 .. 4 : both[i].kind = Kinds[j] => j <= Rank(both)
      /\ Rank(both) > 1 => \E i \in 1 .. Len(both) : both[i].kind = Kinds[Rank(both)]
  BY <1>5, RankIs
<1> HIDE DEF a, b, c, first, second, both
<1>9. \A i \in 1 .. b - a : first[i] = both[i] /\ i \in 1 .. c - a
  <2> TAKE i \in 1 .. b - a
  <2>1. i \in 1 .. c - a /\ a + i \in 1 .. b
    BY <1>2
  <2> QED
    BY <2>1, <1>2, <1>3, <1>5
<1>10. \A i \in 1 .. c - b : second[i] = both[b - a + i] /\ b - a + i \in 1 .. c - a
  <2> TAKE i \in 1 .. c - b
  <2>1. b - a + i \in 1 .. c - a /\ a + (b - a + i) = b + i
    BY <1>2
  <2> QED
    BY <2>1, <1>4, <1>5
<1>11. Rank(first) <= Rank(both)
  <2>1. CASE Rank(first) = 1
    BY <2>1, <1>8
  <2>2. CASE Rank(first) > 1
    <3>1. PICK i \in 1 .. b - a : first[i].kind = Kinds[Rank(first)]
      BY <1>3, <1>6, <2>2
    <3>2. both[i].kind = Kinds[Rank(first)] /\ i \in 1 .. Len(both)
      BY <3>1, <1>5, <1>9
    <3> QED
      BY <3>2, <1>6, <1>8
  <2> QED
    BY <1>6, <2>1, <2>2
<1>12. Rank(second) <= Rank(both)
  <2>1. CASE Rank(second) = 1
    BY <2>1, <1>8
  <2>2. CASE Rank(second) > 1
    <3>1. PICK i \in 1 .. c - b : second[i].kind = Kinds[Rank(second)]
      BY <1>4, <1>7, <2>2
    <3>2. both[b - a + i].kind = Kinds[Rank(second)] /\ b - a + i \in 1 .. Len(both)
      BY <3>1, <1>5, <1>10
    <3> QED
      BY <3>2, <1>7, <1>8
  <2> QED
    BY <1>7, <2>1, <2>2
<1>13. Rank(both) = Rank(first) \/ Rank(both) = Rank(second)
  <2>1. CASE Rank(both) = 1
    BY <2>1, <1>6, <1>11
  <2>2. CASE Rank(both) > 1
    <3>1. PICK i \in 1 .. c - a : both[i].kind = Kinds[Rank(both)]
      BY <1>5, <1>8, <2>2
    <3>2. CASE i <= b - a
      <4>1. i \in 1 .. Len(first) /\ first[i].kind = Kinds[Rank(both)]
        BY <1>2, <1>3, <1>9, <3>1, <3>2
      <4>2. Rank(both) <= Rank(first)
        BY <4>1, <1>6, <1>8
      <4> QED
        BY <4>2, <1>6, <1>8, <1>11
    <3>3. CASE i > b - a
      <4> DEFINE k == i - (b - a)
      <4>1. k \in 1 .. c - b /\ b - a + k = i
        BY <1>2, <3>1, <3>3
      <4>2. k \in 1 .. Len(second) /\ second[k].kind = Kinds[Rank(both)]
        BY <1>4, <1>10, <3>1, <4>1
      <4>3. Rank(both) <= Rank(second)
        BY <4>2, <1>7, <1>8
      <4> QED
        BY <4>3, <1>7, <1>8, <1>12
    <3> QED
      BY <1>2, <3>1, <3>2, <3>3
  <2> QED
    BY <1>8, <2>1, <2>2
<1> QED
  BY <1>11, <1>12, <1>13 DEF first, second, both

LEMMA RankOfRelease ==
  ASSUME NEW t \in Tag, NEW h \in Seq(Commit), NEW c \in Commit, c.kind = "none",
         Len(t.history) <= Len(h)
  PROVE  Rank(Since(t, Append(h, c))) = Rank(Since(t, h))
<1> DEFINE a == Len(t.history)
           n == Len(h)
           g == Append(h, c)
           old == Since(t, h)
           new == Since(t, g)
<1>1. a \in Nat /\ n \in Nat /\ a <= n
  BY DEF Tag, History
<1>2. g \in Seq(Commit) /\ Len(g) = n + 1 /\ (\A i \in 1 .. n : g[i] = h[i]) /\ g[n + 1] = c
  BY AppendProperties
<1>3. old \in Seq(Commit) /\ Len(old) = n - a /\ \A i \in 1 .. n - a : old[i] = h[a + i]
  BY <1>1, SinceIs
<1> HIDE DEF g
<1>4. new \in Seq(Commit) /\ Len(new) = n + 1 - a /\ \A i \in 1 .. n + 1 - a : new[i] = g[a + i]
  <2>1. Len(t.history) <= Len(g)
    BY <1>1, <1>2
  <2> HIDE DEF a, n, new
  <2>2. new \in Seq(Commit) /\ Len(new) = Len(g) - a /\ \A i \in 1 .. Len(g) - a : new[i] = g[a + i]
    BY <1>2, <2>1, SinceIs DEF a, new
  <2> QED
    BY <1>1, <1>2, <2>2
<1>5. /\ Rank(old) \in 1 .. 4
      /\ \A i \in 1 .. Len(old), j \in 1 .. 4 : old[i].kind = Kinds[j] => j <= Rank(old)
      /\ Rank(old) > 1 => \E i \in 1 .. Len(old) : old[i].kind = Kinds[Rank(old)]
  BY <1>3, RankIs
<1>6. /\ Rank(new) \in 1 .. 4
      /\ \A i \in 1 .. Len(new), j \in 1 .. 4 : new[i].kind = Kinds[j] => j <= Rank(new)
      /\ Rank(new) > 1 => \E i \in 1 .. Len(new) : new[i].kind = Kinds[Rank(new)]
  BY <1>4, RankIs
<1> HIDE DEF a, n, old, new
<1>7. \A i \in 1 .. n - a : new[i] = old[i] /\ i \in 1 .. n + 1 - a
  <2> TAKE i \in 1 .. n - a
  <2>1. i \in 1 .. n + 1 - a /\ a + i \in 1 .. n
    BY <1>1
  <2> QED
    BY <2>1, <1>2, <1>3, <1>4
<1>8. new[n + 1 - a] = c
  <2>1. n + 1 - a \in 1 .. n + 1 - a /\ a + (n + 1 - a) = n + 1
    BY <1>1
  <2> QED
    BY <2>1, <1>2, <1>4
<1>9. Rank(old) <= Rank(new)
  <2>1. CASE Rank(old) = 1
    BY <2>1, <1>6
  <2>2. CASE Rank(old) > 1
    <3>1. PICK i \in 1 .. n - a : old[i].kind = Kinds[Rank(old)]
      BY <1>3, <1>5, <2>2
    <3>2. new[i].kind = Kinds[Rank(old)] /\ i \in 1 .. Len(new)
      BY <3>1, <1>4, <1>7
    <3> QED
      BY <3>2, <1>5, <1>6
  <2> QED
    BY <1>5, <2>1, <2>2
<1>10. Rank(new) <= Rank(old)
  <2>1. CASE Rank(new) = 1
    BY <2>1, <1>5
  <2>2. CASE Rank(new) > 1
    <3>1. PICK i \in 1 .. n + 1 - a : new[i].kind = Kinds[Rank(new)]
      BY <1>4, <1>6, <2>2
    <3>2. Kinds[Rank(new)] # "none"
      BY <1>6, <2>2, KindsAre
    <3>3. i # n + 1 - a
      BY <1>8, <3>1, <3>2
    <3>4. i \in 1 .. n - a
      BY <1>1, <3>1, <3>3
    <3>5. i \in 1 .. Len(old) /\ old[i].kind = Kinds[Rank(new)]
      BY <1>3, <1>7, <3>1, <3>4
    <3> QED
      BY <3>5, <1>5, <1>6
  <2> QED
    BY <1>6, <2>1, <2>2
<1> QED
  BY <1>5, <1>6, <1>9, <1>10 DEF old, new, g

-----------------------------------------------------------------------------
(* The last tag.                                                           *)
LEMMA LeastNat ==
  ASSUME NEW T, T \subseteq Nat, T # {}
  PROVE  \E x \in T : \A y \in T : x <= y
<1> DEFINE Less == OpToRel(<, Nat)
<1>1. IsWellFoundedOn(Less, Nat)
  BY NatLessThanWellFounded
<1>2. \A x, y \in Nat : y < x => <<y, x>> \in Less
  BY DEF OpToRel
<1> HIDE DEF Less
<1>3. PICK x \in T : \A y \in T : ~(<<y, x>> \in Less)
  BY <1>1, WFMin
<1>4. \A y \in T : ~(y < x)
  BY <1>2, <1>3
<1>5. \A y \in T : x <= y
  BY <1>4
<1> QED
  BY <1>5

LEMMA LastTagIs ==
  ASSUME tags \subseteq Tag, NEW h \in Seq(Commit), Tagged(h) # {}
  PROVE  /\ LastTag(h) \in Tagged(h)
         /\ \A s \in Tagged(h) : IsPrefix(s.history, LastTag(h).history)
<1> DEFINE gap(t) == Len(h) - Len(t.history)
           gaps == {gap(t) : t \in Tagged(h)}
<1>1. \A t \in Tagged(h) : t \in tags /\ t.history \in Seq(Commit) /\ IsPrefix(t.history, h)
  BY DEF Tagged, Tag, History
<1>2. \A t \in Tagged(h) : Len(t.history) \in Nat /\ Len(t.history) <= Len(h)
  BY <1>1, PrefixIs
<1>3. gaps \subseteq Nat /\ gaps # {}
  BY <1>2
<1>4. PICK least \in gaps : \A y \in gaps : least <= y
  BY <1>3, LeastNat
<1>5. PICK t \in Tagged(h) : least = gap(t)
  BY <1>4
<1>6. \A s \in Tagged(h) : Len(s.history) <= Len(t.history)
  <2> TAKE s \in Tagged(h)
  <2>1. gap(t) <= gap(s)
    BY <1>4, <1>5
  <2> QED
    BY <1>2, <2>1
<1>7. \A s \in Tagged(h) : IsPrefix(s.history, t.history)
  BY <1>1, <1>6, PrefixOfSame
<1> QED
  BY <1>7 DEF LastTag

-----------------------------------------------------------------------------
LEMMA FirstCommit ==
  ASSUME Init
  PROVE  /\ main \in Seq(Commit) /\ main # <<>> /\ Len(main) = 1
         /\ main[1].version = FirstVersion
<1> DEFINE c == [kind |-> "none", version |-> FirstVersion, chore |-> FALSE]
<1>1. c \in Commit
  BY ReleaseAssumption, KindsAre DEF Commit
<1>2. main = <<c>> /\ c.version = FirstVersion
  BY DEF Init
<1> HIDE DEF c
<1>3. main \in Seq(Commit) /\ Len(main) = 1 /\ main[1] = c
  BY <1>1, <1>2
<1>4. main # <<>>
  BY <1>3, EmptySeq
<1> QED
  BY <1>2, <1>3, <1>4

LEMMA InitIInv == Init => IInv
<1> SUFFICES ASSUME Init PROVE IInv
  OBVIOUS
<1>1. /\ tags \subseteq {At(FirstVersion, main)} /\ index = tags
      /\ releases = {t.version : t \in tags} /\ pending = {Event(main, FALSE)}
      /\ run = [phase |-> "idle", history |-> <<>>, next |-> FirstVersion,
                dispatch |-> FALSE, retry |-> FALSE, fault |-> FALSE]
  BY DEF Init
<1>2. main \in History /\ Current(main) = FirstVersion
  BY FirstCommit DEF History, Current, Last
<1>3. Types
  BY <1>1, <1>2, ReleaseAssumption DEF Types, Tag, Run, At, Event
<1>4. TagsAreNumbered /\ TagsAreOnMain
  BY <1>1, <1>2, PrefixSelf DEF TagsAreNumbered, TagsAreOnMain, At, History
<1>5. VersionsCover
  <2>1. \A s, t \in tags : s = t
    BY <1>1
  <2>2. \A s, t \in tags : ~(Len(s.history) < Len(t.history))
    BY <2>1, <1>1, FirstCommit DEF At
  <2> QED
    BY <2>2 DEF VersionsCover
<1>6. ChoiceCovers /\ RunIsTagged
  BY <1>1 DEF ChoiceCovers, RunIsTagged
<1>7. PublishedIsTagged
  BY <1>1, <1>4 DEF PublishedIsTagged, TagsAreNumbered, InIndex
<1> QED
  BY <1>3, <1>4, <1>5, <1>6, <1>7 DEF IInv

(* Nothing about tags, index and releases depends on anything else.        *)
LEMMA RemoteSame ==
  ASSUME IInv, UNCHANGED <<tags, index, releases>>
  PROVE  /\ TagsAreNumbered' /\ VersionsCover' /\ PublishedIsTagged'
         /\ \A h \in Seq(Commit) : Tagged(h)' = Tagged(h) /\ LastTag(h)' = LastTag(h)
         /\ \A v : InIndex(v)' = InIndex(v)
<1>1. \A h : Tagged(h)' = Tagged(h)
  BY DEF Tagged
<1>2. \A h : LastTag(h)' = LastTag(h)
  BY <1>1 DEF LastTag
<1> QED
  BY <1>1, <1>2 DEF IInv, TagsAreNumbered, VersionsCover, PublishedIsTagged, InIndex

LEMMA StartRunIInv == IInv /\ StartRun => IInv'
<1> SUFFICES ASSUME IInv, StartRun PROVE IInv'
  OBVIOUS
<1>1. PICK e \in pending :
        run' = [run EXCEPT !.phase = IF e.dispatch \/ ~Last(e.history).chore
                                     THEN "plan" ELSE "idle",
                           !.history = e.history, !.dispatch = e.dispatch,
                           !.retry = FALSE, !.fault = FALSE]
  BY DEF StartRun
<1>2. pending' = {} /\ UNCHANGED remote
  BY DEF StartRun
<1>3. e.history \in Seq(Commit) /\ e.history # <<>> /\ e.dispatch \in BOOLEAN
  BY DEF IInv, Types, History
<1>4. run' \in Run /\ run'.phase \in {"plan", "idle"} /\ ~run'.retry /\ run'.history # <<>>
  BY <1>1, <1>3 DEF IInv, Types, Run
<1>5. Types' /\ TagsAreOnMain'
  BY <1>2, <1>4 DEF IInv, Types, TagsAreOnMain, remote
<1>6. ChoiceCovers' /\ RunIsTagged'
  BY <1>4 DEF ChoiceCovers, RunIsTagged
<1> QED
  BY <1>2, <1>5, <1>6, RemoteSame DEF IInv, remote

(* A step of the run after which it holds no choice and no tag.            *)
LEMMA EndRunIInv ==
  ASSUME IInv, EndRun, UNCHANGED <<remote, pending>>
  PROVE  IInv'
<1>1. run' \in Run /\ run'.phase = "idle" /\ run'.retry = run.retry
  BY DEF EndRun, GoOn, IInv, Types, Run
<1>2. Types' /\ TagsAreOnMain'
  BY <1>1 DEF IInv, Types, TagsAreOnMain, remote
<1>3. ChoiceCovers' /\ RunIsTagged'
  BY <1>1 DEF IInv, ChoiceCovers, RunIsTagged
<1> QED
  BY <1>2, <1>3, RemoteSame DEF IInv, remote

LEMMA CurrentVersion ==
  ASSUME NEW h \in Seq(Commit), h # <<>>
  PROVE  Current(h) \in Version
<1>1. Len(h) \in 1 .. Len(h)
  BY EmptySeq
<1>2. h[Len(h)] \in Commit
  BY <1>1, ElementOfSeq
<1> QED
  BY <1>2 DEF Current, Last, Commit

LEMMA ChooseIInv ==
  ASSUME IInv, run.phase = "plan", UNCHANGED <<remote, pending>>,
         NEW v \in Version, Choose(v, FALSE),
         Tagged(run.history) # {} => Covers(LastTag(run.history), run.history, v)
  PROVE  IInv'
<1>1. run' = [run EXCEPT !.phase = "check", !.next = v, !.retry = FALSE]
  BY DEF Choose
<1>2. run \in Run /\ run.history \in Seq(Commit) /\ run.history # <<>>
  BY DEF IInv, Types, Run
<1>3. /\ run' \in Run /\ run'.phase = "check" /\ ~run'.retry /\ run'.next = v
      /\ run'.history = run.history
  BY <1>1, <1>2 DEF Run
<1>4. Types' /\ TagsAreOnMain'
  BY <1>2, <1>3 DEF IInv, Types, TagsAreOnMain, remote
<1>5. Tagged(run.history)' = Tagged(run.history)
  BY <1>3 DEF Tagged, remote
<1>6. ChoiceCovers'
  <2>1. LastTag(run.history)' = LastTag(run.history)
    BY <1>3, <1>5 DEF LastTag
  <2>2. Covers(LastTag(run.history), run.history, run.next)'
        <=> Covers(LastTag(run.history), run.history, v)
    BY <1>3, <2>1 DEF Covers, Since
  <2> QED
    BY <1>5, <2>2 DEF ChoiceCovers
<1>7. RunIsTagged'
  BY <1>3 DEF RunIsTagged
<1> QED
  BY <1>4, <1>6, <1>7, RemoteSame DEF IInv, remote

LEMMA PlanIInv == IInv /\ Plan => IInv'
<1> SUFFICES ASSUME IInv, Plan PROVE IInv'
  OBVIOUS
<1> DEFINE h == run.history
           last == LastTag(h)
<1>1. run.phase = "plan" /\ UNCHANGED <<remote, pending>>
  BY DEF Plan
<1>2. h \in Seq(Commit) /\ h # <<>>
  BY <1>1 DEF IInv, Types, Run
<1>3. Current(h) \in Version
  BY <1>2, CurrentVersion
<1>4. CASE Tagged(h) = {}
  <2>1. Choose(Current(h), FALSE)
    BY <1>4 DEF Plan
  <2> QED
    BY <1>1, <1>3, <1>4, <2>1, ChooseIInv
<1>5. CASE Tagged(h) # {}
  <2>1. last \in Tagged(h)
    BY <1>2, <1>5, LastTagIs DEF IInv, Types
  <2>2. last \in Tag /\ IsPrefix(last.history, h)
    BY <2>1 DEF IInv, Types, Tagged
  <2>3. last.history \in Seq(Commit) /\ last.version \in Version
    BY <2>2 DEF Tag, History
  <2>4. Len(last.history) <= Len(h)
    BY <1>2, <2>2, <2>3, PrefixIs
  <2>5. Since(last, h) \in Seq(Commit)
    BY <1>2, <2>2, <2>4, SinceIs
  <2>6. ReleaseKind(h) \in {"none", "patch", "minor", "major"}
    BY <2>5, RankIs, KindsAre DEF ReleaseKind
  <2>7. CASE Current(h) # last.version
    <3>1. CASE LargeEnough(h)
      <4>1. Choose(Current(h), FALSE)
        BY <1>5, <2>7, <3>1 DEF Plan
      <4>2. /\ VersionGE(Current(h), last.version)
            /\ ReleaseKind(h) # "none" =>
                 VersionGE(Current(h), NextVersion(last.version, ReleaseKind(h)))
        BY <3>1 DEF LargeEnough
      <4>3. ~VersionGE(last.version, Current(h))
        BY <1>3, <2>3, <2>7, <4>2, VersionAntisymmetric
      <4>4. Covers(last, h, Current(h))
        BY <4>2, <4>3 DEF Covers, ReleaseKind
      <4> QED
        BY <1>1, <1>3, <4>1, <4>4, ChooseIInv
    <3>2. CASE ~LargeEnough(h)
      <4>1. EndRun
        BY <1>5, <2>7, <3>2 DEF Plan
      <4> QED
        BY <1>1, <4>1, EndRunIInv
    <3> QED
      BY <3>1, <3>2
  <2>8. CASE Current(h) = last.version /\ ReleaseKind(h) # "none"
    <3>1. Choose(NextVersion(last.version, ReleaseKind(h)), FALSE)
      BY <1>5, <2>8 DEF Plan
    <3>2. NextVersion(last.version, ReleaseKind(h)) \in Version
      BY <2>3, <2>6, <2>8, NextIsGreater
    <3>3. VersionGE(NextVersion(last.version, ReleaseKind(h)),
                    NextVersion(last.version, ReleaseKind(h)))
      BY <3>2, VersionTotal
    <3>4. Covers(last, h, NextVersion(last.version, ReleaseKind(h)))
      BY <2>8, <3>3 DEF Covers, ReleaseKind
    <3> QED
      BY <1>1, <3>1, <3>2, <3>4, ChooseIInv
  <2>9. CASE Current(h) = last.version /\ ReleaseKind(h) = "none"
    <3>1. ~AtTag(h)
      BY DEF AtTag, RevParseHead, RevParseTag
    <3>2. EndRun
      BY <1>5, <2>9, <3>1 DEF Plan
    <3> QED
      BY <1>1, <3>2, EndRunIInv
  <2> QED
    BY <2>7, <2>8, <2>9
<1> QED
  BY <1>4, <1>5

LEMMA CheckMainIInv == IInv /\ CheckMain => IInv'
<1> SUFFICES ASSUME IInv, CheckMain PROVE IInv'
  OBVIOUS
<1>1. run.phase = "check" /\ UNCHANGED <<remote, pending>>
  BY DEF CheckMain
<1>2. CASE main # run.history
  BY <1>1, <1>2, EndRunIInv DEF CheckMain
<1>3. CASE main = run.history
  <2>1. run' = [run EXCEPT !.phase = "push"]
    BY <1>3 DEF CheckMain, GoOn, IInv, RunIsTagged
  <2>2. /\ run' \in Run /\ run'.phase = "push" /\ run'.history = run.history
        /\ run'.next = run.next /\ run'.retry = run.retry
    BY <2>1 DEF IInv, Types, Run
  <2>3. Types' /\ TagsAreOnMain'
    BY <1>1, <2>2 DEF IInv, Types, TagsAreOnMain, remote
  <2>4. Tagged(run.history)' = Tagged(run.history)
    BY <1>1, <2>2 DEF Tagged, remote
  <2>5. LastTag(run.history)' = LastTag(run.history)
    BY <2>2, <2>4 DEF LastTag
  <2>6. ChoiceCovers'
    BY <1>1, <2>2, <2>4, <2>5 DEF IInv, ChoiceCovers, Covers, Since
  <2>7. RunIsTagged'
    BY <2>2 DEF IInv, RunIsTagged
  <2> QED
    BY <1>1, <2>3, <2>6, <2>7, RemoteSame DEF IInv, remote
<1> QED
  BY <1>2, <1>3

(* A version chosen for all of main covers what is after every tag on it.  *)
LEMMA ChoiceCoversAll ==
  ASSUME IInv, run.phase = "push", main = run.history, NEW s \in tags,
         NEW c \in Commit, c.kind = "none"
  PROVE  Covers(s, Append(main, c), run.next)
<1> DEFINE h == Append(main, c)
           last == LastTag(main)
<1>1. main \in Seq(Commit) /\ run.next \in Version /\ tags \subseteq Tag
  BY DEF IInv, Types, Run, History
<1>2. \A t \in tags : t.history \in Seq(Commit) /\ t.version \in Version /\ IsPrefix(t.history, main)
  BY <1>1 DEF IInv, TagsAreOnMain, Tag, History
<1>3. \A t \in tags : Len(t.history) <= Len(main)
  BY <1>1, <1>2, PrefixIs
<1>4. Tagged(main) = tags
  BY <1>2 DEF Tagged
<1>5. last \in tags /\ IsPrefix(s.history, last.history)
  BY <1>1, <1>4, LastTagIs
<1>6. Covers(last, main, run.next)
  BY <1>4 DEF IInv, ChoiceCovers
<1>7. CoversRank(last.version, run.next, Rank(Since(last, main)))
  BY <1>1, <1>3, <1>5, <1>6, CoversIsRank DEF CoversMeans
<1>8. Rank(Since(s, h)) = Rank(Since(s, main))
  BY <1>1, <1>3, RankOfRelease
<1>9. CoversRank(s.version, run.next, Rank(Since(s, main)))
  <2>1. CASE s.history = last.history
    <3>1. s.version = last.version
      BY <2>1, <1>5 DEF IInv, TagsAreNumbered
    <3>2. Since(s, main) = Since(last, main)
      BY <2>1 DEF Since
    <3> QED
      BY <1>7, <3>1, <3>2
  <2>2. CASE s.history # last.history
    <3>1. Len(s.history) <= Len(last.history)
      BY <1>2, <1>5, PrefixIs
    <3>2. Len(s.history) # Len(last.history)
      BY <1>1, <1>2, <1>5, <2>2, <3>1, PrefixOfSame
    <3>3. Len(s.history) < Len(last.history)
      BY <1>2, <1>5, <3>1, <3>2
    <3>4. Covers(s, last.history, last.version)
      BY <1>5, <3>3 DEF IInv, VersionsCover, Covers
    <3>5. Rank(Since(s, last.history)) \in 1 .. 4
          /\ CoversRank(s.version, last.version, Rank(Since(s, last.history)))
      BY <1>1, <1>2, <1>5, <3>1, <3>4, CoversIsRank DEF CoversMeans
    <3>6. Rank(Since(last, main)) \in 1 .. 4 /\ Rank(Since(s, main)) \in 1 .. 4
      BY <1>1, <1>3, <1>5, CoversIsRank
    <3>7. /\ Rank(Since(s, last.history)) <= Rank(Since(s, main))
          /\ Rank(Since(last, main)) <= Rank(Since(s, main))
          /\ \/ Rank(Since(s, main)) = Rank(Since(s, last.history))
             \/ Rank(Since(s, main)) = Rank(Since(last, main))
      BY <1>1, <1>2, <1>5, RankOfTwo
    <3> QED
      BY <1>1, <1>2, <1>5, <1>7, <3>5, <3>6, <3>7, CoversJoin
  <2> QED
    BY <2>1, <2>2
<1>10. Len(s.history) <= Len(h) /\ h \in Seq(Commit)
  <2>1. h \in Seq(Commit) /\ Len(h) = Len(main) + 1 /\ Len(main) \in Nat
    BY <1>1, AppendProperties
  <2> HIDE DEF h
  <2>2. Len(s.history) \in Nat /\ Len(s.history) <= Len(main)
    BY <1>2, <1>3
  <2> QED
    BY <2>1, <2>2
<1> HIDE DEF h
<1>11. CoversMeans(s, h, run.next)
  BY <1>8, <1>9 DEF CoversMeans
<1>12. Covers(s, h, run.next)
  BY <1>1, <1>10, <1>11, CoversIsRank
<1> QED
  BY <1>12 DEF h

LEMMA PushIInv == IInv /\ Push => IInv'
<1> SUFFICES ASSUME IInv, Push PROVE IInv'
  OBVIOUS
<1> DEFINE h == Append(run.history, ReleaseCommit)
           new == At(run.next, h)
<1>1. run.phase = "push" /\ PushAtomic(h) /\ UNCHANGED <<index, releases>>
  BY DEF Push
<1>2. CASE main # run.history
  <2>1. EndRun /\ UNCHANGED <<remote, pending>>
    BY <1>1, <1>2 DEF PushAtomic, remote
  <2> QED
    BY <2>1, EndRunIInv
<1>3. CASE main = run.history
  <2>1. /\ main' = h /\ tags' = tags \cup {new} /\ pending' = {Event(h, FALSE)}
        /\ run' = [run EXCEPT !.phase = "publish", !.history = h]
    BY <1>1, <1>3 DEF PushAtomic, Enqueue
  <2>2. main \in Seq(Commit) /\ run.next \in Version
    BY DEF IInv, Types, Run, History
  <2>3. ReleaseCommit \in Commit /\ ReleaseCommit.kind = "none" /\ ReleaseCommit.version = run.next
    BY <2>2, KindsAre DEF ReleaseCommit, Commit
  <2>4. /\ h \in Seq(Commit) /\ h # <<>> /\ Len(h) = Len(main) + 1
        /\ h[Len(main) + 1] = ReleaseCommit
    BY <1>3, <2>2, <2>3, AppendProperties
  <2>5. Current(h) = run.next
    BY <2>3, <2>4 DEF Current, Last
  <2>6. h = Append(main, ReleaseCommit)
    BY <1>3
  <2> HIDE DEF h
  <2>7. new.version = run.next /\ new.history = h /\ new \in Tag
    BY <2>2, <2>4 DEF At, Tag, History
  <2>8. \A t \in tags : t.history \in Seq(Commit) /\ IsPrefix(t.history, main)
    BY DEF IInv, Types, TagsAreOnMain, Tag, History
  <2>9. /\ run' \in Run /\ run'.phase = "publish" /\ run'.history = h /\ run'.next = run.next
        /\ run'.retry = run.retry
    BY <2>1, <2>4 DEF IInv, Types, Run
  <2> HIDE DEF new
  <2>10. Types'
    BY <2>1, <2>4, <2>7, <2>9 DEF IInv, Types, History, Event
  <2>11. TagsAreNumbered'
    BY <2>1, <2>5, <2>7 DEF IInv, TagsAreNumbered
  <2>12. TagsAreOnMain'
    <3>1. \A t \in tags : IsPrefix(t.history, h)
      BY <2>2, <2>3, <2>6, <2>8, PrefixAppend
    <3>2. IsPrefix(new.history, h)
      BY <2>4, <2>7, PrefixSelf
    <3> QED
      BY <2>1, <3>1, <3>2 DEF TagsAreOnMain
  <2>13. VersionsCover'
    <3> SUFFICES ASSUME NEW s \in tags', NEW t \in tags', Len(s.history) < Len(t.history)
                 PROVE  Covers(s, t.history, t.version)
      BY DEF VersionsCover, Covers
    <3>1. \A x \in tags : Len(x.history) \in Nat /\ Len(x.history) < Len(h)
      BY <2>2, <2>4, <2>8, PrefixIs
    <3>2. s # new
      BY <2>1, <2>7, <3>1
    <3>3. s \in tags
      BY <2>1, <3>2
    <3>4. CASE t \in tags
      BY <3>3, <3>4 DEF IInv, VersionsCover, Covers
    <3>5. CASE t = new
      BY <1>1, <1>3, <2>3, <2>6, <2>7, <3>3, <3>5, ChoiceCoversAll
    <3> QED
      BY <2>1, <3>4, <3>5
  <2>14. ChoiceCovers'
    BY <2>9 DEF ChoiceCovers
  <2>15. RunIsTagged'
    BY <2>1, <2>9 DEF IInv, RunIsTagged, new
  <2>16. PublishedIsTagged'
    BY <1>1, <2>1 DEF IInv, PublishedIsTagged, InIndex
  <2> QED
    BY <2>10, <2>11, <2>12, <2>13, <2>14, <2>15, <2>16 DEF IInv
<1> QED
  BY <1>2, <1>3

LEMMA PublishIInv == IInv /\ Publish => IInv'
<1> SUFFICES ASSUME IInv, Publish PROVE IInv'
  OBVIOUS
<1> DEFINE new == At(run.next, run.history)
<1>1. run.phase = "publish" /\ UNCHANGED <<main, tags, releases, pending>>
  BY DEF Publish
<1>2. new \in tags /\ ~run.retry
  BY <1>1 DEF IInv, RunIsTagged
<1>3. CASE EndRun /\ UNCHANGED index
  BY <1>1, <1>3, EndRunIInv DEF remote
<1>4. ASSUME run' = [run EXCEPT !.phase = "announce"], index' \in {index, index \cup {new}},
             \E p \in index' : p.version = run.next
      PROVE  IInv'
  <2>1. run' \in Run /\ run'.phase = "announce" /\ run'.next = run.next /\ run'.retry = run.retry
        /\ run'.history = run.history
    BY <1>4 DEF IInv, Types, Run
  <2>2. Types' /\ TagsAreOnMain' /\ TagsAreNumbered' /\ VersionsCover'
    BY <1>1, <2>1 DEF IInv, Types, TagsAreOnMain, TagsAreNumbered, VersionsCover
  <2>3. ChoiceCovers' /\ RunIsTagged'
    BY <1>4, <2>1 DEF IInv, ChoiceCovers, RunIsTagged, InIndex
  <2>4. index' \subseteq tags' /\ index \subseteq index'
    BY <1>1, <1>2, <1>4 DEF IInv, PublishedIsTagged
  <2>5. PublishedIsTagged'
    BY <1>1, <2>2, <2>4 DEF IInv, PublishedIsTagged, TagsAreNumbered, InIndex
  <2> QED
    BY <2>2, <2>3, <2>5 DEF IInv
<1>5. PICK known \in Published(run.next) :
        IF known THEN GoOn("announce") /\ UNCHANGED index
        ELSE IF InIndex(run.next) THEN EndRun /\ UNCHANGED index
        ELSE /\ index' = index \cup {new}
             /\ GoOn("announce")
  BY DEF Publish
<1>6. CASE known
  <2>1. InIndex(run.next)
    BY <1>5, <1>6 DEF Published
  <2> QED
    BY <1>4, <1>5, <1>6, <2>1 DEF InIndex, GoOn
<1>7. CASE ~known /\ InIndex(run.next)
  BY <1>3, <1>5, <1>7
<1>8. CASE ~known /\ ~InIndex(run.next)
  <2>1. new.version = run.next
    BY DEF At
  <2> QED
    BY <1>4, <1>5, <1>8, <2>1 DEF GoOn
<1> QED
  BY <1>6, <1>7, <1>8

LEMMA AnnounceIInv == IInv /\ Announce => IInv'
<1> SUFFICES ASSUME IInv, Announce PROVE IInv'
  OBVIOUS
<1>1. /\ run' = [run EXCEPT !.phase = "idle"] /\ UNCHANGED <<main, tags, index, pending>>
      /\ releases' = releases \cup {run.next} /\ InIndex(run.next)
  BY DEF Announce, EndRun, GoOn, IInv, RunIsTagged
<1>2. run' \in Run /\ run'.phase = "idle" /\ run'.retry = run.retry
  BY <1>1 DEF IInv, Types, Run
<1>3. Types' /\ TagsAreOnMain' /\ TagsAreNumbered' /\ VersionsCover'
  BY <1>1, <1>2 DEF IInv, Types, TagsAreOnMain, TagsAreNumbered, VersionsCover
<1>4. ChoiceCovers' /\ RunIsTagged'
  BY <1>2 DEF IInv, ChoiceCovers, RunIsTagged
<1>5. PublishedIsTagged'
  BY <1>1 DEF IInv, PublishedIsTagged, InIndex
<1> QED
  BY <1>3, <1>4, <1>5 DEF IInv

LEMMA StopIInv == IInv /\ Stop => IInv'
<1> SUFFICES ASSUME IInv, Stop PROVE IInv'
  OBVIOUS
<1>1. run' = [run EXCEPT !.phase = "idle", !.fault = TRUE] /\ UNCHANGED <<remote, pending>>
  BY DEF Stop
<1>2. run' \in Run /\ run'.phase = "idle" /\ run'.retry = run.retry
  BY <1>1 DEF IInv, Types, Run
<1>3. Types' /\ TagsAreOnMain'
  BY <1>1, <1>2 DEF IInv, Types, TagsAreOnMain, remote
<1>4. ChoiceCovers' /\ RunIsTagged'
  BY <1>2 DEF IInv, ChoiceCovers, RunIsTagged
<1> QED
  BY <1>1, <1>3, <1>4, RemoteSame DEF IInv, remote

(* Other people move main and the queue, and nothing that the run has.     *)
LEMMA OthersIInv ==
  ASSUME IInv, UNCHANGED <<tags, index, releases, run>>,
         pending' \subseteq [history : History, dispatch : BOOLEAN],
         main' = main \/ \E c \in Commit : main' = Append(main, c)
  PROVE  IInv'
<1>1. main \in Seq(Commit)
  BY DEF IInv, Types, History
<1>2. main' \in History
  BY <1>1, AppendProperties DEF IInv, Types, History
<1>3. Types'
  BY <1>2 DEF IInv, Types
<1>4. \A t \in tags : t.history \in Seq(Commit) /\ IsPrefix(t.history, main)
  BY DEF IInv, Types, Tag, History, TagsAreOnMain
<1>5. TagsAreOnMain'
  BY <1>1, <1>4, PrefixAppend DEF TagsAreOnMain
<1>6. Tagged(run.history)' = Tagged(run.history)
  BY DEF Tagged
<1>7. LastTag(run.history)' = LastTag(run.history)
  BY <1>6 DEF LastTag
<1>8. ChoiceCovers'
  BY <1>6, <1>7 DEF IInv, ChoiceCovers, Covers, Since
<1>9. RunIsTagged'
  BY DEF IInv, RunIsTagged, InIndex
<1> QED
  BY <1>3, <1>5, <1>8, <1>9, RemoteSame DEF IInv

LEMMA PushCommitIInv == IInv /\ PushCommit => IInv'
<1> SUFFICES ASSUME IInv, PushCommit PROVE IInv'
  OBVIOUS
<1>1. PICK kind \in ToSet(Kinds), version \in SetVersions \cup {Current(main)} :
        main' = Append(main, [kind |-> kind, version |-> version, chore |-> FALSE])
  BY DEF PushCommit
<1>2. main \in Seq(Commit) /\ main # <<>>
  BY DEF IInv, Types, History
<1>3. version \in Version
  BY <1>2, CurrentVersion, ReleaseAssumption
<1>4. [kind |-> kind, version |-> version, chore |-> FALSE] \in Commit
  BY <1>3 DEF Commit
<1>5. main' \in History
  BY <1>1, <1>2, <1>4, AppendProperties DEF History
<1>6. pending' \subseteq [history : History, dispatch : BOOLEAN]
  BY <1>5 DEF PushCommit, Enqueue, Event
<1> QED
  BY <1>1, <1>4, <1>6, OthersIInv DEF PushCommit

LEMMA DispatchIInv == IInv /\ Dispatch => IInv'
<1> SUFFICES ASSUME IInv, Dispatch PROVE IInv'
  OBVIOUS
<1>1. pending' \subseteq [history : History, dispatch : BOOLEAN] /\ UNCHANGED <<remote, run>>
  BY DEF Dispatch, Enqueue, Event, IInv, Types
<1> QED
  BY <1>1, OthersIInv DEF remote

LEMMA NextIInv == IInv /\ [Next]_vars => IInv'
<1> SUFFICES ASSUME IInv, [Next]_vars PROVE IInv'
  OBVIOUS
<1>1. CASE StartRun
  BY <1>1, StartRunIInv
<1>2. CASE Plan
  BY <1>2, PlanIInv
<1>3. CASE CheckMain
  BY <1>3, CheckMainIInv
<1>4. CASE Push
  BY <1>4, PushIInv
<1>5. CASE Publish
  BY <1>5, PublishIInv
<1>6. CASE Announce
  BY <1>6, AnnounceIInv
<1>7. CASE Stop
  BY <1>7, StopIInv
<1>8. CASE PushCommit
  BY <1>8, PushCommitIInv
<1>9. CASE Dispatch
  BY <1>9, DispatchIInv
<1>10. CASE UNCHANGED vars
  BY <1>10, OthersIInv DEF vars, IInv, Types
<1> QED
  BY <1>1, <1>2, <1>3, <1>4, <1>5, <1>6, <1>7, <1>8, <1>9, <1>10 DEF Next, Step

LEMMA ReleaseInvariant == Spec => []IInv
  BY InitIInv, NextIInv, PTL DEF Spec

-----------------------------------------------------------------------------
(* No tag is ever off main, however often main moves under a run           *)
(* (release.sh:123, 153).                                                  *)
THEOREM ReleaseTagsAreOnMain == Spec => []TagsAreOnMain
<1>1. IInv => TagsAreOnMain
  BY DEF IInv
<1> QED
  BY <1>1, ReleaseInvariant, PTL

(* A later tag has a version that covers every commit since an earlier     *)
(* one, whatever was set by hand (release.sh:26-60, 75-88).                *)
THEOREM ReleaseVersionsCover == Spec => []VersionsCover
<1>1. IInv => VersionsCover
  BY DEF IInv
<1> QED
  BY <1>1, ReleaseInvariant, PTL

(* crates.io has only what is tagged, under the number its commit bears,   *)
(* and GitHub announces only what crates.io has (release.sh:156-163).      *)
THEOREM ReleasePublishesTags == Spec => []PublishedIsTagged
<1>1. IInv => PublishedIsTagged
  BY DEF IInv
<1> QED
  BY <1>1, ReleaseInvariant, PTL
=============================================================================
