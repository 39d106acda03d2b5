------------------------------ MODULE S3Proofs ------------------------------
(***************************************************************************)
(* Proofs about S3, for any number of connections, transactions and        *)
(* statements.  In mode 1 the object holds a commit, and until uploads     *)
(* fail or statements overlap a recovery brings back the last one that was *)
(* acknowledged.  In modes 2 and 3, until two threads use the buffer at    *)
(* once, no upload that fails or is skipped leaves a hole in the object,   *)
(* and in mode 3 a replay repeats what ran, up to a commit or into a       *)
(* transaction that was open at the last append.                           *)
(***************************************************************************)
EXTENDS S3, Integers, Sequences, FiniteSetTheorems, NaturalsInduction, WellFoundedInduction, TLAPS

(***************************************************************************)
(* Sequences                                                               *)
(***************************************************************************)
\* A sequence, of whatever it holds.
IsSeq(q) == q \in Seq({q[i] : i \in DOMAIN q})

\* Being a sequence does not depend on the set of its members.
LEMMA SeqOfAny == ASSUME NEW S, NEW q \in Seq(S) PROVE IsSeq(q)
<1>1. Len(q) \in Nat /\ q = [i \in 1..Len(q) |-> q[i]] OBVIOUS
<1> QED BY <1>1 DEF IsSeq

\* A sequence of the wanted length.
LEMMA SeqOfLength ==
    ASSUME NEW n \in Nat, NEW q, q = [i \in 1..n |-> q[i]]
    PROVE  IsSeq(q) /\ Len(q) = n
<1> DEFINE S == {q[i] : i \in 1..n}
<1>1. q \in [1..n -> S] OBVIOUS
<1>2. q \in Seq(S) /\ Len(q) = n BY <1>1
<1> QED BY <1>2, SeqOfAny

\* Length and members of a sequence with another one behind it.
LEMMA Joined ==
    ASSUME NEW q, NEW r, IsSeq(q), IsSeq(r)
    PROVE  /\ IsSeq(q \o r) /\ Len(q) \in Nat /\ Len(r) \in Nat /\ Len(q \o r) = Len(q) + Len(r)
           /\ \A i \in 1..Len(q) : (q \o r)[i] = q[i]
           /\ \A i \in 1..Len(r) : (q \o r)[Len(q) + i] = r[i]
<1> DEFINE S == {q[i] : i \in DOMAIN q} \cup {r[i] : i \in DOMAIN r}
<1>1. q \in Seq(S) /\ r \in Seq(S) BY DEF IsSeq
<1> HIDE DEF S
<1>2. q \o r \in Seq(S) BY <1>1
<1>3. IsSeq(q \o r) BY <1>2, SeqOfAny
<1>4. Len(q) \in Nat /\ Len(r) \in Nat /\ Len(q \o r) = Len(q) + Len(r) BY <1>1
<1>5. \A i \in 1..Len(q) : (q \o r)[i] = q[i] BY <1>1
<1>6. \A i \in 1..Len(r) : (q \o r)[Len(q) + i] = r[i] BY <1>1
<1> QED BY <1>3, <1>4, <1>5, <1>6

\* Sequences with the same members are the same.
LEMMA SameSeq ==
    ASSUME NEW q, NEW r, IsSeq(q), IsSeq(r), Len(q) = Len(r), \A i \in 1..Len(q) : q[i] = r[i]
    PROVE  q = r
  BY SMTT(30) DEF IsSeq

\* A member more at the end of a sequence.
LEMMA Appended ==
    ASSUME NEW q, NEW e, IsSeq(q)
    PROVE  /\ IsSeq(Append(q, e)) /\ Len(q) \in Nat /\ Len(Append(q, e)) = Len(q) + 1
           /\ \A i \in 1..Len(q) : Append(q, e)[i] = q[i]
           /\ Append(q, e)[Len(q) + 1] = e
<1> DEFINE S == {q[i] : i \in DOMAIN q} \cup {e}
<1>1. q \in Seq(S) /\ e \in S BY DEF IsSeq
<1> HIDE DEF S
<1>2. Append(q, e) \in Seq(S) BY <1>1
<1>3. IsSeq(Append(q, e)) BY <1>2, SeqOfAny
<1> QED BY <1>1, <1>3

\* It is a sequence of one that is put behind it.
LEMMA AppendedIs == ASSUME NEW q, NEW e, IsSeq(q) PROVE IsSeq(<<e>>) /\ Append(q, e) = q \o <<e>>
<1> DEFINE S == {q[i] : i \in DOMAIN q} \cup {e}
<1>1. q \in Seq(S) /\ <<e>> \in Seq(S) BY DEF IsSeq
<1>2. IsSeq(<<e>>) BY <1>1, SeqOfAny
<1> HIDE DEF S
<1> DEFINE t == Append(q, e)
           u == q \o <<e>>
<1>3. IsSeq(t) /\ Len(t) = Len(q) + 1 /\ (\A i \in 1..Len(q) : t[i] = q[i]) /\ t[Len(q) + 1] = e
  BY Appended
<1>4. /\ IsSeq(u) /\ Len(q) \in Nat /\ Len(u) = Len(q) + 1 /\ (\A i \in 1..Len(q) : u[i] = q[i])
      /\ u[Len(q) + 1] = e
  <2> DEFINE o == <<e>>
  <2>1. Len(o) = 1 /\ o[1] = e /\ 1 \in 1..Len(o) OBVIOUS
  <2>2. IsSeq(o) BY <1>2
  <2> HIDE DEF o, u
  <2>3. /\ IsSeq(q \o o) /\ Len(q) \in Nat /\ Len(q \o o) = Len(q) + Len(o)
        /\ \A i \in 1..Len(q) : (q \o o)[i] = q[i]
        /\ \A i \in 1..Len(o) : (q \o o)[Len(q) + i] = o[i]
    BY <2>2, Joined
  <2>4. u = q \o o BY DEF u, o
  <2> QED BY <2>1, <2>3, <2>4
<1> HIDE DEF t, u
<1>5. \A i \in 1..Len(t) : t[i] = u[i]
  <2>1. \A i \in 1..Len(t) : i \in 1..Len(q) \/ i = Len(q) + 1 BY <1>3, <1>4
  <2> QED BY <1>3, <1>4, <2>1
<1>6. t = u BY <1>3, <1>4, <1>5, SameSeq
<1> QED BY <1>2, <1>6 DEF t, u

\* What it takes to be a prefix, with the IsPrefix of each mode.
LEMMA PrefixIs ==
    ASSUME NEW q, NEW r, IsSeq(q), IsSeq(r), Len(q) <= Len(r), \A i \in 1..Len(q) : q[i] = r[i]
    PROVE  Partial!IsPrefix(q, r) /\ Sql!IsPrefix(q, r)
<1>1. Len(q) \in Nat /\ Len(r) \in Nat BY DEF IsSeq
<1>2. SubSeq(q, 1, Len(q)) = SubSeq(r, 1, Len(q))
  BY <1>1 DEF IsSeq
<1> QED BY <1>2 DEF Partial!IsPrefix, Sql!IsPrefix

(***************************************************************************)
(* Mode 1: frames of a page                                                *)
(***************************************************************************)
\* The newest of the first m frames of page p, and what the page shows over
\* image d.
Newest(fs, m, p) == Snapshot!MaxOf({i \in 1..m : fs[i].pgno = p})
Shown(d, fs, m, p) == LET i == Newest(fs, m, p) IN IF i = 0 THEN d[p] ELSE fs[i].val

\* MaxOf of a bounded set is its largest member, or 0.
LEMMA MaxOfMember ==
    ASSUME NEW n \in Nat, NEW S \in SUBSET (1..n), S # {}
    PROVE  Snapshot!MaxOf(S) \in S /\ \A i \in S : i <= Snapshot!MaxOf(S)
<1> DEFINE T == {n - i : i \in S}
<1>1. T \subseteq Nat /\ T # {}
  <2>1. \A i \in S : i \in 1..n OBVIOUS
  <2>2. \A i \in 1..n : n - i \in Nat OBVIOUS
  <2>3. T \subseteq Nat BY <2>1, <2>2
  <2> QED BY <2>3
<1>2. PICK x \in T : \A z \in T : ~ (<<z, x>> \in OpToRel(<, Nat))
  <2> HIDE DEF T
  <2> QED BY <1>1, NatLessThanWellFounded, WFMin
<1>3. \A z \in T : ~ (z < x) BY <1>1, <1>2 DEF OpToRel
<1>4. PICK m \in S : x = n - m BY <1>2
<1>5. ASSUME NEW i \in S PROVE i <= m
  <2>1. i \in 1..n /\ m \in 1..n BY <1>4
  <2>2. ~ (n - i < n - m) BY <1>3, <1>4
  <2> QED BY <2>1, <2>2
<1> QED BY <1>4, <1>5 DEF Snapshot!MaxOf

\* The newest frame of a page is one of its frames, and the last; or 0.
LEMMA NewestFacts ==
    ASSUME NEW fs, NEW m \in Nat, NEW p
    PROVE  /\ Newest(fs, m, p) \in 0..m
           /\ Newest(fs, m, p) = 0 \/ (Newest(fs, m, p) \in 1..m /\ fs[Newest(fs, m, p)].pgno = p)
           /\ \A i \in 1..m : fs[i].pgno = p => i <= Newest(fs, m, p)
<1> DEFINE S == {i \in 1..m : fs[i].pgno = p}
<1>1. CASE S = {}
  <2>1. Newest(fs, m, p) = 0 BY <1>1 DEF Newest, Snapshot!MaxOf
  <2> QED BY <1>1, <2>1
<1>2. CASE S # {}
  <2>1. Newest(fs, m, p) = Snapshot!MaxOf(S) BY DEF Newest
  <2>2. Snapshot!MaxOf(S) \in S /\ \A i \in S : i <= Snapshot!MaxOf(S) BY <1>2, MaxOfMember
  <2>3. Newest(fs, m, p) \in 1..m BY <2>1, <2>2
  <2> QED BY <2>1, <2>2, <2>3
<1> QED BY <1>1, <1>2

\* That is all there is to know of it.
LEMMA NewestIs ==
    ASSUME NEW fs, NEW m \in Nat, NEW p, NEW j \in 1..m, fs[j].pgno = p,
           \A i \in 1..m : fs[i].pgno = p => i <= j
    PROVE  Newest(fs, m, p) = j
<1> DEFINE k == Newest(fs, m, p)
<1>1. k \in 0..m /\ (k = 0 \/ (k \in 1..m /\ fs[k].pgno = p)) /\ \A i \in 1..m : fs[i].pgno = p => i <= k
  BY NewestFacts
<1> HIDE DEF k
<1>2. j <= k /\ k \in 1..m BY <1>1
<1>3. k <= j BY <1>1, <1>2
<1> QED BY <1>2, <1>3 DEF k

\* A page without frames has none that is newest.
LEMMA NewestNone ==
    ASSUME NEW fs, NEW m \in Nat, NEW p, \A i \in 1..m : fs[i].pgno # p
    PROVE  Newest(fs, m, p) = 0
BY NewestFacts

\* It depends on the first m frames.
SameFrames(fs, gs, m) == \A i \in 1..m : fs[i] = gs[i]
\* Frames that are the same show the same.
LEMMA NewestSame ==
    ASSUME NEW fs, NEW gs, NEW m \in Nat, NEW p, SameFrames(fs, gs, m)
    PROVE  /\ Newest(fs, m, p) = Newest(gs, m, p)
           /\ \A d : Shown(d, fs, m, p) = Shown(d, gs, m, p)
<1>1. {i \in 1..m : fs[i].pgno = p} = {i \in 1..m : gs[i].pgno = p} BY DEF SameFrames
<1>2. Newest(fs, m, p) = Newest(gs, m, p) BY <1>1 DEF Newest
<1>3. Newest(fs, m, p) = 0 \/ Newest(fs, m, p) \in 1..m BY NewestFacts
<1> QED BY <1>2, <1>3 DEF Shown, SameFrames

\* Frames of one version v behind the first k of a log: a page that has one
\* shows v, the others what they did.
OfVersion(gs, k, n, v) == \A i \in (k + 1)..(k + n) : gs[i].val = v
HasPage(gs, k, n, p) == \E i \in (k + 1)..(k + n) : gs[i].pgno = p
\* What the frames behind show.
LEMMA ShownBehind ==
    ASSUME NEW gs, NEW k \in Nat, NEW n \in Nat, NEW p, NEW d, NEW v, OfVersion(gs, k, n, v)
    PROVE  /\ HasPage(gs, k, n, p) => Shown(d, gs, k + n, p) = v /\ Newest(gs, k + n, p) > k
           /\ ~HasPage(gs, k, n, p) =>
                  Shown(d, gs, k + n, p) = Shown(d, gs, k, p) /\ Newest(gs, k + n, p) = Newest(gs, k, p)
<1> DEFINE j == Newest(gs, k + n, p)
           l == Newest(gs, k, p)
<1>0. k + n \in Nat OBVIOUS
<1>1. /\ j = 0 \/ (j \in 1..(k + n) /\ gs[j].pgno = p)
      /\ \A i \in 1..(k + n) : gs[i].pgno = p => i <= j
      /\ j \in 0..(k + n)
  BY <1>0, NewestFacts
<1>2. /\ l = 0 \/ (l \in 1..k /\ gs[l].pgno = p)
      /\ \A i \in 1..k : gs[i].pgno = p => i <= l
  BY NewestFacts
<1>3. ASSUME NEW i \in (k + 1)..(k + n), gs[i].pgno = p PROVE Shown(d, gs, k + n, p) = v /\ j > k
  <2> HIDE DEF j
  <2>1. i <= j BY <1>1, <1>3
  <2>2. j # 0 /\ j \in (k + 1)..(k + n) BY <1>1, <2>1
  <2>3. j > k BY <2>2
  <2> QED BY <2>2, <2>3 DEF Shown, j, OfVersion
<1>4. ASSUME ~(\E i \in (k + 1)..(k + n) : gs[i].pgno = p)
      PROVE  Shown(d, gs, k + n, p) = Shown(d, gs, k, p) /\ j = l
  <2> HIDE DEF j, l
  <2>1. CASE l = 0
    <3>1. \A i \in 1..(k + n) : gs[i].pgno # p
      <4>1. ASSUME NEW i \in 1..(k + n), gs[i].pgno = p PROVE FALSE
        <5>1. i \in 1..k BY <1>4, <4>1
        <5> QED BY <1>2, <2>1, <4>1, <5>1
      <4> QED BY <4>1
    <3>2. j = 0 BY <1>0, <3>1, NewestNone DEF j
    <3> QED BY <2>1, <3>2 DEF Shown, j, l
  <2>2. CASE l # 0
    <3>1. l \in 1..(k + n) /\ gs[l].pgno = p BY <1>2, <2>2
    <3>2. ASSUME NEW i \in 1..(k + n), gs[i].pgno = p PROVE i <= l
      <4>1. i \in 1..k BY <1>4, <3>2
      <4> QED BY <1>2, <3>2, <4>1
    <3>3. j = l BY <1>0, <3>1, <3>2, NewestIs DEF j
    <3> QED BY <3>3 DEF Shown, j, l
  <2> QED BY <2>1, <2>2
<1> QED BY <1>3, <1>4 DEF HasPage

(***************************************************************************)
(* Mode 1: the frames of a commit                                          *)
(***************************************************************************)
\* The rank of a page in a finite set of pages is a bijection to 1..n, which
\* Sorted inverts.
LEMMA SortedPages ==
    ASSUME NEW S \in SUBSET (1..MaxPage), S # {}
    PROVE  /\ Snapshot!Cardinality(S) \in Nat \ {0}
           /\ \A i \in 1..Snapshot!Cardinality(S) : Snapshot!Sorted(S)[i] \in S
           /\ \A p \in S : \E i \in 1..Snapshot!Cardinality(S) : Snapshot!Sorted(S)[i] = p
<1> DEFINE n == Cardinality(S)
           Below(p) == {q \in S : q <= p}
           rank == [p \in S |-> Cardinality(Below(p))]
<1>1. MaxPage \in Nat /\ IsFiniteSet(1..MaxPage)
  <2>1. MaxPage \in Nat BY S3Assumption DEF Snapshot!SnapshotConstants
  <2> QED BY <2>1, FS_Interval
<1>2. IsFiniteSet(S) /\ n \in Nat /\ n # 0
  <2>1. IsFiniteSet(S) BY <1>1, FS_Subset
  <2> QED BY <2>1, FS_CardinalityType, FS_EmptySet
<1>3. \A T : Snapshot!Cardinality(T) = Cardinality(T)
  BY DEF Cardinality, Snapshot!Cardinality, IsFiniteSet, Snapshot!IsFiniteSet
<1>4. \A p \in S : p \in Int BY <1>1
<1>5. ASSUME NEW p \in S PROVE IsFiniteSet(Below(p)) /\ rank[p] \in 1..n
  <2>1. Below(p) \in SUBSET S OBVIOUS
  <2>2. IsFiniteSet(Below(p)) /\ Cardinality(Below(p)) <= n BY <1>2, <2>1, FS_Subset
  <2>3. p \in Below(p) BY <1>4
  <2>4. Cardinality(Below(p)) \in Nat /\ Cardinality(Below(p)) # 0
    BY <2>2, <2>3, FS_CardinalityType, FS_EmptySet
  <2>5. Cardinality(Below(p)) \in 1..n
    <3> DEFINE k == Cardinality(Below(p))
    <3>1. k \in Nat /\ k # 0 /\ k <= n BY <2>2, <2>4
    <3> HIDE DEF k, n
    <3>2. k \in 1..n BY <1>2, <3>1
    <3> QED BY <3>2 DEF k
  <2> HIDE DEF n
  <2> QED BY <2>2, <2>5
<1>6. ASSUME NEW p \in S, NEW q \in S, p < q PROVE rank[p] # rank[q]
  <2>1. Below(p) \in SUBSET Below(q)
    <3>1. ASSUME NEW r \in S, r <= p PROVE r <= q
      <4>1. r \in Int /\ p \in Int /\ q \in Int BY <1>4
      <4> QED BY <1>6, <3>1, <4>1
    <3> QED BY <3>1
  <2>2. q \in Below(q) /\ q \notin Below(p) BY <1>4, <1>6
  <2>3. Cardinality(Below(p)) # Cardinality(Below(q)) BY <1>5, <2>1, <2>2, FS_Subset
  <2> QED BY <2>3
<1>7. ASSUME NEW p \in S, NEW q \in S, rank[p] = rank[q] PROVE p = q
  <2>1. p \in Int /\ q \in Int BY <1>4
  <2>2. ~(p < q) /\ ~(q < p) BY <1>6, <1>7
  <2> QED BY <2>1, <2>2
<1>8. \A p \in S : rank[p] = Cardinality(Below(p)) OBVIOUS
<1> HIDE DEF rank
<1>9. rank \in Injection(S, 1..n)
  <2>1. rank \in [S -> 1..n] BY <1>5 DEF rank
  <2> QED BY <1>7, <2>1 DEF Injection, IsInjective
<1>10. rank \in Surjection(S, 1..n)
  <2>1. IsFiniteSet(1..n) /\ Cardinality(1..n) = n
    <3> HIDE DEF n
    <3> QED BY <1>2, FS_Interval
  <2> QED BY <1>9, <2>1, FS_Injection
<1>11. \A i \in 1..n : \E p \in S : rank[p] = i BY <1>10 DEF Surjection
<1>12. ASSUME NEW i \in 1..n
       PROVE  Snapshot!Sorted(S)[i] \in S /\ rank[Snapshot!Sorted(S)[i]] = i
  <2>1. Snapshot!Sorted(S)[i] = CHOOSE p \in S : Cardinality(Below(p)) = i
    BY <1>3 DEF Snapshot!Sorted
  <2>2. \E p \in S : Cardinality(Below(p)) = i BY <1>8, <1>11
  <2> QED BY <1>8, <2>1, <2>2
<1>13. ASSUME NEW p \in S PROVE \E i \in 1..n : Snapshot!Sorted(S)[i] = p
  <2>1. rank[p] \in 1..n BY <1>5
  <2>2. Snapshot!Sorted(S)[rank[p]] \in S /\ rank[Snapshot!Sorted(S)[rank[p]]] = rank[p] BY <1>12, <2>1
  <2>3. Snapshot!Sorted(S)[rank[p]] = p BY <1>7, <2>2
  <2> QED BY <2>1, <2>3
<1> QED BY <1>2, <1>3, <1>12, <1>13

\* The n frames of a commit of pages S with version v: a frame for each page and
\* for no other, the last one with the commit mark.
IsCommit(c, n, S, v, s) ==
    /\ \A i \in 1..n : c[i].val = v /\ c[i].salt = s /\ c[i].pgno \in S /\ (c[i].commit <=> i = n)
    /\ \A p \in S : \E i \in 1..n : c[i].pgno = p

\* The frames of a commit: one of each page, the last one with the mark.
LEMMA CommitHas ==
    ASSUME NEW S \in WriteSets, NEW v, NEW salt
    PROVE  LET fs == Snapshot!CommitFrames(S, v, salt)
           IN  IsSeq(fs) /\ Len(fs) \in Nat /\ Len(fs) > 0 /\ IsCommit(fs, Len(fs), S, v, salt)
<1> DEFINE n == Snapshot!Cardinality(S)
           fs == Snapshot!CommitFrames(S, v, salt)
<1>1. S \in SUBSET (1..MaxPage) /\ S # {} BY S3Assumption DEF Snapshot!SnapshotConstants
<1>2. /\ n \in Nat \ {0}
      /\ \A i \in 1..n : Snapshot!Sorted(S)[i] \in S
      /\ \A p \in S : \E i \in 1..n : Snapshot!Sorted(S)[i] = p
  BY <1>1, SortedPages
<1> HIDE DEF n
<1>3. fs = [i \in 1..n |-> [pgno |-> Snapshot!Sorted(S)[i], val |-> v, commit |-> i = n, salt |-> salt]]
  BY DEF Snapshot!CommitFrames, n
<1> HIDE DEF fs
<1>4. fs = [i \in 1..n |-> fs[i]] BY <1>3
<1>5. IsSeq(fs) /\ Len(fs) = n BY <1>2, <1>4, SeqOfLength
<1>6. \A i \in 1..n : /\ fs[i].val = v /\ fs[i].salt = salt /\ fs[i].pgno = Snapshot!Sorted(S)[i]
                      /\ fs[i].commit = (i = n)
  BY <1>3
<1>7. n > 0 /\ n \in Nat BY <1>2
<1>8. \A i \in 1..n : /\ fs[i].val = v /\ fs[i].salt = salt /\ fs[i].pgno \in S
                      /\ fs[i].commit <=> i = n
  BY <1>2, <1>6, Zenon
<1>9. \A p \in S : \E i \in 1..n : fs[i].pgno = p BY <1>2, <1>6
<1>10. IsCommit(fs, n, S, v, salt) BY <1>8, <1>9, Zenon DEF IsCommit
<1> QED BY <1>5, <1>7, <1>10 DEF fs

(***************************************************************************)
(* Mode 1: logs and files                                                  *)
(***************************************************************************)
\* A history of images.
Image(d) == d = [p \in Snapshot!Page |-> d[p]]
HistOk(h) == IsSeq(h) /\ Len(h) >= 1 /\ \A v \in 1..Len(h) : Image(h[v])

\* Sequence q is the log that version s of history h begins, if no later one
\* restarts it: over version s - 1 it shows the last version, and up to a
\* commit another one.
LogOf(h, s, q) ==
    /\ \A p \in Snapshot!Page : Shown(h[s - 1], q, Len(q), p) = h[Len(h)][p]
    /\ \A m \in 1..Len(q) : q[m].commit =>
          \E v \in 1..Len(h) : \A p \in Snapshot!Page : Shown(h[s - 1], q, m, p) = h[v][p]
    /\ Len(q) > 0 => q[Len(q)].commit
Salted(q, a, s) == \A i \in 1..a : q[i].salt = s
LogsOk(h, L) ==
    \A s \in Nat : /\ IsSeq(L[s]) /\ Salted(L[s], Len(L[s]), s)
                   /\ s \in 2..(Len(h) + 1) => LogOf(h, s, L[s])
                   /\ s > Len(h) => Len(L[s]) = 0

\* A frame in a file is one of the log of its salt, in its place there; n is
\* the last version.
FramesOk(n, L, fs) ==
    \A i \in 1..Len(fs) : /\ fs[i].salt \in 2..n /\ i <= Len(L[fs[i].salt])
                          /\ fs[i] = L[fs[i].salt][i]
FileOk(n, L, f) ==
    /\ f = [exists |-> f.exists, salt |-> f.salt, frames |-> f.frames]
    /\ f.exists \in BOOLEAN /\ IsSeq(f.frames) /\ (f.salt = 0 \/ f.salt \in 2..n) /\ FramesOk(n, L, f.frames)

\* A file that begins with all of its log.
HasLog(L, f) ==
    f.salt # 0 => /\ Len(L[f.salt]) <= Len(f.frames)
                  /\ SameFrames(f.frames, L[f.salt], Len(L[f.salt]))

\* A commit adds its frames to every log.
Grown(L, M) ==
    \A s \in Nat : /\ Len(L[s]) \in Nat /\ Len(M[s]) \in Nat /\ Len(L[s]) <= Len(M[s])
                   /\ SameFrames(M[s], L[s], Len(L[s]))

\* Frames g are a frames of q and then n of c.
Behind(g, q, a, c, n) == SameFrames(g, q, a) /\ (\A i \in 1..n : g[a + i] = c[i])

Extended(g, q, a, c, n, S, v, s) ==
    /\ a \in Nat /\ n \in Nat /\ n > 0
    /\ Salted(q, a, s) /\ Behind(g, q, a, c, n) /\ IsCommit(c, n, S, v, s)

\* What a log shows with the frames of a commit behind it.
LEMMA FramesBehind ==
    ASSUME NEW q, NEW c, NEW g, NEW a, NEW n, NEW S, NEW v, NEW s, Extended(g, q, a, c, n, S, v, s)
    PROVE  /\ \A i \in 1..(a + n) : g[i].salt = s
           /\ \A p, d : Shown(d, g, a + n, p) = IF p \in S THEN v ELSE Shown(d, q, a, p)
           /\ \A m \in 1..a : \A p, d : Shown(d, g, m, p) = Shown(d, q, m, p)
           /\ \A p : p \in S => Newest(g, a + n, p) > a
           /\ \A p : p \notin S => Newest(g, a + n, p) = Newest(q, a, p)
           /\ \A m \in 1..(a + n) : m \in 1..a \/ m = a + n \/ ~g[m].commit
           /\ g[a + n].commit
<1>0. /\ a \in Nat /\ n \in Nat /\ n > 0
      /\ Salted(q, a, s) /\ Behind(g, q, a, c, n) /\ IsCommit(c, n, S, v, s)
  BY DEF Extended
<1> USE <1>0
<1>1. ASSUME NEW i \in (a + 1)..(a + n) PROVE \E j \in 1..n : i = a + j /\ g[i] = c[j]
  <2>1. i - a \in 1..n /\ i = a + (i - a) OBVIOUS
  <2> QED BY <2>1 DEF Behind
<1>2. \A i \in 1..(a + n) : i \in 1..a \/ i \in (a + 1)..(a + n) OBVIOUS
<1>3. \A i \in (a + 1)..(a + n) : g[i].val = v /\ g[i].pgno \in S /\ g[i].salt = s
  <2>1. ASSUME NEW i \in (a + 1)..(a + n) PROVE g[i].val = v /\ g[i].pgno \in S /\ g[i].salt = s
    <3>1. PICK j \in 1..n : i = a + j /\ g[i] = c[j] BY <1>1, <2>1
    <3>2. c[j].val = v /\ c[j].salt = s /\ c[j].pgno \in S BY DEF IsCommit
    <3> QED BY <3>1, <3>2, Zenon
  <2> QED BY <2>1
<1>v. OfVersion(g, a, n, v) BY <1>3 DEF OfVersion
<1>4. \A i \in 1..(a + n) : g[i].salt = s BY <1>2, <1>3 DEF Behind, Salted, SameFrames
<1>5. ASSUME NEW p, NEW d, p \in S PROVE Shown(d, g, a + n, p) = v /\ Newest(g, a + n, p) > a
  <2>1. PICK i \in 1..n : c[i].pgno = p BY <1>5 DEF IsCommit
  <2>2. a + i \in (a + 1)..(a + n) OBVIOUS
  <2>3. g[a + i].pgno = p BY <2>1 DEF Behind
  <2>4. HasPage(g, a, n, p) BY <2>2, <2>3 DEF HasPage
  <2> QED BY <1>v, <2>4, ShownBehind
<1>6. ASSUME NEW p, NEW d, p \notin S
      PROVE  Shown(d, g, a + n, p) = Shown(d, q, a, p) /\ Newest(g, a + n, p) = Newest(q, a, p)
  <2>1. ~HasPage(g, a, n, p) BY <1>3, <1>6 DEF HasPage
  <2>2. Shown(d, g, a + n, p) = Shown(d, g, a, p) /\ Newest(g, a + n, p) = Newest(g, a, p)
    BY <1>v, <2>1, ShownBehind
  <2>3. Shown(d, g, a, p) = Shown(d, q, a, p) /\ Newest(g, a, p) = Newest(q, a, p)
    <3>1. SameFrames(g, q, a) BY DEF Behind, SameFrames
    <3> QED BY <3>1, NewestSame
  <2> QED BY <2>2, <2>3
<1>7. ASSUME NEW m \in 1..a, NEW p, NEW d PROVE Shown(d, g, m, p) = Shown(d, q, m, p)
  <2>1. m \in Nat /\ \A i \in 1..m : i \in 1..a OBVIOUS
  <2>2. SameFrames(g, q, m) BY <2>1 DEF Behind, SameFrames
  <2> QED BY <2>1, <2>2, NewestSame
<1>8. ASSUME NEW m \in 1..(a + n), m \notin 1..a, g[m].commit PROVE m = a + n
  <2>1. PICK j \in 1..n : m = a + j /\ g[m] = c[j] BY <1>1, <1>2, <1>8
  <2>2. c[j].commit BY <1>8, <2>1
  <2>3. j = n BY <2>2 DEF IsCommit
  <2> QED BY <2>1, <2>3
<1>9. g[a + n].commit
  <2>1. n \in 1..n OBVIOUS
  <2>2. c[n].commit BY <2>1 DEF IsCommit
  <2> QED BY <2>1, <2>2 DEF Behind
<1>10. \A p, d : Shown(d, g, a + n, p) = IF p \in S THEN v ELSE Shown(d, q, a, p) BY <1>5, <1>6
<1>11. \A p : p \in S => Newest(g, a + n, p) > a BY <1>5
<1>12. \A p : p \notin S => Newest(g, a + n, p) = Newest(q, a, p) BY <1>6
<1>13. \A m \in 1..(a + n) : m \in 1..a \/ m = a + n \/ ~g[m].commit BY <1>8
<1>14. \A m \in 1..a : \A p, d : Shown(d, g, m, p) = Shown(d, q, m, p) BY <1>7
<1> QED BY <1>4, <1>9, <1>10, <1>11, <1>12, <1>13, <1>14

\* The history with the version of another commit.
NextVersion(h, v, S, k) ==
    /\ v = Len(h) + 1
    /\ k = Append(h, [p \in Snapshot!Page |-> IF p \in S THEN v ELSE h[v - 1][p]])

\* The history with a version more.
LEMMA HistGrows ==
    ASSUME NEW h, HistOk(h), NEW v, NEW S, NEW k, NextVersion(h, v, S, k)
    PROVE  /\ HistOk(k) /\ Len(h) = v - 1 /\ Len(k) = v /\ v \in Nat /\ v >= 2
           /\ \A i \in 1..(v - 1) : k[i] = h[i]
           /\ \A p \in Snapshot!Page : k[v][p] = IF p \in S THEN v ELSE h[v - 1][p]
<1> DEFINE e == [p \in Snapshot!Page |-> IF p \in S THEN v ELSE h[v - 1][p]]
           u == Len(h)
<1>1. IsSeq(h) /\ u \in Nat /\ u >= 1 /\ (\A i \in 1..u : Image(h[i])) BY Appended DEF HistOk
<1>2. k = Append(h, e) /\ v = u + 1 BY DEF NextVersion
<1>3. Image(e) BY DEF Image
<1> HIDE DEF e
<1>4. IsSeq(k) /\ Len(k) = u + 1 /\ (\A i \in 1..u : k[i] = h[i]) /\ k[u + 1] = e BY <1>1, <1>2, Appended
<1> HIDE DEF u
<1>5. v \in Nat /\ v >= 2 /\ u = v - 1 /\ Len(k) >= 1 BY <1>1, <1>2, <1>4
<1>6. ASSUME NEW i \in 1..Len(k) PROVE Image(k[i])
  <2>1. i \in 1..u \/ i = u + 1 BY <1>1, <1>4
  <2> QED BY <1>1, <1>3, <1>4, <2>1
<1>7. HistOk(k) BY <1>4, <1>5, <1>6 DEF HistOk
<1>8. \A p \in Snapshot!Page : k[v][p] = IF p \in S THEN v ELSE h[v - 1][p] BY <1>2, <1>4 DEF e
<1>9. \A i \in 1..(v - 1) : k[i] = h[i] BY <1>4, <1>5
<1> QED BY <1>2, <1>4, <1>5, <1>7, <1>8, <1>9 DEF u

\* A log with the frames of another commit.
LEMMA LogGrown ==
    ASSUME NEW h, HistOk(h), NEW v, NEW S \in WriteSets, NEW k, NextVersion(h, v, S, k),
           NEW s \in Nat, 2 <= s, s <= v, NEW q, IsSeq(q), LogOf(h, s, q), Salted(q, Len(q), s)
    PROVE  LET c == Snapshot!CommitFrames(S, v, s)
               g == q \o c
           IN  /\ IsSeq(g) /\ LogOf(k, s, g) /\ Salted(g, Len(g), s)
               /\ Len(q) \in Nat /\ Len(c) \in Nat /\ Len(c) > 0 /\ Len(g) = Len(q) + Len(c)
               /\ Behind(g, q, Len(q), c, Len(c)) /\ IsCommit(c, Len(c), S, v, s)
<1> DEFINE c == Snapshot!CommitFrames(S, v, s)
           g == q \o c
           a == Len(q)
           n == Len(c)
<1>1. IsSeq(c) /\ n \in Nat /\ n > 0 /\ IsCommit(c, n, S, v, s)
  BY CommitHas
<1> HIDE DEF c
<1>2. IsSeq(g) /\ a \in Nat /\ Len(g) = a + n /\ Behind(g, q, a, c, n) BY <1>1, Joined DEF Behind, SameFrames
<1>3. /\ Len(h) = v - 1 /\ Len(k) = v /\ v \in Nat /\ v >= 2
      /\ \A i \in 1..(v - 1) : k[i] = h[i]
      /\ \A p \in Snapshot!Page : k[v][p] = IF p \in S THEN v ELSE h[v - 1][p]
  BY HistGrows
<1> DEFINE b == h[s - 1]
<1>4. /\ \A p \in Snapshot!Page : Shown(b, q, a, p) = h[v - 1][p]
      /\ \A m \in 1..a : q[m].commit => \E w \in 1..(v - 1) : \A p \in Snapshot!Page : Shown(b, q, m, p) = h[w][p]
  BY <1>3 DEF LogOf
<1>5. k[s - 1] = b /\ v \in 1..v /\ \A i \in 1..(v - 1) : i \in 1..v BY <1>3
<1> HIDE DEF b, g, a, n
<1>6. /\ \A i \in 1..(a + n) : g[i].salt = s
      /\ \A p : Shown(b, g, a + n, p) = IF p \in S THEN v ELSE Shown(b, q, a, p)
      /\ \A m \in 1..a : \A p : Shown(b, g, m, p) = Shown(b, q, m, p)
      /\ \A m \in 1..(a + n) : m \in 1..a \/ m = a + n \/ ~g[m].commit
      /\ g[a + n].commit
  <2>1. Extended(g, q, a, c, n, S, v, s) BY <1>1, <1>2 DEF Extended, a
  <2> QED BY <2>1, FramesBehind
<1>7. \A p \in Snapshot!Page : Shown(b, g, a + n, p) = k[v][p] BY <1>3, <1>4, <1>6
<1>8. ASSUME NEW m \in 1..(a + n), g[m].commit
      PROVE  \E w \in 1..v : \A p \in Snapshot!Page : Shown(b, g, m, p) = k[w][p]
  <2>1. CASE m = a + n BY <1>5, <1>7, <2>1
  <2>2. CASE m \in 1..a
    <3>1. q[m].commit BY <1>2, <1>8, <2>2 DEF Behind, SameFrames
    <3>2. PICK w \in 1..(v - 1) : \A p \in Snapshot!Page : Shown(b, q, m, p) = h[w][p] BY <1>4, <2>2, <3>1
    <3>3. \A p \in Snapshot!Page : Shown(b, g, m, p) = k[w][p] BY <1>3, <1>6, <2>2, <3>2
    <3> QED BY <1>5, <3>3
  <2> QED BY <1>6, <1>8, <2>1, <2>2
<1>9. LogOf(k, s, g) BY <1>2, <1>3, <1>5, <1>6, <1>7, <1>8 DEF LogOf
<1>10. Salted(g, Len(g), s) BY <1>2, <1>6 DEF Salted
<1> QED BY <1>1, <1>2, <1>9, <1>10 DEF a, n, g, c

\* All logs with the frames of another commit.
WithCommit(L, S, v) ==
    [s \in Nat |-> IF 2 <= s /\ s <= v THEN L[s] \o Snapshot!CommitFrames(S, v, s) ELSE L[s]]

\* Every log with a commit more.
LEMMA LogsGrow ==
    ASSUME NEW h, HistOk(h), NEW L, LogsOk(h, L), NEW v, NEW S \in WriteSets, NEW k, NextVersion(h, v, S, k)
    PROVE  LogsOk(k, WithCommit(L, S, v)) /\ Grown(L, WithCommit(L, S, v))
<1> DEFINE M == WithCommit(L, S, v)
<1>1. Len(h) = v - 1 /\ Len(k) = v /\ v \in Nat /\ v >= 2 BY HistGrows
<1>2. ASSUME NEW s \in Nat
      PROVE  /\ IsSeq(M[s]) /\ Salted(M[s], Len(M[s]), s)
             /\ s \in 2..(v + 1) => LogOf(k, s, M[s])
             /\ s > v => Len(M[s]) = 0
             /\ Len(L[s]) \in Nat /\ Len(M[s]) \in Nat /\ Len(L[s]) <= Len(M[s])
             /\ SameFrames(M[s], L[s], Len(L[s]))
  <2>1. /\ IsSeq(L[s]) /\ Salted(L[s], Len(L[s]), s)
        /\ s \in 2..((v - 1) + 1) => LogOf(h, s, L[s])
        /\ s > v - 1 => Len(L[s]) = 0
    BY <1>1 DEF LogsOk
  <2>2. CASE 2 <= s /\ s <= v
    <3> DEFINE q == L[s]
               c == Snapshot!CommitFrames(S, v, s)
               g == q \o c
    <3>1. M[s] = g BY <2>2 DEF WithCommit
    <3>2. LogOf(h, s, q) /\ IsSeq(q) /\ Salted(q, Len(q), s) BY <1>1, <2>1, <2>2
    <3> HIDE DEF q
    <3>3. /\ IsSeq(g) /\ LogOf(k, s, g) /\ Salted(g, Len(g), s)
          /\ Len(q) \in Nat /\ Len(c) \in Nat /\ Len(c) > 0 /\ Len(g) = Len(q) + Len(c)
          /\ Behind(g, q, Len(q), c, Len(c))
      BY <2>2, <3>2, LogGrown
    <3>4. ~(s > v) BY <1>1, <2>2
    <3> HIDE DEF c, g
    <3>5. Len(g) \in Nat /\ Len(q) <= Len(g) BY <3>3
    <3>6. SameFrames(g, q, Len(q)) BY <3>3 DEF Behind
    <3> QED BY <3>1, <3>3, <3>4, <3>5, <3>6 DEF q
  <2>3. CASE ~(2 <= s /\ s <= v)
    <3>1. M[s] = L[s] BY <2>3 DEF WithCommit
    <3>2. s \in 2..(v + 1) => s = v + 1 BY <1>1, <2>3
    <3>3. ASSUME s = v + 1 PROVE LogOf(k, s, L[s])
      <4>1. Len(L[s]) = 0 BY <1>1, <2>1, <3>3
      <4>2. \A p : Newest(L[s], 0, p) = 0
        <5>1. 0 \in Nat /\ \A p : \A i \in 1..0 : L[s][i].pgno # p OBVIOUS
        <5> QED BY <5>1, NewestNone
      <4>3. \A p : Shown(k[s - 1], L[s], 0, p) = k[s - 1][p] BY <4>2 DEF Shown
      <4>4. s - 1 = v BY <1>1, <3>3
      <4> QED BY <1>1, <4>1, <4>3, <4>4 DEF LogOf
    <3>4. Len(L[s]) \in Nat BY <2>1 DEF IsSeq
    <3>5. s > v => s > v - 1 BY <1>1
    <3>6. SameFrames(L[s], L[s], Len(L[s])) BY DEF SameFrames
    <3>7. Len(L[s]) <= Len(L[s])
      <4> DEFINE a == Len(L[s])
      <4>1. a \in Nat BY <3>4
      <4> HIDE DEF a
      <4>2. a <= a BY <4>1
      <4> QED BY <4>2 DEF a
    <3> QED BY <2>1, <3>1, <3>2, <3>3, <3>4, <3>5, <3>6, <3>7
  <2> QED BY <2>2, <2>3
<1>3. LogsOk(k, M) BY <1>1, <1>2 DEF LogsOk
<1>4. Grown(L, M) BY <1>2 DEF Grown
<1> QED BY <1>3, <1>4

\* A file that no commit has changed.
LEMMA FramesGrow ==
    ASSUME NEW L, NEW M, Grown(L, M), NEW n \in Nat, NEW v \in Nat, n <= v, NEW fs, FramesOk(n, L, fs), IsSeq(fs)
    PROVE  FramesOk(v, M, fs)
<1>1. ASSUME NEW i \in 1..Len(fs)
      PROVE  /\ fs[i].salt \in 2..v /\ i <= Len(M[fs[i].salt])
             /\ fs[i] = M[fs[i].salt][i]
  <2> DEFINE s == fs[i].salt
             a == Len(L[s])
             b == Len(M[s])
  <2>1. s \in 2..n /\ i <= a /\ fs[i] = L[s][i] BY DEF FramesOk
  <2>2. s \in Nat /\ s \in 2..v BY <2>1
  <2>3. a \in Nat /\ b \in Nat /\ a <= b /\ SameFrames(M[s], L[s], a) BY <2>2 DEF Grown
  <2>4. i \in Nat /\ i >= 1
    <3>1. Len(fs) \in Nat BY DEF IsSeq
    <3> QED BY <3>1
  <2> HIDE DEF a, b
  <2>5. i \in 1..a /\ i <= b BY <2>1, <2>3, <2>4
  <2>6. M[s][i] = L[s][i] BY <2>3, <2>5 DEF SameFrames
  <2> QED BY <2>1, <2>2, <2>5, <2>6 DEF b
<1> QED BY <1>1 DEF FramesOk

\* So it is for files.
LEMMA FileGrows ==
    ASSUME NEW L, NEW M, Grown(L, M), NEW n \in Nat, NEW v \in Nat, n <= v, NEW f, FileOk(n, L, f)
    PROVE  FileOk(v, M, f)
<1>1. FramesOk(v, M, f.frames) BY FramesGrow DEF FileOk
<1>2. f.salt \in 2..n => f.salt \in 2..v OBVIOUS
<1> QED BY <1>1, <1>2 DEF FileOk

(***************************************************************************)
(* Mode 1: what a file shows                                               *)
(***************************************************************************)
\* What recovery finds in a file is a commit of its log,
LEMMA LastCommitFacts ==
    ASSUME NEW n, NEW L, NEW f, FileOk(n, L, f), NEW m, m = Snapshot!LastCommit(f)
    PROVE  /\ m \in 0..Len(f.frames) /\ Len(f.frames) \in Nat /\ m \in Nat
           /\ m # 0 => /\ f.salt # 0 /\ m \in 1..Len(f.frames) /\ f.frames[m].commit /\ Salted(f.frames, m, f.salt)
           /\ \A i \in 1..Len(f.frames) :
                 f.salt # 0 /\ f.frames[i].commit /\ Salted(f.frames, i, f.salt) => i <= m
<1> DEFINE z == Len(f.frames)
           T == {i \in 1..z : /\ f.salt # 0 /\ f.frames[i].commit
                              /\ \A j \in 1..i : f.frames[j].salt = f.salt}
<1>1. z \in Nat BY DEF FileOk, IsSeq
<1>2. m = Snapshot!MaxOf(T) BY DEF Snapshot!LastCommit
<1>3. \A i : i \in T <=> i \in 1..z /\ f.salt # 0 /\ f.frames[i].commit /\ Salted(f.frames, i, f.salt)
  BY DEF Salted
<1> HIDE DEF T, z
<1>4. CASE T = {}
  <2>1. m = 0 BY <1>2, <1>4 DEF Snapshot!MaxOf
  <2> QED BY <1>1, <1>3, <1>4, <2>1 DEF z
<1>5. CASE T # {}
  <2>1. T \in SUBSET (1..z) BY <1>3
  <2>2. m \in T /\ \A i \in T : i <= m BY <1>1, <1>2, <1>5, <2>1, MaxOfMember
  <2>3. m \in 1..z /\ m \in 0..z /\ m \in Nat BY <1>1, <2>1, <2>2
  <2> QED BY <1>1, <1>3, <2>2, <2>3 DEF z
<1> QED BY <1>4, <1>5

\* whose frames the file has.
LEMMA PrefixOfLog ==
    ASSUME NEW n, NEW L, NEW f, FileOk(n, L, f), NEW m \in Nat, m # 0, m <= Len(f.frames),
           f.salt # 0, Salted(f.frames, m, f.salt)
    PROVE  m <= Len(L[f.salt]) /\ SameFrames(f.frames, L[f.salt], m)
<1> DEFINE z == Len(f.frames)
           s == f.salt
<1>1. z \in Nat BY DEF FileOk, IsSeq
<1>2. ASSUME NEW i \in 1..m PROVE i <= Len(L[s]) /\ f.frames[i] = L[s][i]
  <2>1. i \in 1..z
    <3>1. m <= z OBVIOUS
    <3> HIDE DEF z
    <3> QED BY <1>1, <3>1
  <2>2. f.frames[i].salt = s BY DEF Salted
  <2> QED BY <2>1, <2>2 DEF FileOk, FramesOk
<1>3. m \in 1..m OBVIOUS
<1> QED BY <1>2, <1>3 DEF SameFrames

\* A connection that opens the files sees each page as Shown says.
LEMMA OpenedIs ==
    ASSUME NEW d, Image(d), NEW f
    PROVE  /\ Image(Snapshot!Opened(d, f))
           /\ \A p \in Snapshot!Page : Snapshot!Opened(d, f)[p] = Shown(d, f.frames, Snapshot!LastCommit(f), p)
<1>1. DOMAIN d = Snapshot!Page BY DEF Image
<1> DEFINE m == Snapshot!LastCommit(f)
<1> HIDE DEF m
<1>2. Snapshot!Opened(d, f) = [p \in Snapshot!Page |-> Shown(d, f.frames, m, p)]
  BY <1>1 DEF Snapshot!Opened, Snapshot!Applied, Snapshot!NewestFrame, Shown, Newest, m
<1> QED BY <1>2 DEF Image, m

\* Images with the same pages are the same.
LEMMA SameImage ==
    ASSUME NEW d, NEW e, Image(d), Image(e), \A p \in Snapshot!Page : d[p] = e[p]
    PROVE  d = e
<1>1. d = [p \in Snapshot!Page |-> d[p]] /\ e = [p \in Snapshot!Page |-> e[p]] BY DEF Image
<1>2. [p \in Snapshot!Page |-> d[p]] = [p \in Snapshot!Page |-> e[p]] OBVIOUS
<1> QED BY <1>1, <1>2, Zenon

\* A file shows a version over the one that its log began with.
LEMMA FileIsVersion ==
    ASSUME NEW h, HistOk(h), NEW L, LogsOk(h, L), NEW f, FileOk(Len(h), L, f), f.salt # 0
    PROVE  \E v \in 1..Len(h) : Snapshot!Opened(h[f.salt - 1], f) = h[v]
<1> DEFINE s == f.salt
           b == h[s - 1]
           m == Snapshot!LastCommit(f)
           u == Len(h)
<1>1. u \in Nat /\ u >= 1 BY DEF HistOk, IsSeq
<1>2. s \in 2..u BY DEF FileOk
<1> HIDE DEF s, m, u
<1>3. s \in Nat /\ s - 1 \in 1..u /\ s \in 2..(u + 1) BY <1>1, <1>2
<1>4. Image(b) BY <1>3 DEF HistOk, u
<1>5. LogOf(h, s, L[s]) BY <1>3 DEF LogsOk, u
<1> HIDE DEF b
<1>6. /\ Image(Snapshot!Opened(b, f))
      /\ \A p \in Snapshot!Page : Snapshot!Opened(b, f)[p] = Shown(b, f.frames, m, p)
  BY <1>4, OpenedIs DEF m
<1>7. /\ m \in 0..Len(f.frames) /\ Len(f.frames) \in Nat /\ m \in Nat
      /\ m # 0 => f.salt # 0 /\ m \in 1..Len(f.frames) /\ f.frames[m].commit /\ Salted(f.frames, m, f.salt)
  BY LastCommitFacts DEF m
<1>8. CASE m = 0
  <2>1. \A p : Newest(f.frames, 0, p) = 0
    <3>1. 0 \in Nat /\ \A p : \A i \in 1..0 : f.frames[i].pgno # p OBVIOUS
    <3> QED BY <3>1, NewestNone
  <2>2. \A p \in Snapshot!Page : Snapshot!Opened(b, f)[p] = b[p] BY <1>6, <1>8, <2>1 DEF Shown
  <2>3. Snapshot!Opened(b, f) = b BY <1>4, <1>6, <2>2, SameImage
  <2> QED BY <1>3, <2>3 DEF b, s, u
<1>9. CASE m # 0
  <2>0. m \in 1..Len(f.frames) /\ f.frames[m].commit /\ m <= Len(f.frames) /\ m >= 1
    BY <1>7, <1>9
  <2>1. m <= Len(L[s]) /\ SameFrames(f.frames, L[s], m) BY <1>7, <1>9, <2>0, PrefixOfLog DEF s
  <2>2. m \in 1..Len(L[s])
    <3>1. Len(L[s]) \in Nat BY <1>3 DEF LogsOk, IsSeq
    <3> DEFINE a == Len(L[s])
    <3>2. a \in Nat /\ m <= a BY <2>1, <3>1
    <3> HIDE DEF a
    <3>3. m \in 1..a BY <1>7, <1>9, <3>2
    <3> QED BY <3>3 DEF a
  <2>3. m \in 1..m BY <1>7, <1>9
  <2>4. L[s][m].commit BY <2>0, <2>1, <2>3 DEF SameFrames
  <2>5. PICK v \in 1..u : \A p \in Snapshot!Page : Shown(b, L[s], m, p) = h[v][p]
    BY <1>5, <2>2, <2>4 DEF LogOf, b, u
  <2>6. \A p \in Snapshot!Page : Shown(b, f.frames, m, p) = Shown(b, L[s], m, p) BY <1>7, <2>1, NewestSame
  <2>7. \A p \in Snapshot!Page : Snapshot!Opened(b, f)[p] = h[v][p] BY <1>6, <2>5, <2>6
  <2>8. Image(h[v]) BY <2>5 DEF HistOk, u
  <2>9. Snapshot!Opened(b, f) = h[v] BY <1>6, <2>7, <2>8, SameImage
  <2> QED BY <2>9 DEF b, s, u
<1> QED BY <1>8, <1>9

\* In a file with all of its log recovery finds the last commit.
LEMMA WholeLog ==
    ASSUME NEW h, HistOk(h), NEW L, LogsOk(h, L), NEW f, FileOk(Len(h), L, f), HasLog(L, f)
    PROVE  Snapshot!LastCommit(f) = IF f.salt = 0 THEN 0 ELSE Len(L[f.salt])
<1> DEFINE s == f.salt
           m == Snapshot!LastCommit(f)
           z == Len(f.frames)
           a == Len(L[s])
<1>1. /\ m \in 0..z /\ z \in Nat /\ m \in Nat
      /\ m # 0 => s # 0 /\ m \in 1..z /\ Salted(f.frames, m, s)
      /\ \A i \in 1..z : s # 0 /\ f.frames[i].commit /\ Salted(f.frames, i, s) => i <= m
  BY LastCommitFacts
<1>2. CASE s = 0
  <2> HIDE DEF m
  <2>1. m = 0 BY <1>1, <1>2
  <2> QED BY <1>2, <2>1 DEF m
<1>3. CASE s # 0
  <2>1. s \in 2..Len(h) /\ Len(h) \in Nat BY <1>3 DEF FileOk, HistOk, IsSeq
  <2>2. s \in Nat /\ s \in 2..(Len(h) + 1)
    <3> DEFINE u == Len(h)
    <3>1. s \in 2..u /\ u \in Nat BY <2>1
    <3> HIDE DEF u, s
    <3>2. s \in Nat /\ s \in 2..(u + 1) BY <3>1
    <3> QED BY <3>2 DEF u
  <2>3. /\ a \in Nat /\ Salted(L[s], a, s) /\ (a > 0 => L[s][a].commit)
    <3>1. IsSeq(L[s]) /\ Salted(L[s], Len(L[s]), s) /\ LogOf(h, s, L[s]) BY <2>2 DEF LogsOk
    <3> QED BY <3>1 DEF IsSeq, LogOf
  <2>4. a <= z /\ SameFrames(f.frames, L[s], a) BY <1>3 DEF HasLog
  <2>5. m # 0 => m <= a
    <3>1. ASSUME m # 0 PROVE m <= a
      <4>1. m \in Nat /\ m <= z
        <5> HIDE DEF m, z
        <5> QED BY <1>1
      <4> QED BY <1>1, <1>3, <3>1, <4>1, PrefixOfLog
    <3> QED BY <3>1
  <2> HIDE DEF m, z, a
  <2>6. a # 0 => a <= m
    <3>1. ASSUME a # 0 PROVE a <= m
      <4>1. a \in 1..z /\ a \in 1..a /\ a > 0 BY <1>1, <2>3, <2>4, <3>1
      <4>2. f.frames[a].commit BY <2>3, <2>4, <4>1 DEF SameFrames
      <4>3. Salted(f.frames, a, s) BY <2>3, <2>4 DEF Salted, SameFrames
      <4> QED BY <1>1, <1>3, <4>1, <4>2, <4>3
    <3> QED BY <3>1
  <2>7. m = a BY <1>1, <2>3, <2>5, <2>6
  <2> QED BY <1>3, <2>7 DEF m, a
<1> QED BY <1>2, <1>3

\* The WAL file after a commit, behind its log or from its beginning.
LEMMA WrittenOk ==
    ASSUME NEW L, NEW M, Grown(L, M), NEW n \in Nat, NEW v \in Nat, n <= v, NEW f, FileOk(n, L, f),
           NEW s \in Nat, 2 <= s, s <= v, NEW c, IsSeq(c), NEW a \in Nat, a <= Len(f.frames),
           SameFrames(f.frames, L[s], a), Behind(M[s], L[s], a, c, Len(c)),
           IsSeq(M[s]), Len(M[s]) = a + Len(c), Salted(M[s], Len(M[s]), s)
    PROVE  LET w == Snapshot!Written(f, s, a, c)
           IN  /\ FileOk(v, M, w) /\ HasLog(M, w) /\ w.salt = s /\ w.exists
               /\ SameFrames(w.frames, M[s], Len(M[s]))
<1> DEFINE b == Len(c)
           z == Len(f.frames)
           t == a + b
           y == IF t > z THEN t ELSE z
           fs == [i \in 1..y |-> IF a < i /\ i <= t THEN c[i - a] ELSE f.frames[i]]
           w == Snapshot!Written(f, s, a, c)
<1>1. b \in Nat /\ z \in Nat BY DEF FileOk, IsSeq
<1>2. w = [exists |-> TRUE, salt |-> s, frames |-> fs] BY DEF Snapshot!Written, Snapshot!File
<1>3. a <= z /\ Len(M[s]) = t /\ Behind(M[s], L[s], a, c, b) OBVIOUS
<1>4. FramesOk(v, M, f.frames) BY FramesGrow DEF FileOk
<1> HIDE DEF b, z, w, fs
<1>5. y \in Nat /\ t \in Nat /\ t <= y /\ z <= y /\ (y = t \/ y = z) BY <1>1, <1>3
<1> HIDE DEF y, t
<1>6. fs = [i \in 1..y |-> fs[i]] BY DEF fs
<1>7. IsSeq(fs) /\ Len(fs) = y BY <1>5, <1>6, SeqOfLength
<1>8. ASSUME NEW i \in 1..t PROVE fs[i] = M[s][i]
  <2>1. i \in 1..y /\ i \in Nat BY <1>5
  <2>2. CASE a < i
    <3>1. fs[i] = c[i - a] BY <1>1, <1>5, <1>8, <2>1, <2>2 DEF fs
    <3>2. i - a \in 1..b /\ a + (i - a) = i BY <1>1, <1>8, <2>1, <2>2 DEF t
    <3>3. M[s][a + (i - a)] = c[i - a] BY <1>3, <3>2 DEF Behind
    <3> QED BY <3>1, <3>2, <3>3
  <2>3. CASE ~(a < i)
    <3>1. fs[i] = f.frames[i] BY <2>1, <2>3 DEF fs
    <3>2. i \in 1..a BY <2>1, <2>3
    <3>3. f.frames[i] = L[s][i] BY <3>2 DEF SameFrames
    <3>4. M[s][i] = L[s][i] BY <1>3, <3>2 DEF Behind, SameFrames
    <3> QED BY <3>1, <3>3, <3>4
  <2> QED BY <2>2, <2>3
<1>9. SameFrames(fs, M[s], t) BY <1>8 DEF SameFrames
<1>10. ASSUME NEW i \in 1..y
       PROVE  fs[i].salt \in 2..v /\ i <= Len(M[fs[i].salt]) /\ fs[i] = M[fs[i].salt][i]
  <2>1. CASE i \in 1..t
    <3>1. fs[i] = M[s][i] BY <1>8, <2>1
    <3>2. M[s][i].salt = s BY <1>3, <2>1 DEF Salted
    <3>3. s \in 2..v /\ i <= t BY <1>5, <2>1
    <3> QED BY <1>3, <3>1, <3>2, <3>3
  <2>2. CASE i \notin 1..t
    <3>1. i \in 1..z /\ ~(i <= t) BY <1>1, <1>5, <2>2
    <3>2. fs[i] = f.frames[i] BY <1>10, <3>1 DEF fs
    <3>3. /\ f.frames[i].salt \in 2..v /\ i <= Len(M[f.frames[i].salt])
          /\ f.frames[i] = M[f.frames[i].salt][i]
      BY <1>4, <3>1 DEF FramesOk, z
    <3> QED BY <3>2, <3>3
  <2> QED BY <2>1, <2>2
<1>11. FramesOk(v, M, fs) BY <1>7, <1>10 DEF FramesOk
<1>12. w.exists = TRUE /\ w.salt = s /\ w.frames = fs BY <1>2
<1>13. FileOk(v, M, w)
  <2>1. s \in 2..v OBVIOUS
  <2> QED BY <1>2, <1>7, <1>11, <1>12, <2>1 DEF FileOk
<1>14. HasLog(M, w) BY <1>3, <1>5, <1>7, <1>9, <1>12 DEF HasLog
<1> QED BY <1>3, <1>9, <1>12, <1>13, <1>14 DEF w

(***************************************************************************)
(* Mode 1: the invariant                                                   *)
(***************************************************************************)
\* For some logs L, the files hold frames of them, the WAL file all of its own.
WalOk(L) ==
    /\ FileOk(Len(hist), L, wal) /\ HasLog(L, wal)
    /\ mxFrame = IF wal.salt = 0 THEN 0 ELSE Len(L[wal.salt])
BodyOk(L) ==
    \A c \in Conn : pc[c] \in {"uploading", "sent"} =>
        FileOk(Len(hist), L, body[c].file) /\ body[c].got \in 0..Len(body[c].file.frames)
FilesOk(L) ==
    /\ HistOk(hist) /\ LogsOk(hist, L) /\ FileOk(Len(hist), L, object)
    /\ rec = "off" => WalOk(L) /\ BodyOk(L)

\* While statements do not overlap: one of them runs, and it finds the WAL file
\* as it left it; a page that is not in the log, or is copied, is that of the
\* last version.
Busy ==
    /\ \A c, d \in Conn : c # d => pc[c] = "idle" \/ pc[d] = "idle"
    /\ \A c \in Conn : todo[c] # {} => pc[c] \in {"ckpt", "pragma"} /\ mxSafeFrame[c] = mxFrame
    /\ \A c \in Conn : \A p \in todo[c] : p \in Snapshot!Page /\ Newest(wal.frames, mxFrame, p) > 0
    /\ \A c \in Conn : pc[c] \in {"uploading", "sent"} => body[c].file = wal
    /\ nBackfill <= mxFrame
LastShown(p) == db[p] = hist[Len(hist)][p]
DbShows ==
    \A p \in Snapshot!Page :
        \/ Newest(wal.frames, mxFrame, p) <= nBackfill
        \/ \E c \in Conn : todo[c] # {} /\ p \notin todo[c]
        => LastShown(p)

\* While uploads do not fail either: unless a statement is about to upload it,
\* the object is the WAL file, or shows the last version if there is none.
UploadPCs == {"upload", "uploading", "sent"}
ShowsLast(f) == \A p \in Snapshot!Page : Shown(db, f.frames, Snapshot!LastCommit(f), p) = hist[Len(hist)][p]
Uploaded(L) ==
    /\ object.exists => ShowsLast(object)
    /\ wal.salt # 0 => object.exists /\ object.salt = wal.salt /\ HasLog(L, object)
Fresh(L) ==
    /\ ~wal.exists => wal.salt = 0
    /\ ~wal.exists \/ (\A c \in Conn : pc[c] \notin UploadPCs) => Uploaded(L)

\* What a recovery would give back, and what the script has done of it.
Acked ==
    /\ acked \in 1..Len(hist) /\ \A c \in Conn : version[c] \in 0..Len(hist)
    /\ object.exists => \E v \in acked..Len(hist) : Snapshot!Opened(db, object) = hist[v]
Script ==
    /\ rec = "checkpoint" => wal = object /\ object.exists
    /\ rec = "cleanup" \/ (rec = "done" /\ result) => object.exists /\ db = Snapshot!Opened(db, object)
AckedOk(L) ==
    /\ Image(db) /\ Script
    /\ ~failed /\ ~overlap => Acked /\ (rec = "off" => Busy /\ DbShows /\ Fresh(L))

SnapshotTypes ==
    /\ pc = [c \in Conn |-> pc[c]] /\ body = [c \in Conn |-> body[c]] /\ todo = [c \in Conn |-> todo[c]]
    /\ version = [c \in Conn |-> version[c]] /\ mxSafeFrame = [c \in Conn |-> mxSafeFrame[c]]
    /\ nBackfill \in Nat /\ mxFrame \in Nat /\ (\A c \in Conn : mxSafeFrame[c] \in Nat)
    /\ failed \in BOOLEAN /\ overlap \in BOOLEAN
    /\ \A c \in Conn : body[c] = [file |-> body[c].file, got |-> body[c].got]
SnapshotInv == SnapshotTypes /\ \E L : FilesOk(L) /\ AckedOk(L)

\* Steps that leave the files and the log alone.
LEMMA FilesKept ==
    ASSUME NEW L, FilesOk(L), UNCHANGED <<hist, object, wal, mxFrame, body, rec>>,
           \A c \in Conn : pc'[c] \in {"uploading", "sent"} => pc[c] \in {"uploading", "sent"}
    PROVE  FilesOk(L)'
<1>1. WalOk(L) => WalOk(L)' BY DEF WalOk
<1>2. BodyOk(L) => BodyOk(L)' BY DEF BodyOk
<1> QED BY <1>1, <1>2 DEF FilesOk

\* Steps of the script.
LEMMA FilesLeft ==
    ASSUME NEW L, FilesOk(L), UNCHANGED <<hist, object>>, rec' # "off"
    PROVE  FilesOk(L)'
BY DEF FilesOk

\* The WAL file is emptied or deleted.
LEMMA FilesEmptied ==
    ASSUME NEW L, FilesOk(L), rec = "off", UNCHANGED <<hist, object, body, rec>>, mxFrame' = 0,
           wal' = Snapshot!EmptyFile \/ wal' = Snapshot!NoFile,
           \A c \in Conn : pc'[c] \in {"uploading", "sent"} => pc[c] \in {"uploading", "sent"}
    PROVE  FilesOk(L)'
<1>1. BodyOk(L)' BY DEF FilesOk, BodyOk
<1>2. /\ wal'.salt = 0 /\ wal'.frames = <<>> /\ wal'.exists \in BOOLEAN
      /\ wal' = [exists |-> wal'.exists, salt |-> wal'.salt, frames |-> wal'.frames]
  <2>1. PICK b \in BOOLEAN : wal' = [exists |-> b, salt |-> 0, frames |-> <<>>]
    BY DEF Snapshot!EmptyFile, Snapshot!NoFile, Snapshot!File
  <2>2. wal'.salt = 0 /\ wal'.frames = <<>> /\ wal'.exists = b BY <2>1
  <2> QED BY <2>1, <2>2
<1>3. IsSeq(<<>>) /\ Len(<<>>) = 0
  <2>1. <<>> \in Seq(Nat) OBVIOUS
  <2> QED BY <2>1, SeqOfAny
<1>4. FileOk(Len(hist), L, wal') BY <1>2, <1>3 DEF FileOk, FramesOk
<1>5. WalOk(L)' BY <1>2, <1>4 DEF WalOk, HasLog
<1> QED BY <1>1, <1>5 DEF FilesOk

\* An upload begins,
LEMMA FilesUploadStart ==
    ASSUME NEW L, SnapshotTypes, FilesOk(L), NEW c \in Conn, Snapshot!UploadStart(c)
    PROVE  FilesOk(L)'
<1>1. /\ rec = "off" /\ UNCHANGED <<hist, object, wal, mxFrame, rec>>
      /\ pc' = [pc EXCEPT ![c] = "uploading"]
  BY DEF Snapshot!UploadStart, Snapshot!Running, Snapshot!Goto, Snapshot!fileVars, Snapshot!shmVars, Snapshot!recVars
<1>2. PICK k \in 0..Len(wal.frames) : body' = [body EXCEPT ![c] = [file |-> wal, got |-> k]]
  BY DEF Snapshot!UploadStart
<1>3. /\ body'[c].file = wal /\ body'[c].got = k /\ \A d \in Conn : d # c => body'[d] = body[d] /\ pc'[d] = pc[d]
  BY <1>1, <1>2 DEF SnapshotTypes
<1>4. WalOk(L) /\ BodyOk(L) BY <1>1 DEF FilesOk
<1>5. WalOk(L)' BY <1>1, <1>4 DEF WalOk
<1>6. BodyOk(L)' BY <1>1, <1>2, <1>3, <1>4 DEF BodyOk, WalOk
<1> QED BY <1>1, <1>5, <1>6 DEF FilesOk

\* goes on with what is then in the file,
LEMMA FilesUploadRest ==
    ASSUME NEW L, SnapshotTypes, FilesOk(L), NEW c \in Conn, Snapshot!UploadRest(c)
    PROVE  FilesOk(L)'
<1>1. /\ rec = "off" /\ UNCHANGED <<hist, object, wal, mxFrame, rec>> /\ pc[c] = "uploading"
      /\ pc' = [pc EXCEPT ![c] = "sent"] /\ body' = [body EXCEPT ![c].file = Snapshot!Body(c)]
  BY DEF Snapshot!UploadRest, Snapshot!Running, Snapshot!Goto, Snapshot!fileVars, Snapshot!shmVars, Snapshot!recVars
<1>4. WalOk(L) /\ BodyOk(L) BY <1>1 DEF FilesOk
<1>5. WalOk(L)' BY <1>1, <1>4 DEF WalOk
<1> DEFINE f == body[c].file
           k == body[c].got
           n == Len(wal.frames)
           y == IF n > k THEN n ELSE k
           fs == [i \in 1..y |-> IF i <= k THEN f.frames[i] ELSE wal.frames[i]]
           g == [exists |-> f.exists, salt |-> f.salt, frames |-> fs]
           u == Len(hist)
           z == Len(f.frames)
<1>6. FileOk(u, L, f) /\ k \in 0..z /\ FileOk(u, L, wal) BY <1>1, <1>4 DEF BodyOk, WalOk
<1>7. n \in Nat /\ z \in Nat BY <1>6 DEF FileOk, IsSeq
<1>8. Snapshot!Body(c) = g
  <2>1. f = [exists |-> f.exists, salt |-> f.salt, frames |-> f.frames] BY <1>6 DEF FileOk
  <2>2. Snapshot!Body(c) = [f EXCEPT !.frames = fs] BY DEF Snapshot!Body
  <2> HIDE DEF fs, f
  <2>3. [f EXCEPT !.frames = fs] = [exists |-> f.exists, salt |-> f.salt, frames |-> fs] BY <2>1
  <2> QED BY <2>2, <2>3
<1>9. body'[c].file = g /\ body'[c].got = k /\ \A d \in Conn : d # c => body'[d] = body[d] /\ pc'[d] = pc[d]
  <2> HIDE DEF g
  <2>1. body[c] = [file |-> body[c].file, got |-> body[c].got] BY DEF SnapshotTypes
  <2> QED BY <1>1, <1>8, <2>1 DEF SnapshotTypes
<1> HIDE DEF f, k, n, fs, u, z
<1>10. y \in Nat /\ k \in Nat /\ k <= y /\ k <= z /\ (y = k \/ y = n) BY <1>6, <1>7
<1> HIDE DEF y
<1>11. fs = [i \in 1..y |-> fs[i]] BY DEF fs
<1>12. IsSeq(fs) /\ Len(fs) = y BY <1>10, <1>11, SeqOfLength
<1>13. ASSUME NEW i \in 1..y
       PROVE  fs[i].salt \in 2..u /\ i <= Len(L[fs[i].salt]) /\ fs[i] = L[fs[i].salt][i]
  <2>1. CASE i <= k
    <3>1. i \in 1..z BY <1>7, <1>10, <2>1
    <3>2. fs[i] = f.frames[i] BY <2>1 DEF fs
    <3> QED BY <1>6, <3>1, <3>2 DEF FileOk, FramesOk, z
  <2>2. CASE ~(i <= k)
    <3>1. i \in 1..n BY <1>7, <1>10, <2>2
    <3>2. fs[i] = wal.frames[i] BY <2>2 DEF fs
    <3> QED BY <1>6, <3>1, <3>2 DEF FileOk, FramesOk, n
  <2> QED BY <2>1, <2>2
<1>14. FramesOk(u, L, fs) BY <1>12, <1>13 DEF FramesOk
<1>15. FileOk(u, L, g)
  <2>1. g.exists = f.exists /\ g.salt = f.salt /\ g.frames = fs OBVIOUS
  <2> QED BY <1>6, <1>12, <1>14, <2>1 DEF FileOk
<1>16. k \in 0..Len(fs) BY <1>10, <1>12
<1>17. g.frames = fs OBVIOUS
<1> HIDE DEF g
<1>18. BodyOk(L)' BY <1>1, <1>4, <1>9, <1>15, <1>16, <1>17 DEF BodyOk, u
<1> QED BY <1>1, <1>5, <1>18 DEF FilesOk

\* and ends.
LEMMA FilesUploadEnd ==
    ASSUME NEW L, SnapshotTypes, FilesOk(L), NEW c \in Conn, Snapshot!UploadEnd(c)
    PROVE  FilesOk(L)'
<1>1. /\ rec = "off" /\ UNCHANGED <<hist, wal, mxFrame, rec>> /\ pc[c] = "sent"
      /\ pc' = [pc EXCEPT ![c] = "hook"] /\ (object' = body[c].file \/ object' = object)
      /\ body' = [body EXCEPT ![c] = [file |-> Snapshot!NoFile, got |-> 0]]
  BY DEF Snapshot!UploadEnd, Snapshot!Running, Snapshot!Proceed, Snapshot!NextCallback, Snapshot!Goto,
     Snapshot!shmVars, Snapshot!recVars
<1>2. WalOk(L) /\ BodyOk(L) BY <1>1 DEF FilesOk
<1>3. pc'[c] = "hook" /\ \A d \in Conn : d # c => body'[d] = body[d] /\ pc'[d] = pc[d]
  BY <1>1 DEF SnapshotTypes
<1>4. WalOk(L)' BY <1>1, <1>2 DEF WalOk
<1>5. BodyOk(L)' BY <1>1, <1>2, <1>3 DEF BodyOk
<1>6. FileOk(Len(hist), L, object)' BY <1>1, <1>2 DEF FilesOk, BodyOk
<1> QED BY <1>1, <1>4, <1>5, <1>6 DEF FilesOk

\* A commit: its frames are in every log that a version up to its own begins,
\* and the WAL file has its log again; a page that is copied was so before,
\* and is not of this commit.
Committed(L, M, S) ==
    /\ NextVersion(hist, Len(hist) + 1, S, hist')
    /\ LogsOk(hist', M) /\ Grown(L, M)
    /\ FileOk(Len(hist'), M, wal') /\ HasLog(M, wal') /\ wal'.salt \in 2..Len(hist') /\ wal'.exists
    /\ mxFrame' = Len(M[wal'.salt]) /\ mxFrame' \in Nat
    /\ nBackfill \in Nat /\ nBackfill <= mxFrame =>
          /\ nBackfill' \in Nat /\ nBackfill' <= mxFrame'
          /\ \A p : Newest(wal'.frames, mxFrame', p) <= nBackfill' =>
                       p \notin S /\ Newest(wal.frames, mxFrame, p) <= nBackfill

\* Every commit is one of these.
LEMMA CommitStep ==
    ASSUME NEW L, FilesOk(L), NEW c \in Conn, Snapshot!Commit(c)
    PROVE  \E M : \E S \in WriteSets : Committed(L, M, S)
<1> DEFINE u == Len(hist)
           v == Len(hist) + 1
<1>1. PICK S \in WriteSets, restart \in BOOLEAN :
        LET first == IF restart THEN 0 ELSE mxFrame
            salt == IF restart \/ wal.salt = 0 THEN v ELSE wal.salt
            new == Snapshot!CommitFrames(S, v, salt)
        IN  /\ restart => mxFrame > 0 /\ nBackfill = mxFrame
            /\ wal' = Snapshot!Written(wal, salt, first, new)
            /\ mxFrame' = first + Len(new)
            /\ nBackfill' = IF restart THEN 0 ELSE nBackfill
            /\ hist' = Append(hist, [p \in Snapshot!Page |-> IF p \in S THEN v ELSE hist[v - 1][p]])
  BY DEF Snapshot!Commit
<1> DEFINE a == IF restart THEN 0 ELSE mxFrame
           s == IF restart \/ wal.salt = 0 THEN v ELSE wal.salt
           w == Snapshot!CommitFrames(S, v, s)
<1>2. /\ restart => mxFrame > 0 /\ nBackfill = mxFrame
      /\ wal' = Snapshot!Written(wal, s, a, w) /\ mxFrame' = a + Len(w)
      /\ nBackfill' = IF restart THEN 0 ELSE nBackfill
  BY <1>1
<1>3. NextVersion(hist, v, S, hist') BY <1>1 DEF NextVersion
<1>4. HistOk(hist) /\ LogsOk(hist, L) /\ WalOk(L) BY DEF FilesOk, Snapshot!Commit, Snapshot!Begins, Snapshot!Running
<1>5. HistOk(hist') /\ u = v - 1 /\ Len(hist') = v /\ v \in Nat /\ v >= 2 /\ u \in Nat
  BY <1>3, <1>4, HistGrows
<1>6. PICK M : M = WithCommit(L, S, v) OBVIOUS
<1>7. LogsOk(hist', M) /\ Grown(L, M) BY <1>3, <1>4, <1>6, LogsGrow
<1> HIDE DEF u, v
<1>8. /\ FileOk(u, L, wal) /\ HasLog(L, wal) /\ mxFrame = IF wal.salt = 0 THEN 0 ELSE Len(L[wal.salt])
      /\ IsSeq(wal.frames) /\ Len(wal.frames) \in Nat
  BY <1>4 DEF WalOk, FileOk, u, IsSeq
<1>9. /\ wal.salt = 0 \/ wal.salt \in 2..u
      /\ wal.salt # 0 => Len(L[wal.salt]) <= Len(wal.frames) /\ SameFrames(wal.frames, L[wal.salt], Len(L[wal.salt]))
  BY <1>8 DEF FileOk, HasLog
<1>10. s \in Nat /\ 2 <= s /\ s <= v BY <1>5, <1>9
<1>11. IsSeq(L[v]) /\ Len(L[v]) = 0 BY <1>4, <1>5 DEF LogsOk, u
<1>12. a = Len(L[s]) /\ a \in Nat /\ a <= Len(wal.frames) /\ SameFrames(wal.frames, L[s], a)
  <2>1. CASE restart \/ wal.salt = 0
    <3>1. s = v /\ a = 0 BY <1>8, <2>1
    <3> QED BY <1>8, <1>11, <3>1 DEF SameFrames
  <2>2. CASE ~restart /\ wal.salt # 0
    <3>1. s = wal.salt /\ a = Len(L[wal.salt]) BY <1>8, <2>2
    <3>2. Len(L[wal.salt]) \in Nat BY <1>7, <1>10, <3>1 DEF Grown
    <3> QED BY <1>9, <2>2, <3>1, <3>2
  <2> QED BY <2>1, <2>2
<1> HIDE DEF a, s
<1>13. IsSeq(L[s]) /\ LogOf(hist, s, L[s]) /\ Salted(L[s], Len(L[s]), s)
  BY <1>4, <1>5, <1>10 DEF LogsOk, u
<1>14. M[s] = L[s] \o w BY <1>6, <1>10 DEF WithCommit
<1>15. /\ IsSeq(M[s]) /\ Salted(M[s], Len(M[s]), s)
       /\ Len(w) \in Nat /\ Len(w) > 0 /\ Len(M[s]) = a + Len(w)
       /\ Behind(M[s], L[s], a, w, Len(w)) /\ IsCommit(w, Len(w), S, v, s)
  <2> DEFINE q == L[s]
             g == q \o w
  <2>1. IsSeq(q) /\ LogOf(hist, s, q) /\ Salted(q, Len(q), s) /\ a = Len(q) BY <1>12, <1>13
  <2> HIDE DEF q
  <2>2. /\ IsSeq(g) /\ Salted(g, Len(g), s) /\ Len(w) \in Nat /\ Len(w) > 0 /\ Len(g) = Len(q) + Len(w)
        /\ Behind(g, q, Len(q), w, Len(w)) /\ IsCommit(w, Len(w), S, v, s)
    <3>1. PICK h, k : h = hist /\ k = hist' OBVIOUS
    <3>2. HistOk(h) /\ NextVersion(h, v, S, k) /\ LogOf(h, s, q) BY <1>3, <1>4, <2>1, <3>1
    <3>3. PICK t \in Nat : t = s BY <1>10
    <3>4. PICK x : x = v OBVIOUS
    <3>5. HistOk(h) /\ NextVersion(h, x, S, k) /\ 2 <= t /\ t <= x /\ IsSeq(q) /\ LogOf(h, t, q) /\ Salted(q, Len(q), t)
      BY <1>10, <2>1, <3>2, <3>3, <3>4
    <3>6. LET y == Snapshot!CommitFrames(S, x, t)
              z == q \o y
          IN  /\ IsSeq(z) /\ LogOf(k, t, z) /\ Salted(z, Len(z), t)
              /\ Len(q) \in Nat /\ Len(y) \in Nat /\ Len(y) > 0 /\ Len(z) = Len(q) + Len(y)
              /\ Behind(z, q, Len(q), y, Len(y)) /\ IsCommit(y, Len(y), S, x, t)
      BY <3>5, LogGrown
    <3> QED BY <3>3, <3>4, <3>6
  <2>3. M[s] = g BY <1>14 DEF q
  <2> HIDE DEF w, g
  <2> QED BY <2>1, <2>2, <2>3 DEF q
<1>16. IsSeq(w) BY CommitHas
<1> HIDE DEF w
<1>17. /\ FileOk(v, M, wal') /\ HasLog(M, wal') /\ wal'.salt = s /\ wal'.exists
       /\ SameFrames(wal'.frames, M[s], Len(M[s]))
  <2>1. u <= v BY <1>5
  <2> QED BY <1>2, <1>5, <1>7, <1>8, <1>10, <1>12, <1>15, <1>16, <2>1, WrittenOk
<1>18. mxFrame' = Len(M[s]) /\ mxFrame' \in Nat /\ mxFrame' = a + Len(w) BY <1>2, <1>12, <1>15
<1>19. Extended(M[s], L[s], a, w, Len(w), S, v, s) BY <1>12, <1>13, <1>15 DEF Extended
<1>20. /\ \A p : p \in S => Newest(M[s], mxFrame', p) > a
       /\ \A p : p \notin S => Newest(M[s], mxFrame', p) = Newest(L[s], a, p)
  BY <1>18, <1>19, FramesBehind
<1>21. \A p : Newest(wal'.frames, mxFrame', p) = Newest(M[s], mxFrame', p) BY <1>17, <1>18, NewestSame
<1>22. \A p : Newest(wal.frames, a, p) = Newest(L[s], a, p) BY <1>12, NewestSame
<1>23. ASSUME nBackfill \in Nat, nBackfill <= mxFrame
       PROVE  /\ nBackfill' \in Nat /\ nBackfill' <= mxFrame'
              /\ \A p : Newest(wal'.frames, mxFrame', p) <= nBackfill' =>
                       p \notin S /\ Newest(wal.frames, mxFrame, p) <= nBackfill
  <2>1. nBackfill' \in Nat /\ nBackfill' <= a BY <1>2, <1>23 DEF a
  <2>2. mxFrame \in Nat BY <1>8, <1>7, <1>9, <1>5 DEF Grown
  <2>3. nBackfill' <= mxFrame' BY <1>12, <1>15, <1>18, <2>1
  <2>4. ASSUME NEW p, Newest(wal'.frames, mxFrame', p) <= nBackfill'
        PROVE  p \notin S /\ Newest(wal.frames, mxFrame, p) <= nBackfill
    <3>1. Newest(wal'.frames, mxFrame', p) \in Nat
      <4>1. PICK fs : fs = wal'.frames OBVIOUS
      <4>2. PICK m \in Nat : m = mxFrame' BY <1>18
      <4>3. Newest(fs, m, p) \in 0..m BY NewestFacts
      <4> QED BY <4>1, <4>2, <4>3
    <3>2. p \notin S BY <1>12, <1>20, <1>21, <2>1, <2>4, <3>1
    <3>3. Newest(wal.frames, a, p) <= nBackfill' BY <1>20, <1>21, <1>22, <2>4, <3>2
    <3>4. CASE restart
      <4>1. Newest(wal.frames, mxFrame, p) \in 0..mxFrame BY <2>2, NewestFacts
      <4> QED BY <1>2, <2>2, <3>2, <3>4, <4>1
    <3>5. CASE ~restart
      <4>1. a = mxFrame /\ nBackfill' = nBackfill BY <1>2, <3>5 DEF a
      <4> QED BY <3>2, <3>3, <4>1
    <3> QED BY <3>4, <3>5
  <2> QED BY <2>1, <2>3, <2>4
<1>24. Committed(L, M, S)
  <2>1. wal'.salt \in 2..Len(hist') BY <1>5, <1>10, <1>17
  <2> QED BY <1>3, <1>5, <1>7, <1>17, <1>18, <1>23, <2>1 DEF Committed, v
<1> QED BY <1>24

\* The files after it.
LEMMA FilesCommit ==
    ASSUME NEW L, NEW M, SnapshotTypes, FilesOk(L), NEW c \in Conn, Snapshot!Commit(c),
           NEW S \in WriteSets, Committed(L, M, S)
    PROVE  FilesOk(M)'
<1> DEFINE u == Len(hist)
           v == Len(hist')
<1>1. /\ rec = "off" /\ UNCHANGED <<object, body, rec>> /\ pc' = [pc EXCEPT ![c] = "upload"]
  BY DEF Snapshot!Commit, Snapshot!Begins, Snapshot!Running, Snapshot!NextCallback, Snapshot!Goto, Snapshot!recVars
<1>2. HistOk(hist) /\ FileOk(u, L, object) /\ BodyOk(L) BY <1>1 DEF FilesOk
<1>3. /\ NextVersion(hist, Len(hist) + 1, S, hist') /\ LogsOk(hist', M) /\ Grown(L, M)
      /\ FileOk(v, M, wal') /\ HasLog(M, wal') /\ wal'.salt \in 2..v /\ mxFrame' = Len(M[wal'.salt])
  BY DEF Committed
<1>4. HistOk(hist') /\ u \in Nat /\ v \in Nat /\ u <= v
  <2>1. HistOk(hist') /\ u = (Len(hist) + 1) - 1 /\ v = Len(hist) + 1 /\ Len(hist) + 1 \in Nat /\ Len(hist) + 1 >= 2
    BY <1>2, <1>3, HistGrows
  <2>2. u \in Nat BY <1>2 DEF HistOk, IsSeq
  <2> QED BY <2>1, <2>2
<1> HIDE DEF u, v
<1>5. FileOk(v, M, object') BY <1>1, <1>2, <1>3, <1>4, FileGrows
<1>6. WalOk(M)'
  <2>1. wal'.salt # 0 BY <1>3, <1>4
  <2> QED BY <1>3, <2>1 DEF WalOk, v
<1>7. BodyOk(M)'
  <2>1. ASSUME NEW d \in Conn, pc'[d] \in {"uploading", "sent"}
        PROVE  FileOk(v, M, body'[d].file) /\ body'[d].got \in 0..Len(body'[d].file.frames)
    <3>1. pc[d] \in {"uploading", "sent"} BY <1>1, <2>1 DEF SnapshotTypes
    <3>2. FileOk(u, L, body[d].file) /\ body[d].got \in 0..Len(body[d].file.frames) BY <1>2, <3>1 DEF BodyOk, u
    <3> QED BY <1>1, <1>3, <1>4, <3>2, FileGrows
  <2> QED BY <2>1 DEF BodyOk, v
<1> QED BY <1>3, <1>4, <1>5, <1>6, <1>7 DEF FilesOk, v

(***************************************************************************)
(* Mode 1: what the files show                                             *)
(***************************************************************************)
\* A page of a file that has all of its log is that of the last version.
LEMMA LogShows ==
    ASSUME NEW h, HistOk(h), NEW L, LogsOk(h, L), NEW f, FileOk(Len(h), L, f), HasLog(L, f),
           NEW m, m = Snapshot!LastCommit(f), NEW p \in Snapshot!Page, NEW d
    PROVE  /\ m \in Nat /\ (m # 0 => f.salt # 0)
           /\ Newest(f.frames, m, p) \in Nat
           /\ Newest(f.frames, m, p) > 0 => /\ f.frames[Newest(f.frames, m, p)].val = h[Len(h)][p]
                                            /\ Shown(d, f.frames, m, p) = h[Len(h)][p]
           /\ Newest(f.frames, m, p) = 0 => Shown(d, f.frames, m, p) = d[p]
<1> DEFINE i == Newest(f.frames, m, p)
           s == f.salt
<1>1. m \in Nat /\ (m # 0 => f.salt # 0) BY LastCommitFacts
<1>2. i \in 0..m BY <1>1, NewestFacts
<1>3. \A e : Shown(e, f.frames, m, p) = IF i = 0 THEN e[p] ELSE f.frames[i].val BY DEF Shown
<1>4. ASSUME i > 0 PROVE f.frames[i].val = h[Len(h)][p]
  <2>1. m # 0 BY <1>1, <1>2, <1>4
  <2>2. s # 0 BY <1>1, <2>1
  <2>3. m = Len(L[s]) BY <2>2, WholeLog
  <2>4. SameFrames(f.frames, L[s], m) BY <2>2, <2>3 DEF HasLog
  <2>5. Shown(h[s - 1], f.frames, m, p) = Shown(h[s - 1], L[s], m, p) BY <1>1, <2>4, NewestSame
  <2>6. s \in Nat /\ s \in 2..Len(h) /\ Len(h) \in Nat BY <2>2 DEF FileOk, HistOk, IsSeq
  <2>7. s \in 2..(Len(h) + 1) BY <2>6
  <2>8. LogOf(h, s, L[s]) BY <2>6, <2>7 DEF LogsOk
  <2>9. Shown(h[s - 1], L[s], m, p) = h[Len(h)][p] BY <2>3, <2>8 DEF LogOf
  <2> HIDE DEF i
  <2>10. i # 0 BY <1>4
  <2> QED BY <1>3, <2>5, <2>9, <2>10
<1> HIDE DEF i
<1>5. i \in Nat /\ (i > 0 => i # 0) BY <1>1, <1>2
<1> QED BY <1>1, <1>3, <1>4, <1>5 DEF i

\* Two files with the same log.
LEMMA SameLog ==
    ASSUME NEW h, HistOk(h), NEW L, LogsOk(h, L), NEW f, FileOk(Len(h), L, f), HasLog(L, f),
           NEW g, FileOk(Len(h), L, g), HasLog(L, g), f.salt = g.salt, f.salt # 0, NEW p
    PROVE  /\ Snapshot!LastCommit(f) = Snapshot!LastCommit(g)
           /\ Newest(f.frames, Snapshot!LastCommit(f), p) = Newest(g.frames, Snapshot!LastCommit(g), p)
<1> DEFINE s == f.salt
           m == Len(L[s])
<1>1. Snapshot!LastCommit(f) = m /\ Snapshot!LastCommit(g) = m BY WholeLog
<1>2. SameFrames(f.frames, L[s], m) /\ SameFrames(g.frames, L[s], m) BY DEF HasLog
<1>3. m \in Nat BY <1>1, LastCommitFacts
<1>4. Newest(f.frames, m, p) = Newest(L[s], m, p) /\ Newest(g.frames, m, p) = Newest(L[s], m, p)
  BY <1>2, <1>3, NewestSame
<1> QED BY <1>1, <1>4

\* An image whose pages are those of the last version.
ShowsVersion(d, f, e) == \A p \in Snapshot!Page : Shown(d, f.frames, Snapshot!LastCommit(f), p) = e[p]
\* It is the version that the file shows.
LEMMA OpenedLast ==
    ASSUME NEW d, Image(d), NEW e, Image(e), NEW f, ShowsVersion(d, f, e)
    PROVE  Snapshot!Opened(d, f) = e
<1> DEFINE o == Snapshot!Opened(d, f)
<1>1. Image(o) /\ \A p \in Snapshot!Page : o[p] = Shown(d, f.frames, Snapshot!LastCommit(f), p) BY OpenedIs
<1> HIDE DEF o
<1>2. \A p \in Snapshot!Page : o[p] = e[p] BY <1>1 DEF ShowsVersion
<1>3. o = e BY <1>1, <1>2, SameImage
<1> QED BY <1>3 DEF o

\* The WAL file has its log.
LEMMA WalShows ==
    ASSUME NEW L, FilesOk(L), rec = "off", NEW p \in Snapshot!Page
    PROVE  /\ mxFrame = Snapshot!LastCommit(wal) /\ mxFrame \in Nat /\ (mxFrame # 0 => wal.salt # 0)
           /\ Newest(wal.frames, mxFrame, p) \in 0..mxFrame
           /\ Newest(wal.frames, mxFrame, p) > 0 =>
                  wal.frames[Newest(wal.frames, mxFrame, p)].val = hist[Len(hist)][p]
<1>1. HistOk(hist) /\ LogsOk(hist, L) /\ FileOk(Len(hist), L, wal) /\ HasLog(L, wal)
  BY DEF FilesOk, WalOk
<1>2. mxFrame = Snapshot!LastCommit(wal) BY <1>1, WholeLog DEF FilesOk, WalOk
<1>3. /\ mxFrame \in Nat /\ (mxFrame # 0 => wal.salt # 0)
      /\ Newest(wal.frames, mxFrame, p) > 0 => wal.frames[Newest(wal.frames, mxFrame, p)].val = hist[Len(hist)][p]
  BY <1>1, <1>2, LogShows
<1>4. Newest(wal.frames, mxFrame, p) \in 0..mxFrame BY <1>3, NewestFacts
<1> QED BY <1>2, <1>3, <1>4

\* While statements do not overlap, those of other connections are idle.
Alone(c) == \A d \in Conn \ {c} : pc[d] = "idle" /\ todo[d] = {}
Works(c) ==
    /\ todo[c] # {} => pc[c] \in {"ckpt", "pragma"} /\ mxSafeFrame[c] = mxFrame
    /\ \A p \in todo[c] : p \in Snapshot!Page /\ Newest(wal.frames, mxFrame, p) > 0
    /\ pc[c] \in {"uploading", "sent"} => body[c].file = wal
\* With a statement under way, Busy is about its connection alone.
LEMMA BusyIs ==
    ASSUME NEW c \in Conn
    PROVE  /\ Busy /\ pc[c] # "idle" => Alone(c) /\ Works(c) /\ nBackfill <= mxFrame
           /\ (Alone(c) /\ Works(c) /\ nBackfill <= mxFrame)' => Busy'
BY DEF Busy, Alone, Works

(***************************************************************************)
(* Mode 1: what a recovery would give back                                 *)
(***************************************************************************)
\* What a step leaves alone.
LEMMA CalmOk ==
    ASSUME NEW L, rec' = "off", Image(db'), ~failed' /\ ~overlap' => (Acked /\ Busy /\ DbShows /\ Fresh(L))'
    PROVE  AckedOk(L)'
BY DEF AckedOk, Script
\* The object and what was acknowledged stay.
LEMMA AckedSame == ASSUME Acked, UNCHANGED <<db, object, hist, acked, version>> PROVE Acked'
BY DEF Acked
\* The database and the log stay.
LEMMA DbSame == ASSUME DbShows, UNCHANGED <<db, hist, wal, mxFrame, nBackfill, todo>> PROVE DbShows'
BY DEF DbShows, LastShown
\* The object and the log stay.
LEMMA UploadedSame == ASSUME NEW L, Uploaded(L), UNCHANGED <<db, object, hist, wal>> PROVE Uploaded(L)'
BY DEF Uploaded, ShowsLast

\* A statement that begins without another one under way.
LEMMA Begun ==
    ASSUME NEW L, SnapshotTypes, AckedOk(L), NEW c \in Conn, Snapshot!Begins(c), ~failed, ~overlap'
    PROVE  /\ rec = "off" /\ pc[c] = "idle" /\ Alone(c) /\ (\A d \in Conn : pc[d] = "idle" /\ todo[d] = {})
           /\ Acked /\ DbShows /\ Uploaded(L) /\ nBackfill <= mxFrame /\ (~wal.exists => wal.salt = 0)
<1>1. rec = "off" /\ pc[c] = "idle" /\ ~overlap /\ \A d \in Conn \ {c} : pc[d] = "idle"
  BY Zenon DEF Snapshot!Begins, Snapshot!Running
<1>2. Acked /\ Busy /\ DbShows /\ Fresh(L) BY <1>1 DEF AckedOk
<1>3. \A d \in Conn : pc[d] = "idle" BY <1>1
<1>4. \A d \in Conn : todo[d] = {} BY <1>2, <1>3 DEF Busy
<1>5. Uploaded(L) /\ (~wal.exists => wal.salt = 0) BY <1>2, <1>3 DEF Fresh, UploadPCs
<1> QED BY <1>1, <1>2, <1>3, <1>4, <1>5 DEF Alone, Busy

\* What comes first after a statement is its upload.
LEMMA AckedRead ==
    ASSUME NEW L, SnapshotTypes, AckedOk(L), NEW c \in Conn, Snapshot!Read(c)
    PROVE  AckedOk(L)'
<1>1. /\ Snapshot!Begins(c) /\ pc' = [pc EXCEPT ![c] = "upload"] /\ rec' = rec
      /\ UNCHANGED <<db, object, wal, mxFrame, nBackfill, body, todo, mxSafeFrame, version, hist, acked, failed>>
  BY DEF Snapshot!Read, Snapshot!NextCallback, Snapshot!Goto, Snapshot!fileVars, Snapshot!shmVars,
     Snapshot!ckptVars, Snapshot!recVars
<1>2. rec = "off" BY <1>1 DEF Snapshot!Begins, Snapshot!Running
<1>3. ASSUME ~failed', ~overlap' PROVE (Acked /\ Busy /\ DbShows /\ Fresh(L))'
  <2>1. /\ pc[c] = "idle" /\ Alone(c) /\ (\A d \in Conn : pc[d] = "idle" /\ todo[d] = {})
        /\ Acked /\ DbShows /\ Uploaded(L) /\ nBackfill <= mxFrame /\ (~wal.exists => wal.salt = 0)
    BY <1>1, <1>3, Begun
  <2>2. Acked' /\ DbShows' /\ Uploaded(L)' BY <1>1, <2>1, AckedSame, DbSame, UploadedSame
  <2>3. pc'[c] = "upload" /\ Alone(c)' BY <1>1, <2>1 DEF SnapshotTypes, Alone
  <2>4. Works(c)' BY <1>1, <2>1, <2>3 DEF Works
  <2>5. Busy' BY <1>1, <2>1, <2>3, <2>4, BusyIs
  <2>6. Fresh(L)' BY <1>1, <2>1, <2>2 DEF Fresh
  <2> QED BY <2>2, <2>5, <2>6
<1>4. Image(db') BY <1>1 DEF AckedOk
<1> QED BY <1>1, <1>2, <1>3, <1>4, CalmOk

\* The pages that a checkpoint copies are in the log, the others are copied.
LEMMA NotCopiedIs ==
    ASSUME NEW L, FilesOk(L), rec = "off", nBackfill \in Nat
    PROVE  \A p : /\ p \in Snapshot!NotCopied => p \in Snapshot!Page /\ Newest(wal.frames, mxFrame, p) > 0
                  /\ p \in Snapshot!Page /\ p \notin Snapshot!NotCopied => Newest(wal.frames, mxFrame, p) <= nBackfill
<1>1. \A p : p \in Snapshot!NotCopied <=> p \in Snapshot!Page /\ Newest(wal.frames, mxFrame, p) > nBackfill
  BY DEF Snapshot!NotCopied, Snapshot!NewestFrame, Newest
<1>2. \A p \in Snapshot!Page : mxFrame \in Nat /\ Newest(wal.frames, mxFrame, p) \in 0..mxFrame BY WalShows
<1>3. ASSUME NEW p
      PROVE  /\ p \in Snapshot!NotCopied => p \in Snapshot!Page /\ Newest(wal.frames, mxFrame, p) > 0
             /\ p \in Snapshot!Page /\ p \notin Snapshot!NotCopied => Newest(wal.frames, mxFrame, p) <= nBackfill
  <2> DEFINE k == Newest(wal.frames, mxFrame, p)
  <2>1. p \in Snapshot!Page => k \in Nat BY <1>2
  <2>2. p \in Snapshot!NotCopied <=> p \in Snapshot!Page /\ k > nBackfill BY <1>1
  <2> HIDE DEF k
  <2>3. /\ p \in Snapshot!NotCopied => p \in Snapshot!Page /\ k > 0
        /\ p \in Snapshot!Page /\ p \notin Snapshot!NotCopied => k <= nBackfill
    BY <2>1, <2>2
  <2> QED BY <2>3 DEF k
<1> QED BY <1>3

\* A checkpoint that begins changes no page yet.
LEMMA DbBegun ==
    ASSUME NEW L, FilesOk(L), rec = "off", nBackfill \in Nat, DbShows, NEW c \in Conn,
           UNCHANGED <<db, hist, wal, mxFrame, nBackfill>>, todo'[c] = Snapshot!NotCopied,
           \A d \in Conn \ {c} : todo'[d] = {}
    PROVE  DbShows'
<1>1. ASSUME NEW p \in Snapshot!Page,
             Newest(wal.frames, mxFrame, p) <= nBackfill \/ \E d \in Conn : todo'[d] # {} /\ p \notin todo'[d]
      PROVE  LastShown(p)
  <2>1. Newest(wal.frames, mxFrame, p) <= nBackfill
    <3>1. CASE \E d \in Conn : todo'[d] # {} /\ p \notin todo'[d]
      <4>1. p \notin Snapshot!NotCopied BY <3>1
      <4> QED BY <4>1, NotCopiedIs
    <3> QED BY <1>1, <3>1
  <2> QED BY <2>1 DEF DbShows
<1> QED BY <1>1 DEF DbShows, LastShown

\* The PRAGMA that runs it.
LEMMA AckedPragma ==
    ASSUME NEW L, SnapshotTypes, FilesOk(L), AckedOk(L), NEW c \in Conn, Snapshot!Pragma(c)
    PROVE  AckedOk(L)'
<1>1. /\ Snapshot!Begins(c) /\ pc' = [pc EXCEPT ![c] = "pragma"] /\ rec' = rec
      /\ todo' = [todo EXCEPT ![c] = Snapshot!NotCopied] /\ mxSafeFrame' = [mxSafeFrame EXCEPT ![c] = mxFrame]
      /\ UNCHANGED <<db, object, wal, mxFrame, nBackfill, body, version, hist, acked, failed>>
  BY DEF Snapshot!Pragma, Snapshot!Goto, Snapshot!fileVars, Snapshot!shmVars, Snapshot!recVars
<1>2. rec = "off" BY <1>1 DEF Snapshot!Begins, Snapshot!Running
<1>3. ASSUME ~failed', ~overlap' PROVE (Acked /\ Busy /\ DbShows /\ Fresh(L))'
  <2>1. /\ pc[c] = "idle" /\ Alone(c) /\ (\A d \in Conn : pc[d] = "idle" /\ todo[d] = {})
        /\ Acked /\ DbShows /\ Uploaded(L) /\ nBackfill <= mxFrame /\ (~wal.exists => wal.salt = 0)
    BY <1>1, <1>3, Begun
  <2>2. Acked' /\ Uploaded(L)' BY <1>1, <2>1, AckedSame, UploadedSame
  <2>3. pc'[c] = "pragma" /\ Alone(c)' BY <1>1, <2>1 DEF SnapshotTypes, Alone
  <2>4. todo'[c] = Snapshot!NotCopied /\ mxSafeFrame'[c] = mxFrame /\ nBackfill \in Nat BY <1>1 DEF SnapshotTypes
  <2>5. DbShows'
    <3>1. \A d \in Conn \ {c} : todo'[d] = {} BY <2>3 DEF Alone
    <3> QED BY <1>1, <1>2, <2>1, <2>4, <3>1, DbBegun
  <2>6. Works(c)'
    <3>1. \A p \in todo'[c] : p \in Snapshot!Page /\ Newest(wal.frames, mxFrame, p) > 0
      BY <1>2, <2>4, NotCopiedIs
    <3> QED BY <1>1, <2>3, <2>4, <3>1 DEF Works
  <2>7. Busy' BY <1>1, <2>1, <2>3, <2>6, BusyIs
  <2>8. Fresh(L)' BY <1>1, <2>1, <2>2 DEF Fresh
  <2> QED BY <2>2, <2>5, <2>7, <2>8
<1>4. Image(db') BY <1>1 DEF AckedOk
<1> QED BY <1>1, <1>2, <1>3, <1>4, CalmOk

\* sqlite3_step returns when the object shows the last version.
LEMMA Returned ==
    ASSUME SnapshotTypes, Acked, HistOk(hist), NEW c, hist' = hist,
           object'.exists => Snapshot!Opened(db', object') = hist[Len(hist)],
           (c \in Conn /\ Snapshot!Return(c)) \/ UNCHANGED <<acked, version>>
    PROVE  Acked'
<1> DEFINE u == Len(hist)
<1>1. u \in Nat /\ u >= 1 BY DEF HistOk, IsSeq
<1>2. acked \in 1..u /\ \A d \in Conn : version[d] \in 0..u BY DEF Acked
<1>3. acked' \in 1..u /\ \A d \in Conn : version'[d] \in 0..u
  <2>1. CASE c \in Conn /\ Snapshot!Return(c)
    <3>1. acked' = (IF version[c] > acked THEN version[c] ELSE acked) /\ version' = [version EXCEPT ![c] = 0]
      BY <2>1 DEF Snapshot!Return
    <3>2. \A d \in Conn : version'[d] = 0 \/ version'[d] = version[d] BY <3>1 DEF SnapshotTypes
    <3> HIDE DEF u
    <3>3. acked' \in 1..u BY <1>1, <1>2, <3>1
    <3>4. 0 \in 0..u BY <1>1
    <3> QED BY <1>2, <3>2, <3>3, <3>4
  <2>2. CASE UNCHANGED <<acked, version>> BY <1>2, <2>2
  <2> QED BY <2>1, <2>2
<1> HIDE DEF u
<1>4. u \in acked'..u BY <1>1, <1>3
<1>5. object'.exists => \E v \in acked'..u : Snapshot!Opened(db', object') = hist[v] BY <1>4 DEF u
<1> QED BY <1>3, <1>5 DEF Acked, u

\* An object that shows the last version gives it to whoever opens it.
LEMMA UploadedOpens ==
    ASSUME NEW L, HistOk(hist), Image(db), Uploaded(L), object.exists
    PROVE  Snapshot!Opened(db, object) = hist[Len(hist)]
<1> DEFINE e == hist[Len(hist)]
<1>1. Len(hist) \in 1..Len(hist)
  <2> DEFINE u == Len(hist)
  <2>1. u \in Nat /\ u >= 1 BY DEF HistOk, IsSeq
  <2> HIDE DEF u
  <2>2. u \in 1..u BY <2>1
  <2> QED BY <2>2 DEF u
<1>2. Image(e) BY <1>1 DEF HistOk
<1>3. ShowsVersion(db, object, e) BY DEF Uploaded, ShowsLast, ShowsVersion
<1> HIDE DEF e
<1>4. Snapshot!Opened(db, object) = e BY <1>2, <1>3, OpenedLast
<1> QED BY <1>4 DEF e

\* The hook: back to the caller, or a checkpoint.
LEMMA AckedHook ==
    ASSUME NEW L, SnapshotTypes, FilesOk(L), AckedOk(L), NEW c \in Conn, Snapshot!Hook(c)
    PROVE  AckedOk(L)'
<1>1. /\ pc[c] = "hook" /\ rec = "off" /\ rec' = rec
      /\ UNCHANGED <<db, object, wal, mxFrame, nBackfill, body, hist, failed, overlap>>
  BY DEF Snapshot!Hook, Snapshot!Running, Snapshot!fileVars, Snapshot!shmVars, Snapshot!recVars, Snapshot!flagVars
<1>2. ASSUME ~failed', ~overlap' PROVE (Acked /\ Busy /\ DbShows /\ Fresh(L))'
  <2>1. Acked /\ Busy /\ DbShows /\ Fresh(L) /\ Image(db) BY <1>1, <1>2 DEF AckedOk
  <2>2. Alone(c) /\ Works(c) /\ nBackfill <= mxFrame BY <1>1, <2>1, BusyIs
  <2>3. todo[c] = {} BY <1>1, <2>2 DEF Works
  <2>4. Uploaded(L) /\ (~wal.exists => wal.salt = 0) BY <1>1, <2>1, <2>2 DEF Fresh, UploadPCs, Alone
  <2>5. Fresh(L)'
    <3>1. Uploaded(L)' BY <1>1, <2>4, UploadedSame
    <3> QED BY <1>1, <2>4, <3>1 DEF Fresh
  <2>6. CASE /\ todo' = [todo EXCEPT ![c] = Snapshot!NotCopied] /\ mxSafeFrame' = [mxSafeFrame EXCEPT ![c] = mxFrame]
             /\ pc' = [pc EXCEPT ![c] = "ckpt"] /\ UNCHANGED <<version, acked>>
    <3>1. pc'[c] = "ckpt" /\ Alone(c)' BY <2>2, <2>6 DEF SnapshotTypes, Alone
    <3>2. todo'[c] = Snapshot!NotCopied /\ mxSafeFrame'[c] = mxFrame /\ nBackfill \in Nat BY <2>6 DEF SnapshotTypes
    <3>3. DbShows'
      <4>1. \A d \in Conn \ {c} : todo'[d] = {} BY <3>1 DEF Alone
      <4> QED BY <1>1, <2>1, <3>2, <4>1, DbBegun
    <3>4. Works(c)'
      <4>1. \A p \in todo'[c] : p \in Snapshot!Page /\ Newest(wal.frames, mxFrame, p) > 0
        BY <1>1, <3>2, NotCopiedIs
      <4> QED BY <1>1, <3>1, <3>2, <4>1 DEF Works
    <3>5. Busy' BY <1>1, <2>2, <3>1, <3>4, BusyIs
    <3>6. Acked' BY <1>1, <2>1, <2>6, AckedSame
    <3> QED BY <2>5, <3>3, <3>5, <3>6
  <2>7. CASE pc' = [pc EXCEPT ![c] = "idle"] /\ Snapshot!Return(c) /\ UNCHANGED <<todo, mxSafeFrame>>
    <3>1. pc'[c] = "idle" /\ Alone(c)' BY <2>2, <2>7 DEF SnapshotTypes, Alone
    <3>2. Works(c)' BY <2>3, <2>7, <3>1 DEF Works
    <3>3. Busy' BY <1>1, <2>2, <3>1, <3>2, BusyIs
    <3>4. HistOk(hist) BY DEF FilesOk
    <3>5. object'.exists => Snapshot!Opened(db', object') = hist[Len(hist)]
      BY <1>1, <2>1, <2>4, <3>4, UploadedOpens
    <3>6. Acked' BY <1>1, <2>1, <2>7, <3>4, <3>5, Returned
    <3>7. DbShows' BY <1>1, <2>1, <2>7, DbSame
    <3> QED BY <2>5, <3>3, <3>6, <3>7
  <2>8. Snapshot!Proceed(c, "hook") => pc' = [pc EXCEPT ![c] = "idle"] /\ Snapshot!Return(c)
    BY DEF Snapshot!Proceed, Snapshot!NextCallback, Snapshot!Goto
  <2> QED BY <2>6, <2>7, <2>8 DEF Snapshot!Hook, Snapshot!Goto, Snapshot!ckptVars
<1>3. Image(db') BY <1>1 DEF AckedOk
<1> QED BY <1>1, <1>2, <1>3, CalmOk

\* A page is copied that is in the log, and so in the object.
LEMMA PageCopied ==
    ASSUME NEW L, FilesOk(L), rec = "off", Image(db), Uploaded(L), NEW p \in Snapshot!Page,
           Newest(wal.frames, mxFrame, p) > 0, UNCHANGED <<hist, object, wal>>,
           db' = [db EXCEPT ![p] = wal.frames[Newest(wal.frames, mxFrame, p)].val]
    PROVE  /\ Uploaded(L)' /\ LastShown(p)' /\ (\A q \in Snapshot!Page : LastShown(q) => LastShown(q)')
           /\ object'.exists => Snapshot!Opened(db', object') = hist[Len(hist)]
<1> DEFINE k == Newest(wal.frames, mxFrame, p)
           e == hist[Len(hist)]
           m == Snapshot!LastCommit(object)
<1>1. HistOk(hist) /\ LogsOk(hist, L) /\ FileOk(Len(hist), L, wal) /\ HasLog(L, wal) /\ FileOk(Len(hist), L, object)
  BY DEF FilesOk, WalOk
<1>2. mxFrame = Snapshot!LastCommit(wal) /\ mxFrame \in Nat /\ (mxFrame # 0 => wal.salt # 0) /\ k \in 0..mxFrame
  BY WalShows
<1>3. wal.frames[k].val = e[p] BY WalShows
<1>4. mxFrame # 0
  <2>1. k > 0 OBVIOUS
  <2> HIDE DEF k
  <2> QED BY <1>2, <2>1
<1>5. wal.salt # 0 /\ object.exists /\ object.salt = wal.salt /\ HasLog(L, object) BY <1>2, <1>4 DEF Uploaded
<1>6. db'[p] = e[p] /\ \A q \in Snapshot!Page : q # p => db'[q] = db[q]
  <2>1. PICK x : x = e[p] OBVIOUS
  <2>2. db' = [db EXCEPT ![p] = x] BY <1>3, <2>1
  <2> QED BY <2>1, <2>2 DEF Image
<1>7. Image(db') BY DEF Image
<1>8. ASSUME NEW q \in Snapshot!Page PROVE Shown(db', object.frames, m, q) = e[q]
  <2>1. CASE q = p
    <3>1. Newest(object.frames, m, p) = k BY <1>1, <1>2, <1>5, SameLog
    <3>2. Newest(object.frames, m, p) > 0 BY <3>1
    <3>3. Shown(db', object.frames, m, p) = e[p]
      <4>1. PICK x : x = db' OBVIOUS
      <4>2. PICK h : h = hist OBVIOUS
      <4>3. Shown(x, object.frames, m, p) = h[Len(h)][p] BY <1>1, <1>5, <3>2, <4>2, LogShows
      <4> QED BY <4>1, <4>2, <4>3
    <3> QED BY <2>1, <3>3
  <2>2. CASE q # p
    <3>1. Shown(db, object.frames, m, q) = e[q] BY <1>5 DEF Uploaded, ShowsLast
    <3>2. db'[q] = db[q] BY <1>6, <2>2
    <3> QED BY <3>1, <3>2 DEF Shown
  <2> QED BY <2>1, <2>2
<1>9. Uploaded(L)' BY <1>5, <1>8 DEF Uploaded, ShowsLast
<1>10. Snapshot!Opened(db', object') = e
  <2>1. Image(e)
    <3>1. Len(hist) \in 1..Len(hist)
      <4> DEFINE u == Len(hist)
      <4>1. u \in Nat /\ u >= 1 BY <1>1 DEF HistOk, IsSeq
      <4> HIDE DEF u
      <4>2. u \in 1..u BY <4>1
      <4> QED BY <4>2 DEF u
    <3> QED BY <1>1, <3>1 DEF HistOk
  <2>2. ShowsVersion(db', object', e) BY <1>8 DEF ShowsVersion
  <2> HIDE DEF e
  <2> QED BY <1>7, <2>1, <2>2, OpenedLast
<1>11. LastShown(p)' /\ \A q \in Snapshot!Page : LastShown(q) => LastShown(q)' BY <1>6 DEF LastShown
<1> QED BY <1>9, <1>10, <1>11

\* One page, and the end of a checkpoint.
LEMMA AckedCkptCopy ==
    ASSUME NEW L, SnapshotTypes, FilesOk(L), AckedOk(L), NEW c \in Conn, Snapshot!CkptCopy(c)
    PROVE  AckedOk(L)'
<1>1. /\ rec = "off" /\ rec' = rec /\ UNCHANGED <<object, wal, mxFrame, body, hist, failed, overlap>>
  BY DEF Snapshot!CkptCopy, Snapshot!Running, Snapshot!recVars, Snapshot!flagVars
<1>2. PICK p \in todo[c] :
        /\ db' = [db EXCEPT ![p] = wal.frames[Newest(wal.frames, mxSafeFrame[c], p)].val]
        /\ todo' = [todo EXCEPT ![c] = @ \ {p}]
  BY DEF Snapshot!CkptCopy, Snapshot!NewestFrame, Newest
<1>3. Image(db) /\ Image(db') BY <1>2 DEF AckedOk, Image
<1>4. \/ todo'[c] # {} /\ UNCHANGED <<nBackfill, mxSafeFrame, pc, version, acked>>
      \/ /\ todo'[c] = {} /\ nBackfill' = mxSafeFrame[c]
         /\ \/ pc[c] = "pragma" /\ pc' = [pc EXCEPT ![c] = "upload"] /\ UNCHANGED <<acked, version>>
            \/ pc[c] # "pragma" /\ pc' = [pc EXCEPT ![c] = "idle"] /\ Snapshot!Return(c)
  BY DEF Snapshot!CkptCopy, Snapshot!Proceed, Snapshot!NextCallback, Snapshot!Goto
<1>5. ASSUME ~failed', ~overlap' PROVE (Acked /\ Busy /\ DbShows /\ Fresh(L))'
  <2>1. Acked /\ Busy /\ DbShows /\ Fresh(L) BY <1>1, <1>5 DEF AckedOk
  <2>2. pc[c] \in {"ckpt", "pragma"} /\ mxSafeFrame[c] = mxFrame BY <1>2, <2>1 DEF Busy
  <2>3. Alone(c) /\ Works(c) /\ nBackfill <= mxFrame BY <2>1, <2>2, BusyIs
  <2>4. p \in Snapshot!Page /\ Newest(wal.frames, mxFrame, p) > 0 BY <1>2, <2>3 DEF Works
  <2>5. Uploaded(L) /\ (~wal.exists => wal.salt = 0) BY <2>1, <2>2, <2>3 DEF Fresh, UploadPCs, Alone
  <2>6. /\ Uploaded(L)' /\ LastShown(p)' /\ (\A q \in Snapshot!Page : LastShown(q) => LastShown(q)')
        /\ object'.exists => Snapshot!Opened(db', object') = hist[Len(hist)]
    <3>1. db' = [db EXCEPT ![p] = wal.frames[Newest(wal.frames, mxFrame, p)].val] BY <1>2, <2>2
    <3> QED BY <1>1, <1>3, <2>4, <2>5, <3>1, PageCopied
  <2>7. Fresh(L)' BY <1>1, <2>5, <2>6 DEF Fresh
  <2>8. HistOk(hist) BY DEF FilesOk
  <2>9. Acked'
    <3>1. Snapshot!Return(c) \/ UNCHANGED <<acked, version>> BY <1>4
    <3> QED BY <1>1, <2>1, <2>6, <2>8, <3>1, Returned
  <2>10. todo'[c] = todo[c] \ {p} /\ \A d \in Conn \ {c} : todo'[d] = {} BY <1>2, <2>3 DEF SnapshotTypes, Alone
  <2>11. \A q \in Snapshot!Page : q \notin todo'[c] => LastShown(q)' BY <1>2, <2>1, <2>6, <2>10 DEF DbShows
  <2>12. CASE todo'[c] # {} /\ UNCHANGED <<nBackfill, mxSafeFrame, pc>>
    <3>1. Works(c)' BY <1>1, <2>2, <2>3, <2>10, <2>12 DEF Works
    <3>2. Alone(c)' BY <2>3, <2>10, <2>12 DEF Alone
    <3>3. Busy' BY <1>1, <2>3, <2>12, <3>1, <3>2, BusyIs
    <3>4. ASSUME NEW q \in Snapshot!Page,
                 Newest(wal.frames, mxFrame, q) <= nBackfill \/ \E d \in Conn : todo'[d] # {} /\ q \notin todo'[d]
          PROVE  LastShown(q)'
      <4>1. CASE Newest(wal.frames, mxFrame, q) <= nBackfill
        <5>1. LastShown(q) BY <2>1, <4>1 DEF DbShows
        <5> QED BY <2>6, <5>1
      <4>2. CASE \E d \in Conn : todo'[d] # {} /\ q \notin todo'[d]
        <5>1. q \notin todo'[c] BY <2>10, <4>2
        <5> QED BY <2>11, <5>1
      <4> QED BY <3>4, <4>1, <4>2
    <3>5. DbShows' BY <1>1, <2>12, <3>4 DEF DbShows
    <3> QED BY <2>7, <2>9, <3>3, <3>5
  <2>13. CASE /\ todo'[c] = {} /\ nBackfill' = mxSafeFrame[c]
              /\ pc' = [pc EXCEPT ![c] = "upload"] \/ pc' = [pc EXCEPT ![c] = "idle"]
    <3>1. pc'[c] \in {"upload", "idle"} /\ Alone(c)' BY <2>3, <2>10, <2>13 DEF SnapshotTypes, Alone
    <3>2. Works(c)' BY <2>13, <3>1 DEF Works
    <3>3. nBackfill' = mxFrame' BY <1>1, <2>2, <2>13
    <3>4. nBackfill' <= mxFrame' BY <1>1, <3>3 DEF SnapshotTypes
    <3>5. Busy' BY <3>1, <3>2, <3>4, BusyIs
    <3>6. DbShows' BY <2>11, <2>13 DEF DbShows
    <3> QED BY <2>7, <2>9, <3>5, <3>6
  <2> QED BY <1>4, <2>12, <2>13
<1> QED BY <1>1, <1>3, <1>5, CalmOk

\* The WAL file is emptied: all of its pages are copied.
LEMMA AckedTruncate ==
    ASSUME NEW L, SnapshotTypes, FilesOk(L), AckedOk(L), NEW c \in Conn, Snapshot!Truncate(c)
    PROVE  AckedOk(L)'
<1>1. /\ Snapshot!Begins(c) /\ pc' = [pc EXCEPT ![c] = "upload"] /\ rec' = rec /\ nBackfill = mxFrame
      /\ wal' = Snapshot!EmptyFile /\ mxFrame' = 0 /\ nBackfill' = 0
      /\ UNCHANGED <<db, object, body, todo, mxSafeFrame, version, hist, acked, failed>>
  BY DEF Snapshot!Truncate, Snapshot!NextCallback, Snapshot!Goto, Snapshot!ckptVars, Snapshot!recVars
<1>2. rec = "off" BY <1>1 DEF Snapshot!Begins, Snapshot!Running
<1>3. wal'.exists /\ wal'.salt = 0 BY <1>1 DEF Snapshot!EmptyFile, Snapshot!File
<1>4. ASSUME ~failed', ~overlap' PROVE (Acked /\ Busy /\ DbShows /\ Fresh(L))'
  <2>1. /\ pc[c] = "idle" /\ Alone(c) /\ (\A d \in Conn : pc[d] = "idle" /\ todo[d] = {})
        /\ Acked /\ DbShows /\ Uploaded(L)
    BY <1>1, <1>4, Begun
  <2>2. Acked' BY <1>1, <2>1, AckedSame
  <2>3. pc'[c] = "upload" /\ Alone(c)' BY <1>1, <2>1 DEF SnapshotTypes, Alone
  <2>4. Works(c)' BY <1>1, <2>1, <2>3 DEF Works
  <2>5. Busy'
    <3>1. nBackfill' <= mxFrame' BY <1>1
    <3> QED BY <2>3, <2>4, <3>1, BusyIs
  <2>6. DbShows'
    <3>1. ASSUME NEW p \in Snapshot!Page PROVE LastShown(p)
      <4>1. mxFrame \in Nat /\ Newest(wal.frames, mxFrame, p) \in 0..mxFrame BY <1>2, WalShows
      <4>2. Newest(wal.frames, mxFrame, p) <= nBackfill BY <1>1, <4>1
      <4> QED BY <2>1, <4>2 DEF DbShows
    <3> QED BY <1>1, <3>1 DEF DbShows, LastShown
  <2>7. Fresh(L)' BY <1>3, <2>3 DEF Fresh, UploadPCs
  <2> QED BY <2>2, <2>5, <2>6, <2>7
<1>5. Image(db') BY <1>1 DEF AckedOk
<1> QED BY <1>1, <1>2, <1>4, <1>5, CalmOk

\* The last connection copies the whole log and deletes the file.
LEMMA AckedClose ==
    ASSUME NEW L, SnapshotTypes, FilesOk(L), AckedOk(L), Snapshot!Close
    PROVE  AckedOk(L)'
<1>1. /\ rec = "off" /\ rec' = rec /\ (\A c \in Conn : pc[c] = "idle")
      /\ wal' = Snapshot!NoFile /\ mxFrame' = 0 /\ nBackfill' = 0
      /\ db' = Snapshot!Applied(db, wal, mxFrame)
      /\ UNCHANGED <<object, pc, body, todo, mxSafeFrame, version, hist, acked, failed, overlap>>
  BY DEF Snapshot!Close, Snapshot!Running, Snapshot!connVars, Snapshot!ckptVars, Snapshot!recVars, Snapshot!flagVars
<1>2. wal'.salt = 0 BY <1>1 DEF Snapshot!NoFile
<1>3. Image(db) BY DEF AckedOk
<1>4. Image(db') /\ \A p \in Snapshot!Page : db'[p] = Shown(db, wal.frames, mxFrame, p)
  BY <1>1, <1>3 DEF Image, Snapshot!Applied, Snapshot!NewestFrame, Newest, Shown
<1>5. ASSUME ~failed', ~overlap' PROVE (Acked /\ Busy /\ DbShows /\ Fresh(L))'
  <2>1. Acked /\ Busy /\ DbShows /\ Fresh(L) BY <1>1, <1>5 DEF AckedOk
  <2>2. \A c \in Conn : todo[c] = {} BY <1>1, <2>1 DEF Busy
  <2>3. Uploaded(L) /\ (~wal.exists => wal.salt = 0) BY <1>1, <2>1 DEF Fresh, UploadPCs
  <2>4. ASSUME NEW p \in Snapshot!Page PROVE db'[p] = hist[Len(hist)][p]
    <3> DEFINE k == Newest(wal.frames, mxFrame, p)
    <3>1. /\ mxFrame \in Nat /\ k \in 0..mxFrame /\ (k > 0 => wal.frames[k].val = hist[Len(hist)][p])
      BY <1>1, WalShows
    <3>2. db'[p] = IF k = 0 THEN db[p] ELSE wal.frames[k].val BY <1>4 DEF Shown
    <3>3. k <= nBackfill => db[p] = hist[Len(hist)][p] BY <2>1 DEF DbShows, LastShown
    <3> HIDE DEF k
    <3> QED BY <3>1, <3>2, <3>3 DEF SnapshotTypes
  <2>5. DbShows' BY <1>1, <2>4 DEF DbShows, LastShown
  <2>6. Busy'
    <3>1. 0 <= 0 OBVIOUS
    <3> QED BY <1>1, <2>2, <3>1 DEF Busy
  <2> DEFINE m == Snapshot!LastCommit(object)
  <2>7. object.exists => \A p \in Snapshot!Page : Shown(db', object.frames, m, p) = hist[Len(hist)][p]
    <3>1. ASSUME object.exists, NEW p \in Snapshot!Page PROVE Shown(db', object.frames, m, p) = hist[Len(hist)][p]
      <4>1. Shown(db, object.frames, m, p) = hist[Len(hist)][p] BY <2>3, <3>1 DEF Uploaded, ShowsLast
      <4>2. db'[p] = hist[Len(hist)][p] BY <2>4
      <4> QED BY <4>1, <4>2 DEF Shown
    <3> QED BY <3>1
  <2>8. Uploaded(L)' BY <1>1, <1>2, <2>7 DEF Uploaded, ShowsLast
  <2>9. Fresh(L)' BY <1>2, <2>8 DEF Fresh
  <2>10. HistOk(hist) BY DEF FilesOk
  <2>11. Acked'
    <3>2. object'.exists => Snapshot!Opened(db', object') = hist[Len(hist)]
      <4>1. ASSUME object.exists PROVE Snapshot!Opened(db', object) = hist[Len(hist)]
        <5> DEFINE e == hist[Len(hist)]
        <5>1. Len(hist) \in 1..Len(hist)
          <6> DEFINE u == Len(hist)
          <6>1. u \in Nat /\ u >= 1 BY <2>10 DEF HistOk, IsSeq
          <6> HIDE DEF u
          <6>2. u \in 1..u BY <6>1
          <6> QED BY <6>2 DEF u
        <5>2. Image(e) BY <2>10, <5>1 DEF HistOk
        <5>3. ShowsVersion(db', object, e) BY <2>7, <4>1 DEF ShowsVersion
        <5> HIDE DEF e
        <5>4. Snapshot!Opened(db', object) = e BY <1>4, <5>2, <5>3, OpenedLast
        <5> QED BY <5>4 DEF e
      <4> QED BY <1>1, <4>1
    <3> QED BY <1>1, <2>1, <2>10, <3>2, Returned
  <2> QED BY <2>5, <2>6, <2>9, <2>11
<1> QED BY <1>1, <1>4, <1>5, CalmOk

\* An upload begins with the file as the statement left it,
LEMMA AckedUploadStart ==
    ASSUME NEW L, SnapshotTypes, AckedOk(L), NEW c \in Conn, Snapshot!UploadStart(c)
    PROVE  AckedOk(L)'
<1>1. /\ pc[c] = "upload" /\ pc' = [pc EXCEPT ![c] = "uploading"] /\ rec = "off" /\ rec' = rec
      /\ UNCHANGED <<db, object, wal, mxFrame, nBackfill, todo, mxSafeFrame, version, hist, acked, failed, overlap>>
  BY DEF Snapshot!UploadStart, Snapshot!Running, Snapshot!Goto, Snapshot!fileVars, Snapshot!shmVars,
     Snapshot!ckptVars, Snapshot!recVars, Snapshot!flagVars
<1>2. PICK k \in 0..Len(wal.frames) : body' = [body EXCEPT ![c] = [file |-> wal, got |-> k]]
  BY DEF Snapshot!UploadStart
<1>3. body'[c].file = wal /\ pc'[c] = "uploading" /\ \A d \in Conn \ {c} : pc'[d] = pc[d] BY <1>1, <1>2 DEF SnapshotTypes
<1>4. ASSUME ~failed', ~overlap' PROVE (Acked /\ Busy /\ DbShows /\ Fresh(L))'
  <2>1. Acked /\ Busy /\ DbShows /\ Fresh(L) BY <1>1, <1>4 DEF AckedOk
  <2>2. Alone(c) /\ Works(c) /\ nBackfill <= mxFrame BY <1>1, <2>1, BusyIs
  <2>3. Acked' /\ DbShows' BY <1>1, <2>1, AckedSame, DbSame
  <2>4. Alone(c)' BY <1>1, <1>3, <2>2 DEF Alone
  <2>5. Works(c)' BY <1>1, <1>3, <2>2 DEF Works
  <2>6. Busy' BY <1>1, <2>2, <2>4, <2>5, BusyIs
  <2>7. ~wal.exists => Uploaded(L)' BY <1>1, <2>1, UploadedSame DEF Fresh
  <2>8. Fresh(L)' BY <1>1, <1>3, <2>1, <2>7 DEF Fresh, UploadPCs
  <2> QED BY <2>3, <2>6, <2>8
<1>5. Image(db') BY <1>1 DEF AckedOk
<1> QED BY <1>1, <1>4, <1>5, CalmOk

\* which it finds unchanged,
LEMMA BodyIsWal ==
    ASSUME NEW L, FilesOk(L), rec = "off", NEW c \in Conn, pc[c] = "uploading", body[c].file = wal
    PROVE  Snapshot!Body(c) = wal
<1> DEFINE n == Len(wal.frames)
           k == body[c].got
           y == IF n > k THEN n ELSE k
           fs == [i \in 1..y |-> IF i <= k THEN wal.frames[i] ELSE wal.frames[i]]
<1>1. FileOk(Len(hist), L, wal) /\ k \in 0..n BY DEF FilesOk, WalOk, BodyOk
<1>2. /\ wal = [exists |-> wal.exists, salt |-> wal.salt, frames |-> wal.frames]
      /\ IsSeq(wal.frames) /\ n \in Nat
  BY <1>1 DEF FileOk, IsSeq
<1>3. y = n
  <2> HIDE DEF n, k
  <2> QED BY <1>1, <1>2
<1>4. Snapshot!Body(c) = [wal EXCEPT !.frames = fs] BY DEF Snapshot!Body
<1> HIDE DEF y
<1>5. fs = [i \in 1..n |-> fs[i]] /\ \A i \in 1..n : fs[i] = wal.frames[i] BY <1>3
<1> HIDE DEF fs
<1>6. IsSeq(fs) /\ Len(fs) = n BY <1>2, <1>5, SeqOfLength
<1>7. fs = wal.frames BY <1>2, <1>5, <1>6, SameSeq
<1>8. [wal EXCEPT !.frames = fs] = wal BY <1>2, <1>7
<1> QED BY <1>4, <1>8

\* so that what is sent is the file,
LEMMA AckedUploadRest ==
    ASSUME NEW L, SnapshotTypes, FilesOk(L), AckedOk(L), NEW c \in Conn, Snapshot!UploadRest(c)
    PROVE  AckedOk(L)'
<1>1. /\ pc[c] = "uploading" /\ pc' = [pc EXCEPT ![c] = "sent"] /\ rec = "off" /\ rec' = rec
      /\ body' = [body EXCEPT ![c].file = Snapshot!Body(c)]
      /\ UNCHANGED <<db, object, wal, mxFrame, nBackfill, todo, mxSafeFrame, version, hist, acked, failed, overlap>>
  BY DEF Snapshot!UploadRest, Snapshot!Running, Snapshot!Goto, Snapshot!fileVars, Snapshot!shmVars,
     Snapshot!ckptVars, Snapshot!recVars, Snapshot!flagVars
<1>2. body'[c].file = Snapshot!Body(c) /\ pc'[c] = "sent" /\ \A d \in Conn \ {c} : pc'[d] = pc[d]
  <2>1. body[c] = [file |-> body[c].file, got |-> body[c].got] BY DEF SnapshotTypes
  <2>2. PICK b : b = Snapshot!Body(c) OBVIOUS
  <2>3. body' = [body EXCEPT ![c].file = b] BY <1>1, <2>2
  <2> QED BY <1>1, <2>1, <2>2, <2>3 DEF SnapshotTypes
<1>4. ASSUME ~failed', ~overlap' PROVE (Acked /\ Busy /\ DbShows /\ Fresh(L))'
  <2>1. Acked /\ Busy /\ DbShows /\ Fresh(L) BY <1>1, <1>4 DEF AckedOk
  <2>2. Alone(c) /\ Works(c) /\ nBackfill <= mxFrame BY <1>1, <2>1, BusyIs
  <2>3. Acked' /\ DbShows' BY <1>1, <2>1, AckedSame, DbSame
  <2>4. Alone(c)' BY <1>1, <1>2, <2>2 DEF Alone
  <2>5. body[c].file = wal BY <1>1, <2>2 DEF Works
  <2>6. body'[c].file = wal BY <1>1, <1>2, <2>5, BodyIsWal
  <2>7. Works(c)' BY <1>1, <1>2, <2>2, <2>6 DEF Works
  <2>8. Busy' BY <1>1, <2>2, <2>4, <2>7, BusyIs
  <2>9. ~wal.exists => Uploaded(L)' BY <1>1, <2>1, UploadedSame DEF Fresh
  <2>10. Fresh(L)' BY <1>1, <1>2, <2>1, <2>9 DEF Fresh, UploadPCs
  <2> QED BY <2>3, <2>8, <2>10
<1>5. Image(db') BY <1>1 DEF AckedOk
<1> QED BY <1>1, <1>4, <1>5, CalmOk

\* and it becomes the object, which shows the last version.
LEMMA AckedUploadEnd ==
    ASSUME NEW L, SnapshotTypes, FilesOk(L), AckedOk(L), NEW c \in Conn, Snapshot!UploadEnd(c)
    PROVE  AckedOk(L)'
<1>1. /\ pc[c] = "sent" /\ pc' = [pc EXCEPT ![c] = "hook"] /\ rec = "off" /\ rec' = rec
      /\ \/ body[c].file.exists /\ object' = body[c].file /\ failed' = failed
         \/ failed' = TRUE
         \/ ~body[c].file.exists /\ UNCHANGED <<object, failed>>
      /\ UNCHANGED <<db, wal, mxFrame, nBackfill, todo, mxSafeFrame, version, hist, acked, overlap>>
  BY DEF Snapshot!UploadEnd, Snapshot!Running, Snapshot!Proceed, Snapshot!NextCallback, Snapshot!Goto,
     Snapshot!shmVars, Snapshot!ckptVars, Snapshot!recVars
<1>2. pc'[c] = "hook" /\ \A d \in Conn \ {c} : pc'[d] = pc[d] BY <1>1 DEF SnapshotTypes
<1>3. HistOk(hist) /\ LogsOk(hist, L) /\ FileOk(Len(hist), L, wal) /\ HasLog(L, wal) BY <1>1 DEF FilesOk, WalOk
<1>4. ASSUME ~failed', ~overlap' PROVE (Acked /\ Busy /\ DbShows /\ Fresh(L))'
  <2>1. Acked /\ Busy /\ DbShows /\ Fresh(L) /\ Image(db) BY <1>1, <1>4 DEF AckedOk
  <2>2. Alone(c) /\ Works(c) /\ nBackfill <= mxFrame BY <1>1, <2>1, BusyIs
  <2>3. DbShows' BY <1>1, <2>1, DbSame
  <2>4. Alone(c)' BY <1>1, <1>2, <2>2 DEF Alone
  <2>5. Works(c)' BY <1>1, <1>2, <2>2 DEF Works
  <2>6. Busy' BY <1>1, <2>2, <2>4, <2>5, BusyIs
  <2>7. body[c].file = wal BY <1>1, <2>2 DEF Works
  <2>8. Uploaded(L)'
    <3>1. CASE wal.exists /\ object' = wal
      <4>1. ASSUME NEW p \in Snapshot!Page
            PROVE  Shown(db, wal.frames, Snapshot!LastCommit(wal), p) = hist[Len(hist)][p]
        <5> DEFINE m == Snapshot!LastCommit(wal)
                   i == Newest(wal.frames, m, p)
        <5>1. m = mxFrame /\ mxFrame \in Nat BY <1>1, WalShows
        <5>2. /\ i \in Nat /\ (i > 0 => Shown(db, wal.frames, m, p) = hist[Len(hist)][p])
              /\ i = 0 => Shown(db, wal.frames, m, p) = db[p]
          <6>1. PICK h, d, f : h = hist /\ d = db /\ f = wal OBVIOUS
          <6>2. HistOk(h) /\ LogsOk(h, L) /\ FileOk(Len(h), L, f) /\ HasLog(L, f) BY <1>3, <6>1
          <6>3. PICK x : x = Snapshot!LastCommit(f) OBVIOUS
          <6>4. /\ Newest(f.frames, x, p) \in Nat
                /\ Newest(f.frames, x, p) > 0 => Shown(d, f.frames, x, p) = h[Len(h)][p]
                /\ Newest(f.frames, x, p) = 0 => Shown(d, f.frames, x, p) = d[p]
            BY <6>2, <6>3, LogShows
          <6> QED BY <6>1, <6>3, <6>4
        <5>3. i <= nBackfill => db[p] = hist[Len(hist)][p] BY <2>1, <5>1 DEF DbShows, LastShown
        <5> HIDE DEF i, m
        <5>4. i = 0 => i <= nBackfill BY DEF SnapshotTypes
        <5>5. i > 0 \/ i = 0 BY <5>2
        <5>6. Shown(db, wal.frames, m, p) = hist[Len(hist)][p] BY <5>2, <5>3, <5>4, <5>5
        <5> QED BY <5>6 DEF m
      <4>2. ShowsLast(object)' BY <1>1, <3>1, <4>1 DEF ShowsLast
      <4>3. wal'.salt # 0 => object'.exists /\ object'.salt = wal'.salt /\ HasLog(L, object') BY <1>1, <1>3, <3>1
      <4> QED BY <4>2, <4>3 DEF Uploaded
    <3>2. CASE ~wal.exists /\ object' = object
      <4>1. Uploaded(L) BY <2>1, <3>2 DEF Fresh
      <4> QED BY <1>1, <3>2, <4>1, UploadedSame
    <3> QED BY <1>1, <1>4, <2>7, <3>1, <3>2
  <2>9. Fresh(L)' BY <1>1, <2>1, <2>8 DEF Fresh
  <2>10. object'.exists => Snapshot!Opened(db', object') = hist[Len(hist)]
    <3>1. ASSUME object'.exists PROVE Snapshot!Opened(db', object') = hist[Len(hist)]
      <4> DEFINE e == hist[Len(hist)]
      <4>1. Len(hist) \in 1..Len(hist)
        <5> DEFINE u == Len(hist)
        <5>1. u \in Nat /\ u >= 1 BY <1>3 DEF HistOk, IsSeq
        <5> HIDE DEF u
        <5>2. u \in 1..u BY <5>1
        <5> QED BY <5>2 DEF u
      <4>2. Image(e) BY <1>3, <4>1 DEF HistOk
      <4>3. ShowsVersion(db', object', e) BY <1>1, <2>8, <3>1 DEF ShowsVersion, Uploaded, ShowsLast
      <4>4. Image(db') BY <1>1, <2>1
      <4> HIDE DEF e
      <4>5. Snapshot!Opened(db', object') = e BY <4>2, <4>3, <4>4, OpenedLast
      <4> QED BY <4>5 DEF e
    <3> QED BY <3>1
  <2>11. Acked' BY <1>1, <1>3, <2>1, <2>10, Returned
  <2> QED BY <2>3, <2>6, <2>9, <2>11
<1>5. Image(db') BY <1>1 DEF AckedOk
<1> QED BY <1>1, <1>4, <1>5, CalmOk

\* A commit.
LEMMA AckedCommit ==
    ASSUME NEW L, NEW M, SnapshotTypes, FilesOk(L), AckedOk(L), NEW c \in Conn, Snapshot!Commit(c),
           NEW S \in WriteSets, Committed(L, M, S)
    PROVE  AckedOk(M)'
<1> DEFINE u == Len(hist)
           v == Len(hist')
<1>1. /\ Snapshot!Begins(c) /\ pc' = [pc EXCEPT ![c] = "upload"] /\ rec' = rec
      /\ UNCHANGED <<db, object, body, todo, mxSafeFrame, acked, failed>>
      /\ version' = [version EXCEPT ![c] = Len(hist) + 1]
  BY DEF Snapshot!Commit, Snapshot!NextCallback, Snapshot!Goto, Snapshot!ckptVars, Snapshot!recVars
<1>2. rec = "off" BY <1>1 DEF Snapshot!Begins, Snapshot!Running
<1>3. HistOk(hist) /\ NextVersion(hist, Len(hist) + 1, S, hist') BY DEF FilesOk, Committed
<1>4. /\ HistOk(hist') /\ u \in Nat /\ v = u + 1 /\ (\A i \in 1..u : hist'[i] = hist[i])
      /\ \A p \in Snapshot!Page : p \notin S => hist'[v][p] = hist[u][p]
  <2>1. PICK h, k, x : h = hist /\ k = hist' /\ x = Len(hist) + 1 OBVIOUS
  <2>2. /\ HistOk(k) /\ Len(h) = x - 1 /\ Len(k) = x /\ x \in Nat /\ x >= 2
        /\ \A i \in 1..(x - 1) : k[i] = h[i]
        /\ \A p \in Snapshot!Page : k[x][p] = IF p \in S THEN x ELSE h[x - 1][p]
    BY <1>3, <2>1, HistGrows
  <2>3. u = x - 1 /\ v = x BY <2>1, <2>2
  <2> QED BY <2>1, <2>2, <2>3
<1>5. ASSUME ~failed', ~overlap' PROVE (Acked /\ Busy /\ DbShows /\ Fresh(M))'
  <2>1. /\ pc[c] = "idle" /\ Alone(c) /\ (\A d \in Conn : pc[d] = "idle" /\ todo[d] = {})
        /\ Acked /\ DbShows /\ nBackfill <= mxFrame
    BY <1>1, <1>5, Begun
  <2>2. /\ wal'.exists /\ nBackfill' <= mxFrame'
        /\ \A p : Newest(wal'.frames, mxFrame', p) <= nBackfill' =>
                     p \notin S /\ Newest(wal.frames, mxFrame, p) <= nBackfill
    BY <2>1 DEF Committed, SnapshotTypes
  <2>3. pc'[c] = "upload" /\ Alone(c)' BY <1>1, <2>1 DEF SnapshotTypes, Alone
  <2>4. Works(c)' BY <1>1, <2>1, <2>3 DEF Works
  <2>5. Busy' BY <2>2, <2>3, <2>4, BusyIs
  <2>6. Fresh(M)' BY <2>2, <2>3 DEF Fresh, UploadPCs
  <2>7. DbShows'
    <3>1. ASSUME NEW p \in Snapshot!Page, Newest(wal'.frames, mxFrame', p) <= nBackfill'
          PROVE  db[p] = hist'[v][p]
      <4>1. p \notin S /\ Newest(wal.frames, mxFrame, p) <= nBackfill BY <2>2, <3>1
      <4>2. db[p] = hist[u][p] BY <2>1, <4>1 DEF DbShows, LastShown
      <4> QED BY <1>4, <4>1, <4>2
    <3> QED BY <1>1, <2>1, <3>1 DEF DbShows, LastShown
  <2>8. Acked'
    <3>1. /\ acked \in 1..u /\ (\A d \in Conn : version[d] \in 0..u)
          /\ object.exists => \E i \in acked..u : Snapshot!Opened(db, object) = hist[i]
      BY <2>1 DEF Acked
    <3>2. \A d \in Conn : version'[d] = u + 1 \/ version'[d] = version[d] BY <1>1 DEF SnapshotTypes
    <3> HIDE DEF u, v
    <3>3. acked \in 1..v /\ (\A d \in Conn : version'[d] \in 0..v) BY <1>4, <3>1, <3>2
    <3>4. ASSUME object.exists PROVE \E i \in acked..v : Snapshot!Opened(db, object) = hist'[i]
      <4>1. PICK i \in acked..u : Snapshot!Opened(db, object) = hist[i] BY <3>1, <3>4
      <4>2. i \in acked..v /\ i \in 1..u BY <1>4, <3>1
      <4> QED BY <1>4, <4>1, <4>2
    <3> QED BY <1>1, <3>3, <3>4 DEF Acked, v
  <2> QED BY <2>5, <2>6, <2>7, <2>8
<1>6. Image(db') BY <1>1 DEF AckedOk
<1> QED BY <1>1, <1>2, <1>5, <1>6, CalmOk

\* What the database gives does not depend on how often the log is copied.
LEMMA OpenedAgain ==
    ASSUME NEW d, Image(d), NEW f
    PROVE  /\ Image(Snapshot!Opened(d, f))
           /\ Snapshot!Opened(Snapshot!Opened(d, f), f) = Snapshot!Opened(d, f)
<1> DEFINE o == Snapshot!Opened(d, f)
           m == Snapshot!LastCommit(f)
<1>1. Image(o) /\ \A p \in Snapshot!Page : o[p] = Shown(d, f.frames, m, p) BY OpenedIs
<1> HIDE DEF o
<1>2. \A p \in Snapshot!Page : Shown(o, f.frames, m, p) = o[p] BY <1>1 DEF Shown
<1>3. ShowsVersion(o, f, o) BY <1>2 DEF ShowsVersion
<1>4. Snapshot!Opened(o, f) = o BY <1>1, <1>3, OpenedLast
<1> QED BY <1>1, <1>4 DEF o

\* A crash and the steps of the script.
LEMMA AckedScript ==
    ASSUME NEW L, FilesOk(L), AckedOk(L), rec' # "off", UNCHANGED <<object, hist, acked, failed, overlap>>,
           version' = version \/ version' = [c \in Conn |-> 0],
           Image(db'), Snapshot!Opened(db', object) = Snapshot!Opened(db, object), Script'
    PROVE  AckedOk(L)'
<1>1. ASSUME ~failed, ~overlap PROVE Acked'
  <2>1. Acked BY <1>1 DEF AckedOk
  <2>2. acked \in 1..Len(hist) /\ \A c \in Conn : version[c] \in 0..Len(hist) BY <2>1 DEF Acked
  <2>3. \A c \in Conn : version'[c] \in 0..Len(hist)
    <3> DEFINE u == Len(hist)
    <3>1. u \in Nat BY DEF FilesOk, HistOk, IsSeq
    <3> HIDE DEF u
    <3>2. \A c \in Conn : version'[c] = 0 \/ version'[c] = version[c] OBVIOUS
    <3>3. ASSUME NEW c \in Conn PROVE version'[c] \in 0..u
      <4>1. version[c] \in 0..u BY <2>2 DEF u
      <4>2. 0 \in 0..u BY <3>1
      <4> QED BY <3>2, <4>1, <4>2
    <3> QED BY <3>3 DEF u
  <2>4. object'.exists => \E v \in acked..Len(hist) : Snapshot!Opened(db', object') = hist[v] BY <2>1 DEF Acked
  <2> QED BY <2>2, <2>3, <2>4 DEF Acked
<1> QED BY <1>1 DEF AckedOk

\* Each of these steps.
LEMMA AckedRecovery ==
    ASSUME NEW L, SnapshotTypes, FilesOk(L), AckedOk(L), Snapshot!Crash \/ Snapshot!Recover \/ Snapshot!RecKilled
    PROVE  FilesOk(L)' /\ AckedOk(L)'
<1> USE DEF Snapshot!recUnchanged, Snapshot!connVars, Snapshot!flagVars, Snapshot!fileVars
<1>1. Image(db) /\ Script BY DEF AckedOk
<1>2. CASE Snapshot!Crash
  <2>1. /\ rec' = "backup" /\ UNCHANGED <<db, object, hist, acked, failed, overlap>>
        /\ version' = [c \in Conn |-> 0]
    BY <1>2 DEF Snapshot!Crash
  <2>2. Script' BY <2>1 DEF Script
  <2>3. AckedOk(L)' BY <1>1, <2>1, <2>2, AckedScript
  <2> QED BY <2>1, <2>3, FilesLeft
<1>3. CASE Snapshot!RecBackup
  <2>1. /\ rec' = "download" /\ UNCHANGED <<db, object, hist, acked, failed, overlap, version>>
    BY <1>3 DEF Snapshot!RecBackup
  <2>2. Script' BY <2>1 DEF Script
  <2>3. AckedOk(L)' BY <1>1, <2>1, <2>2, AckedScript
  <2> QED BY <2>1, <2>3, FilesLeft
<1>4. CASE Snapshot!RecDownload
  <2>1. /\ UNCHANGED <<db, object, hist, acked, failed, overlap, version>>
        /\ \/ rec' = "checkpoint" /\ object.exists /\ wal' = object
           \/ rec' = "done" /\ ~result'
    BY <1>4 DEF Snapshot!RecDownload, Snapshot!Finish
  <2>2. Script' BY <2>1 DEF Script
  <2>3. AckedOk(L)' BY <1>1, <2>1, <2>2, AckedScript
  <2> QED BY <2>1, <2>3, FilesLeft
<1>5. CASE Snapshot!RecCheckpoint
  <2>1. /\ rec = "checkpoint" /\ UNCHANGED <<object, hist, acked, failed, overlap, version>>
        /\ \/ rec' = "cleanup" /\ db' = Snapshot!Opened(db, wal)
           \/ rec' = "done" /\ ~result' /\ (db' = Snapshot!Opened(db, wal) \/ db' = db)
    BY <1>5 DEF Snapshot!RecCheckpoint, Snapshot!Finish
  <2>2. wal = object /\ object.exists BY <1>1, <2>1 DEF Script
  <2>3. /\ Image(Snapshot!Opened(db, object))
        /\ Snapshot!Opened(Snapshot!Opened(db, object), object) = Snapshot!Opened(db, object)
    BY <1>1, OpenedAgain
  <2>4. Image(db') /\ Snapshot!Opened(db', object) = Snapshot!Opened(db, object) BY <1>1, <2>1, <2>2, <2>3
  <2>5. Script'
    <3>1. CASE rec' = "cleanup" /\ db' = Snapshot!Opened(db, wal)
      <4>1. db' = Snapshot!Opened(db', object') BY <2>1, <2>2, <2>3, <3>1
      <4> QED BY <2>1, <2>2, <3>1, <4>1 DEF Script
    <3>2. CASE rec' = "done" /\ ~result' BY <3>2 DEF Script
    <3> QED BY <2>1, <3>1, <3>2
  <2>6. rec' # "off" BY <2>1
  <2>7. AckedOk(L)' BY <2>1, <2>4, <2>5, <2>6, AckedScript
  <2> QED BY <2>1, <2>6, <2>7, FilesLeft
<1>6. CASE Snapshot!RecCleanup
  <2>1. /\ rec = "cleanup" /\ rec' = "done" /\ UNCHANGED <<db, object, hist, acked, failed, overlap, version>>
    BY <1>6 DEF Snapshot!RecCleanup, Snapshot!Finish
  <2>2. Script' BY <1>1, <2>1 DEF Script
  <2>3. AckedOk(L)' BY <1>1, <2>1, <2>2, AckedScript
  <2> QED BY <2>1, <2>3, FilesLeft
<1>7. CASE Snapshot!RecKilled
  <2>1. /\ rec' = "backup" /\ UNCHANGED <<db, object, hist, acked, failed, overlap, version>>
    BY <1>7 DEF Snapshot!RecKilled
  <2>2. Script' BY <2>1 DEF Script
  <2>3. AckedOk(L)' BY <1>1, <2>1, <2>2, AckedScript
  <2> QED BY <2>1, <2>3, FilesLeft
<1> QED BY <1>2, <1>3, <1>4, <1>5, <1>6, <1>7 DEF Snapshot!Recover

(***************************************************************************)
(* Mode 1: every step                                                      *)
(***************************************************************************)
\* Nothing changes that is typed.
LEMMA TypesKept ==
    ASSUME SnapshotTypes, UNCHANGED <<pc, body, todo, version, mxSafeFrame, nBackfill, mxFrame, failed, overlap>>
    PROVE  SnapshotTypes'
BY DEF SnapshotTypes

\* Every step leaves functions of the connections behind.
LEMMA StatementTypes ==
    ASSUME NEW L, SnapshotTypes, FilesOk(L), NEW c \in Conn, Snapshot!Statement(c)
    PROVE  SnapshotTypes'
<1> USE DEF Snapshot!fileVars, Snapshot!shmVars, Snapshot!ckptVars, Snapshot!recVars, Snapshot!flagVars, Snapshot!Goto
<1>1. CASE Snapshot!Commit(c)
  <2>1. \E M : \E S \in WriteSets : Committed(L, M, S) BY <1>1, CommitStep
  <2>2. mxFrame' \in Nat BY <2>1 DEF Committed
  <2>3. nBackfill' \in Nat BY <1>1 DEF Snapshot!Commit, SnapshotTypes
  <2>4. overlap' \in BOOLEAN BY <1>1, Zenon DEF Snapshot!Commit, Snapshot!Begins
  <2>5. /\ pc' = [pc EXCEPT ![c] = "upload"] /\ version' = [version EXCEPT ![c] = Len(hist) + 1]
        /\ UNCHANGED <<body, todo, mxSafeFrame, failed>>
    BY <1>1 DEF Snapshot!Commit, Snapshot!NextCallback
  <2> QED BY <2>2, <2>3, <2>4, <2>5 DEF SnapshotTypes
<1>2. CASE Snapshot!Read(c)
  <2>1. overlap' \in BOOLEAN BY <1>2, Zenon DEF Snapshot!Read, Snapshot!Begins
  <2>2. pc' = [pc EXCEPT ![c] = "upload"] /\ UNCHANGED <<version, body, todo, mxSafeFrame, nBackfill, mxFrame, failed>>
    BY <1>2 DEF Snapshot!Read, Snapshot!NextCallback
  <2> QED BY <2>1, <2>2 DEF SnapshotTypes
<1>3. CASE Snapshot!UploadStart(c)
  <2>1. PICK k : body' = [body EXCEPT ![c] = [file |-> wal, got |-> k]] BY <1>3 DEF Snapshot!UploadStart
  <2>2. /\ pc' = [pc EXCEPT ![c] = "uploading"]
        /\ UNCHANGED <<version, todo, mxSafeFrame, nBackfill, mxFrame, failed, overlap>>
    BY <1>3 DEF Snapshot!UploadStart
  <2>3. \A d \in Conn : body'[d] = body[d] \/ body'[d] = [file |-> wal, got |-> k] BY <2>1 DEF SnapshotTypes
  <2>4. \A d \in Conn : body'[d] = [file |-> body'[d].file, got |-> body'[d].got] BY <2>3 DEF SnapshotTypes
  <2> QED BY <2>1, <2>2, <2>4 DEF SnapshotTypes
<1>4. CASE Snapshot!UploadRest(c)
  <2>1. PICK b : b = Snapshot!Body(c) OBVIOUS
  <2>2. body' = [body EXCEPT ![c].file = b] /\ pc' = [pc EXCEPT ![c] = "sent"]
        /\ UNCHANGED <<version, todo, mxSafeFrame, nBackfill, mxFrame, failed, overlap>>
    BY <1>4, <2>1 DEF Snapshot!UploadRest
  <2>3. body[c] = [file |-> body[c].file, got |-> body[c].got] BY DEF SnapshotTypes
  <2>4. \A d \in Conn : body'[d] = body[d] \/ body'[d] = [file |-> b, got |-> body[c].got]
    BY <2>2, <2>3 DEF SnapshotTypes
  <2>5. \A d \in Conn : body'[d] = [file |-> body'[d].file, got |-> body'[d].got] BY <2>4 DEF SnapshotTypes
  <2> QED BY <2>2, <2>5 DEF SnapshotTypes
<1>5. CASE Snapshot!UploadEnd(c)
  <2>1. /\ body' = [body EXCEPT ![c] = [file |-> Snapshot!NoFile, got |-> 0]] /\ pc' = [pc EXCEPT ![c] = "hook"]
        /\ UNCHANGED <<version, todo, mxSafeFrame, nBackfill, mxFrame, overlap>>
    BY <1>5 DEF Snapshot!UploadEnd, Snapshot!Proceed, Snapshot!NextCallback
  <2>2. failed' \in BOOLEAN BY <1>5 DEF Snapshot!UploadEnd, SnapshotTypes
  <2>3. PICK x : x = Snapshot!NoFile OBVIOUS
  <2>4. \A d \in Conn : body'[d] = body[d] \/ body'[d] = [file |-> x, got |-> 0] BY <2>1, <2>3 DEF SnapshotTypes
  <2>5. \A d \in Conn : body'[d] = [file |-> body'[d].file, got |-> body'[d].got] BY <2>4 DEF SnapshotTypes
  <2> QED BY <2>1, <2>2, <2>5 DEF SnapshotTypes
<1>6. CASE Snapshot!Hook(c)
  <2>1. UNCHANGED <<body, nBackfill, mxFrame, failed, overlap>> BY <1>6 DEF Snapshot!Hook
  <2>2. \/ /\ todo' = [todo EXCEPT ![c] = Snapshot!NotCopied] /\ mxSafeFrame' = [mxSafeFrame EXCEPT ![c] = mxFrame]
           /\ pc' = [pc EXCEPT ![c] = "ckpt"] /\ version' = version
        \/ /\ pc' = [pc EXCEPT ![c] = "idle"] /\ version' = [version EXCEPT ![c] = 0]
           /\ UNCHANGED <<todo, mxSafeFrame>>
    BY <1>6 DEF Snapshot!Hook, Snapshot!Proceed, Snapshot!NextCallback, Snapshot!Return
  <2> QED BY <2>1, <2>2 DEF SnapshotTypes
<1>7. CASE Snapshot!Pragma(c)
  <2>1. overlap' \in BOOLEAN BY <1>7, Zenon DEF Snapshot!Pragma, Snapshot!Begins
  <2>2. /\ todo' = [todo EXCEPT ![c] = Snapshot!NotCopied] /\ mxSafeFrame' = [mxSafeFrame EXCEPT ![c] = mxFrame]
        /\ pc' = [pc EXCEPT ![c] = "pragma"] /\ UNCHANGED <<version, body, nBackfill, mxFrame, failed>>
    BY <1>7 DEF Snapshot!Pragma
  <2> QED BY <2>1, <2>2 DEF SnapshotTypes
<1>8. CASE Snapshot!CkptCopy(c)
  <2>1. PICK x : todo' = [todo EXCEPT ![c] = x] BY <1>8 DEF Snapshot!CkptCopy
  <2>2. UNCHANGED <<body, mxFrame, failed, overlap>> BY <1>8 DEF Snapshot!CkptCopy
  <2>3. \/ UNCHANGED <<nBackfill, mxSafeFrame, pc, version>>
        \/ /\ nBackfill' = mxSafeFrame[c] /\ mxSafeFrame' = [mxSafeFrame EXCEPT ![c] = 0]
           /\ \/ pc' = [pc EXCEPT ![c] = "upload"] /\ version' = version
              \/ pc' = [pc EXCEPT ![c] = "idle"] /\ version' = [version EXCEPT ![c] = 0]
    BY <1>8 DEF Snapshot!CkptCopy, Snapshot!Proceed, Snapshot!NextCallback, Snapshot!Return
  <2>4. nBackfill' \in Nat /\ mxSafeFrame' = [d \in Conn |-> mxSafeFrame'[d]] /\ \A d \in Conn : mxSafeFrame'[d] \in Nat
    BY <2>3 DEF SnapshotTypes
  <2>5. pc' = [d \in Conn |-> pc'[d]] /\ version' = [d \in Conn |-> version'[d]] BY <2>3 DEF SnapshotTypes
  <2>6. todo' = [d \in Conn |-> todo'[d]] BY <2>1 DEF SnapshotTypes
  <2> QED BY <2>2, <2>4, <2>5, <2>6 DEF SnapshotTypes
<1>9. CASE Snapshot!Truncate(c)
  <2>1. overlap' \in BOOLEAN BY <1>9, Zenon DEF Snapshot!Truncate, Snapshot!Begins
  <2>2. /\ pc' = [pc EXCEPT ![c] = "upload"] /\ mxFrame' = 0 /\ nBackfill' = 0
        /\ UNCHANGED <<version, body, todo, mxSafeFrame, failed>>
    BY <1>9 DEF Snapshot!Truncate, Snapshot!NextCallback
  <2> QED BY <2>1, <2>2 DEF SnapshotTypes
<1> QED BY <1>1, <1>2, <1>3, <1>4, <1>5, <1>6, <1>7, <1>8, <1>9 DEF Snapshot!Statement

\* So do the others.
LEMMA OtherTypes ==
    ASSUME SnapshotTypes, Snapshot!Close \/ Snapshot!Crash \/ Snapshot!Recover \/ Snapshot!RecKilled
    PROVE  SnapshotTypes'
<1> USE DEF Snapshot!connVars, Snapshot!ckptVars, Snapshot!flagVars
<1>1. CASE Snapshot!Close
  <2>1. mxFrame' = 0 /\ nBackfill' = 0 /\ UNCHANGED <<pc, body, todo, version, mxSafeFrame, failed, overlap>>
    BY <1>1 DEF Snapshot!Close
  <2> QED BY <2>1 DEF SnapshotTypes
<1>2. CASE Snapshot!Crash
  <2>1. /\ mxFrame' = 0 /\ nBackfill' = 0 /\ pc' = [c \in Conn |-> "dead"]
        /\ body' = [c \in Conn |-> [file |-> Snapshot!NoFile, got |-> 0]] /\ todo' = [c \in Conn |-> {}]
        /\ mxSafeFrame' = [c \in Conn |-> 0] /\ version' = [c \in Conn |-> 0] /\ UNCHANGED <<failed, overlap>>
    BY <1>2 DEF Snapshot!Crash
  <2>2. PICK x : x = Snapshot!NoFile OBVIOUS
  <2>3. body' = [c \in Conn |-> [file |-> x, got |-> 0]] BY <2>1, <2>2
  <2>4. \A c \in Conn : body'[c] = [file |-> body'[c].file, got |-> body'[c].got] BY <2>3
  <2> QED BY <2>1, <2>3, <2>4 DEF SnapshotTypes
<1>3. CASE Snapshot!Recover \/ Snapshot!RecKilled
  <2>1. UNCHANGED <<pc, body, todo, version, mxSafeFrame, nBackfill, mxFrame, failed, overlap>>
    BY <1>3 DEF Snapshot!Recover, Snapshot!RecBackup, Snapshot!RecDownload, Snapshot!RecCheckpoint,
       Snapshot!RecCleanup, Snapshot!RecKilled, Snapshot!recUnchanged, Snapshot!shmVars
  <2> QED BY <2>1, TypesKept
<1> QED BY <1>1, <1>2, <1>3

\* A step of a statement.
LEMMA SnapshotStatement ==
    ASSUME NEW L, SnapshotTypes, FilesOk(L), AckedOk(L), NEW c \in Conn, Snapshot!Statement(c)
    PROVE  \E M : FilesOk(M)' /\ AckedOk(M)'
<1> USE DEF Snapshot!fileVars, Snapshot!shmVars, Snapshot!recVars, Snapshot!Goto
<1>1. CASE Snapshot!Commit(c)
  <2>1. PICK M : \E S \in WriteSets : Committed(L, M, S) BY <1>1, CommitStep
  <2>2. PICK S \in WriteSets : Committed(L, M, S) BY <2>1
  <2>3. FilesOk(M)' BY <1>1, <2>2, FilesCommit
  <2>4. AckedOk(M)' BY <1>1, <2>2, AckedCommit
  <2> QED BY <2>3, <2>4
<1>2. CASE Snapshot!Read(c)
  <2>1. UNCHANGED <<hist, object, wal, mxFrame, body, rec>> /\ pc' = [pc EXCEPT ![c] = "upload"]
    BY <1>2 DEF Snapshot!Read, Snapshot!NextCallback
  <2>2. \A d \in Conn : pc'[d] \in {"uploading", "sent"} => pc[d] \in {"uploading", "sent"}
    BY <2>1 DEF SnapshotTypes
  <2>3. FilesOk(L)' BY <2>1, <2>2, FilesKept
  <2> QED BY <1>2, <2>3, AckedRead
<1>3. CASE Snapshot!UploadStart(c) BY <1>3, FilesUploadStart, AckedUploadStart
<1>4. CASE Snapshot!UploadRest(c) BY <1>4, FilesUploadRest, AckedUploadRest
<1>5. CASE Snapshot!UploadEnd(c) BY <1>5, FilesUploadEnd, AckedUploadEnd
<1>6. CASE Snapshot!Hook(c)
  <2>1. UNCHANGED <<hist, object, wal, mxFrame, body, rec>> /\ \E l \in {"ckpt", "idle"} : pc' = [pc EXCEPT ![c] = l]
    BY <1>6 DEF Snapshot!Hook, Snapshot!Proceed, Snapshot!NextCallback
  <2>2. \A d \in Conn : pc'[d] \in {"uploading", "sent"} => pc[d] \in {"uploading", "sent"}
    BY <2>1 DEF SnapshotTypes
  <2>3. FilesOk(L)' BY <2>1, <2>2, FilesKept
  <2> QED BY <1>6, <2>3, AckedHook
<1>7. CASE Snapshot!Pragma(c)
  <2>1. UNCHANGED <<hist, object, wal, mxFrame, body, rec>> /\ pc' = [pc EXCEPT ![c] = "pragma"]
    BY <1>7 DEF Snapshot!Pragma
  <2>2. \A d \in Conn : pc'[d] \in {"uploading", "sent"} => pc[d] \in {"uploading", "sent"}
    BY <2>1 DEF SnapshotTypes
  <2>3. FilesOk(L)' BY <2>1, <2>2, FilesKept
  <2> QED BY <1>7, <2>3, AckedPragma
<1>8. CASE Snapshot!CkptCopy(c)
  <2>1. /\ UNCHANGED <<hist, object, wal, mxFrame, body, rec>>
        /\ pc' = pc \/ \E l \in {"upload", "idle"} : pc' = [pc EXCEPT ![c] = l]
    BY <1>8 DEF Snapshot!CkptCopy, Snapshot!Proceed, Snapshot!NextCallback
  <2>2. \A d \in Conn : pc'[d] \in {"uploading", "sent"} => pc[d] \in {"uploading", "sent"}
    BY <2>1 DEF SnapshotTypes
  <2>3. FilesOk(L)' BY <2>1, <2>2, FilesKept
  <2> QED BY <1>8, <2>3, AckedCkptCopy
<1>9. CASE Snapshot!Truncate(c)
  <2>1. /\ rec = "off" /\ UNCHANGED <<hist, object, body, rec>> /\ pc' = [pc EXCEPT ![c] = "upload"]
        /\ wal' = Snapshot!EmptyFile /\ mxFrame' = 0
    BY <1>9 DEF Snapshot!Truncate, Snapshot!NextCallback, Snapshot!Begins, Snapshot!Running
  <2>2. \A d \in Conn : pc'[d] \in {"uploading", "sent"} => pc[d] \in {"uploading", "sent"}
    BY <2>1 DEF SnapshotTypes
  <2>3. FilesOk(L)' BY <2>1, <2>2, FilesEmptied
  <2> QED BY <1>9, <2>3, AckedTruncate
<1> QED BY <1>1, <1>2, <1>3, <1>4, <1>5, <1>6, <1>7, <1>8, <1>9 DEF Snapshot!Statement

\* SnapshotInv is inductive,
LEMMA SnapshotNext == ASSUME SnapshotInv, Snapshot!Next PROVE SnapshotInv'
<1>1. SnapshotTypes BY DEF SnapshotInv
<1>2. PICK L : FilesOk(L) /\ AckedOk(L) BY DEF SnapshotInv
<1>3. CASE \E c \in Conn : Snapshot!Statement(c)
  <2>1. PICK c \in Conn : Snapshot!Statement(c) BY <1>3
  <2>2. SnapshotTypes' BY <1>1, <1>2, <2>1, StatementTypes
  <2>3. \E M : FilesOk(M)' /\ AckedOk(M)' BY <1>1, <1>2, <2>1, SnapshotStatement
  <2> QED BY <2>2, <2>3 DEF SnapshotInv
<1>4. CASE Snapshot!Close
  <2>1. /\ rec = "off" /\ UNCHANGED <<hist, object, body, rec, pc>> /\ wal' = Snapshot!NoFile /\ mxFrame' = 0
    BY <1>4 DEF Snapshot!Close, Snapshot!Running, Snapshot!connVars, Snapshot!recVars
  <2>2. FilesOk(L)' BY <1>2, <2>1, FilesEmptied
  <2>3. AckedOk(L)' BY <1>1, <1>2, <1>4, AckedClose
  <2>4. SnapshotTypes' BY <1>1, <1>4, OtherTypes
  <2> QED BY <2>2, <2>3, <2>4 DEF SnapshotInv
<1>5. CASE Snapshot!Crash \/ Snapshot!Recover \/ Snapshot!RecKilled
  <2>1. FilesOk(L)' /\ AckedOk(L)' BY <1>1, <1>2, <1>5, AckedRecovery
  <2>2. SnapshotTypes' BY <1>1, <1>5, OtherTypes
  <2> QED BY <2>1, <2>2 DEF SnapshotInv
<1> QED BY <1>3, <1>4, <1>5 DEF Snapshot!Next

\* holds at the beginning,
LEMMA SnapshotInit == ASSUME Snapshot!Init PROVE SnapshotInv
<1>1. PICK L : L = [s \in Nat |-> <<>>] OBVIOUS
<1>2. /\ db = [p \in Snapshot!Page |-> 1] /\ wal = Snapshot!NoFile /\ object = Snapshot!NoFile
      /\ mxFrame = 0 /\ nBackfill = 0
      /\ pc = [c \in Conn |-> "idle"] /\ body = [c \in Conn |-> [file |-> Snapshot!NoFile, got |-> 0]]
      /\ todo = [c \in Conn |-> {}] /\ mxSafeFrame = [c \in Conn |-> 0] /\ version = [c \in Conn |-> 0]
      /\ rec = "off" /\ hist = <<db>> /\ acked = 1 /\ failed = FALSE /\ overlap = FALSE
  BY DEF Snapshot!Init
<1>3. SnapshotTypes
  <2>1. PICK x : x = Snapshot!NoFile OBVIOUS
  <2>2. body = [c \in Conn |-> [file |-> x, got |-> 0]] BY <1>2, <2>1
  <2>3. \A c \in Conn : body[c] = [file |-> body[c].file, got |-> body[c].got] BY <2>2
  <2>4. body = [c \in Conn |-> body[c]] BY <2>2
  <2> QED BY <1>2, <2>3, <2>4 DEF SnapshotTypes
<1>4. Image(db) BY <1>2 DEF Image
<1>5. HistOk(hist) /\ Len(hist) = 1 /\ hist[1] = db
  <2>1. PICK d : d = db OBVIOUS
  <2>2. hist = <<d>> BY <1>2, <2>1
  <2>3. Len(hist) = 1 /\ hist[1] = d /\ hist \in Seq({d}) BY <2>2
  <2>4. IsSeq(hist) BY <2>3, SeqOfAny
  <2> QED BY <1>4, <2>1, <2>3, <2>4 DEF HistOk
<1>6. IsSeq(<<>>) /\ Len(<<>>) = 0
  <2>1. <<>> \in Seq(Nat) OBVIOUS
  <2> QED BY <2>1, SeqOfAny
<1>8. LogsOk(hist, L)
  <2>1. ASSUME NEW s \in Nat
        PROVE  /\ IsSeq(L[s]) /\ Salted(L[s], Len(L[s]), s)
               /\ s \in 2..(Len(hist) + 1) => LogOf(hist, s, L[s])
               /\ s > Len(hist) => Len(L[s]) = 0
    <3>1. L[s] = <<>> /\ IsSeq(L[s]) /\ Len(L[s]) = 0 BY <1>1, <1>6
    <3>2. Salted(L[s], Len(L[s]), s) BY <3>1 DEF Salted
    <3>3. ASSUME s = 2 PROVE LogOf(hist, s, L[s])
      <4>1. \A p : Newest(L[s], 0, p) = 0
        <5>1. 0 \in Nat /\ \A p : \A i \in 1..0 : L[s][i].pgno # p OBVIOUS
        <5> QED BY <5>1, NewestNone
      <4>2. \A p : Shown(hist[1], L[s], 0, p) = hist[1][p] BY <4>1 DEF Shown
      <4>3. s - 1 = 1 BY <3>3
      <4> QED BY <1>5, <3>1, <4>2, <4>3 DEF LogOf
    <3>4. s \in 2..(Len(hist) + 1) => s = 2 BY <1>5
    <3> QED BY <3>1, <3>2, <3>3, <3>4
  <2> QED BY <2>1 DEF LogsOk
<1>9. /\ wal = [exists |-> FALSE, salt |-> 0, frames |-> <<>>] /\ object = wal
      /\ wal.salt = 0 /\ wal.frames = <<>> /\ ~wal.exists /\ wal.exists \in BOOLEAN
  <2>1. wal = [exists |-> FALSE, salt |-> 0, frames |-> <<>>] /\ object = wal BY <1>2 DEF Snapshot!NoFile
  <2> QED BY <2>1
<1>10. FileOk(Len(hist), L, wal) BY <1>6, <1>9 DEF FileOk, FramesOk
<1>11. FilesOk(L)
  <2>1. WalOk(L) BY <1>2, <1>9, <1>10 DEF WalOk, HasLog
  <2>2. BodyOk(L) BY <1>2 DEF BodyOk
  <2> QED BY <1>5, <1>8, <1>9, <1>10, <2>1, <2>2 DEF FilesOk
<1>12. AckedOk(L)
  <2>1. Acked BY <1>2, <1>5, <1>9 DEF Acked
  <2>2. Busy BY <1>2 DEF Busy
  <2>3. DbShows BY <1>5 DEF DbShows, LastShown
  <2>4. Uploaded(L) BY <1>9 DEF Uploaded
  <2>5. Fresh(L) BY <1>9, <2>4 DEF Fresh
  <2>6. Script BY <1>2 DEF Script
  <2> QED BY <1>4, <2>1, <2>2, <2>3, <2>5, <2>6 DEF AckedOk
<1> QED BY <1>3, <1>11, <1>12 DEF SnapshotInv

\* and implies the properties of mode 1.
LEMMA SnapshotInvImplies == ASSUME SnapshotInv PROVE Snapshot!ObjectIsVersion /\ Snapshot!AckedIsRecovered
<1>1. PICK L : FilesOk(L) /\ AckedOk(L) BY DEF SnapshotInv
<1>2. Snapshot!ObjectIsVersion
  <2>1. HistOk(hist) /\ LogsOk(hist, L) /\ FileOk(Len(hist), L, object) BY <1>1 DEF FilesOk
  <2>2. ASSUME object.salt # 0 PROVE \E v \in 1..Len(hist) : Snapshot!Opened(hist[object.salt - 1], object) = hist[v]
    BY <2>1, <2>2, FileIsVersion
  <2> QED BY <2>2 DEF Snapshot!ObjectIsVersion
<1>3. Snapshot!AckedIsRecovered
  <2>1. ASSUME rec = "done", result, ~failed, ~overlap PROVE \E v \in acked..Len(hist) : db = hist[v]
    <3>1. Script /\ Acked BY <1>1, <2>1 DEF AckedOk
    <3>2. object.exists /\ db = Snapshot!Opened(db, object) BY <2>1, <3>1 DEF Script
    <3>3. PICK o : o = Snapshot!Opened(db, object) OBVIOUS
    <3>4. \E v \in acked..Len(hist) : o = hist[v] BY <3>1, <3>2, <3>3 DEF Acked
    <3>5. o = db BY <3>2, <3>3
    <3> QED BY <3>4, <3>5
  <2> QED BY <2>1 DEF Snapshot!AckedIsRecovered
<1> QED BY <1>2, <1>3

(***************************************************************************)
(* Mode 2                                                                  *)
(***************************************************************************)
Uploads(c) == pc[c] \in {"uploading", "sending"}

\* While no thread has used the buffer during another's upload: the object is
\* a prefix of the stream; what is behind cur_aws_off in the stream is the
\* buffer; the object has as much as cur_aws_off, or less after a failure; and
\* an upload that is under way is one of the whole buffer to cur_aws_off.
PrefixOk ==
    /\ Len(object.frames) <= Len(stream)
    /\ \A i \in 1..Len(object.frames) : object.frames[i] = stream[i]
BufferOk ==
    /\ cur_aws_off \in Nat /\ cur_aws_off + Len(buf) = Len(stream)
    /\ \A i \in 1..Len(buf) : stream[cur_aws_off + i] = buf[i]
    /\ Len(object.frames) <= cur_aws_off /\ (~failed => Len(object.frames) = cur_aws_off)
SentOk ==
    /\ \A c, d \in Conn : Uploads(c) /\ Uploads(d) => c = d
    /\ \A c \in Conn : Uploads(c) => sent[c].len = Len(buf) /\ sent[c].off = cur_aws_off
    /\ \A c \in Conn : pc[c] = "sending" => sent[c].frames = buf
BufferUsed == buf # <<>> => \E c \in Conn : pc[c] # "idle"

PartialTypes ==
    /\ pc = [c \in Conn |-> pc[c]] /\ sent = [c \in Conn |-> sent[c]]
    /\ \A c \in Conn : sent[c].len \in Nat /\ IsSeq(sent[c].frames)
    /\ IsSeq(stream) /\ IsSeq(object.frames) /\ IsSeq(buf) /\ overlap \in BOOLEAN /\ failed \in BOOLEAN
PartialOk ==
    ~overlap => PrefixOk /\ (rec = "off" => BufferOk /\ SentOk /\ BufferUsed)
PartialInv == PartialTypes /\ PartialOk

\* The frames of a commit are a sequence.
LEMMA CommitFramesSeq ==
    ASSUME NEW S \in SUBSET (1..MaxPage), NEW v, NEW salt
    PROVE  IsSeq(Partial!CommitFrames(S, v, salt))
<1>1. Partial!Cardinality(S) \in Nat
  <2>1. MaxPage \in Nat BY S3Assumption DEF Partial!PartialConstants
  <2>2. IsFiniteSet(1..MaxPage) BY <2>1, FS_Interval
  <2>3. Cardinality(S) \in Nat BY <2>2, FS_Subset, FS_CardinalityType
  <2> QED BY <2>3 DEF Cardinality, Partial!Cardinality, IsFiniteSet, Partial!IsFiniteSet
<1> QED BY <1>1, SeqOfLength DEF Partial!CommitFrames

\* Frames that a thread puts into the buffer, on its way to an upload.
LEMMA WritesFrames ==
    ASSUME PartialInv, rec = "off", rec' = rec, NEW c \in Conn, NEW fs, IsSeq(fs),
           Partial!UsesBuffer(c), buf' = buf \o fs, stream' = stream \o fs,
           UNCHANGED <<object, cur_aws_off, sent, failed>>,
           NEW l \in {"txn", "upload"}, pc' = [pc EXCEPT ![c] = l], ~Uploads(c)
    PROVE  PartialInv'
<1> USE DEF PartialInv, PartialTypes
<1>0. /\ Len(stream) \in Nat /\ Len(buf) \in Nat /\ Len(fs) \in Nat /\ Len(object.frames) \in Nat
  BY DEF IsSeq
<1>1. /\ IsSeq(buf') /\ Len(buf') = Len(buf) + Len(fs)
      /\ \A i \in 1..Len(buf) : buf'[i] = buf[i]
      /\ \A i \in 1..Len(fs) : buf'[Len(buf) + i] = fs[i]
  BY Joined
<1>2. /\ IsSeq(stream') /\ Len(stream') = Len(stream) + Len(fs)
      /\ \A i \in 1..Len(stream) : stream'[i] = stream[i]
      /\ \A i \in 1..Len(fs) : stream'[Len(stream) + i] = fs[i]
  BY Joined
<1>3. pc'[c] = l /\ (\A d \in Conn : d # c => pc'[d] = pc[d]) /\ pc' = [d \in Conn |-> pc'[d]]
  OBVIOUS
<1>4. overlap' \in BOOLEAN /\ (~overlap' => ~overlap /\ \A d \in Conn : d # c => ~Uploads(d))
  BY DEF Partial!UsesBuffer, Uploads
<1>5. ASSUME ~overlap' PROVE PrefixOk' /\ BufferOk' /\ SentOk' /\ BufferUsed'
  <2>1. PrefixOk /\ BufferOk BY <1>4, <1>5 DEF PartialOk
  <2>2. PrefixOk' BY <1>0, <1>2, <2>1 DEF PrefixOk
  <2>3. BufferOk'
    <3>0. cur_aws_off \in Nat /\ cur_aws_off + Len(buf) = Len(stream) BY <2>1 DEF BufferOk
    <3>1. cur_aws_off + Len(buf') = Len(stream')
      <4> DEFINE b == Len(buf)
                 k == Len(stream)
                 n == Len(fs)
      <4>1. b \in Nat /\ k \in Nat /\ n \in Nat /\ cur_aws_off \in Nat /\ cur_aws_off + b = k
        BY <1>0, <3>0, Zenon
      <4> HIDE DEF b, k, n, PartialInv, PartialTypes
      <4>2. cur_aws_off + (b + n) = k + n BY <4>1
      <4> QED BY <1>1, <1>2, <4>2, Zenon DEF b, k, n
    <3>2. ASSUME NEW i \in 1..Len(buf') PROVE stream'[cur_aws_off + i] = buf'[i]
      <4>1. CASE i \in 1..Len(buf)
        BY <1>0, <1>1, <1>2, <2>1, <4>1 DEF BufferOk
      <4>2. CASE i \notin 1..Len(buf)
        <5>1. PICK j \in 1..Len(fs) : i = Len(buf) + j
          <6>1. i - Len(buf) \in 1..Len(fs) BY <1>0, <1>1, <4>2
          <6> QED BY <1>0, <6>1
        <5>2. cur_aws_off + i = Len(stream) + j BY <1>0, <2>1, <5>1 DEF BufferOk
        <5> QED BY <1>1, <1>2, <5>1, <5>2
      <4> QED BY <4>1, <4>2
    <3> QED BY <2>1, <3>1, <3>2 DEF BufferOk
  <2>4. SentOk' BY <1>3, <1>4, <1>5 DEF SentOk, Uploads
  <2>5. BufferUsed' BY <1>3 DEF BufferUsed
  <2> QED BY <2>2, <2>3, <2>4, <2>5
<1> QED BY <1>1, <1>2, <1>3, <1>4, <1>5 DEF PartialOk

\* A thread that goes on without the buffer.
LEMMA GoesOnAlone ==
    ASSUME PartialInv, rec = "off", rec' = rec, NEW c \in Conn,
           UNCHANGED <<buf, stream, object, cur_aws_off, sent, failed, overlap>>,
           pc' = pc \/ (~Uploads(c) /\ pc' = [pc EXCEPT ![c] = "upload"])
    PROVE  PartialInv'
<1> USE DEF PartialInv, PartialTypes
<1>1. pc' = [d \in Conn |-> pc'[d]] /\ \A d \in Conn : pc'[d] = pc[d] \/ pc'[d] = "upload"
  OBVIOUS
<1>2. PrefixOk => PrefixOk' BY DEF PrefixOk
<1>3. BufferOk => BufferOk' BY DEF BufferOk
<1>4. SentOk => SentOk' BY <1>1 DEF SentOk, Uploads
<1>5. BufferUsed => BufferUsed' BY <1>1 DEF BufferUsed
<1> QED BY <1>1, <1>2, <1>3, <1>4, <1>5 DEF PartialOk

\* sqlite3WalCallback starts the command and the command reads the file.
LEMMA UploadStarted ==
    ASSUME PartialInv, NEW c \in Conn, Partial!UploadStart(c) \/ Partial!UploadRead(c)
    PROVE  PartialInv'
<1> USE DEF PartialInv, PartialTypes
<1>0. /\ UNCHANGED <<buf, stream, object, cur_aws_off, failed, rec>> /\ rec = "off"
      /\ Len(buf) \in Nat
  BY DEF Partial!UploadStart, Partial!UploadRead, Partial!awsVars, Partial!recVars, Partial!histVars, Partial!flagVars,
     Partial!Running, IsSeq
<1>1. CASE Partial!UploadStart(c)
  <2>1. /\ pc' = [pc EXCEPT ![c] = "uploading"] /\ sent' = [sent EXCEPT ![c] = Partial!Sent(Len(buf), cur_aws_off, <<>>)]
        /\ overlap' = (overlap \/ \E d \in Conn \ {c} : Uploads(d))
    BY <1>1 DEF Partial!UploadStart, Partial!Goto, Partial!UsesBuffer, Uploads
  <2>2. /\ pc'[c] = "uploading" /\ (\A d \in Conn : d # c => pc'[d] = pc[d] /\ sent'[d] = sent[d])
        /\ pc' = [d \in Conn |-> pc'[d]] /\ sent' = [d \in Conn |-> sent'[d]]
        /\ sent'[c].len = Len(buf) /\ sent'[c].off = cur_aws_off /\ sent'[c].frames = <<>>
    BY <2>1 DEF Partial!Sent
  <2>x. IsSeq(<<>>) BY DEF IsSeq
  <2>y. \A d \in Conn : sent'[d].len \in Nat /\ IsSeq(sent'[d].frames) BY <1>0, <2>2, <2>x
  <2>3. overlap' \in BOOLEAN /\ (~overlap' => ~overlap /\ \A d \in Conn : d # c => ~Uploads(d))
    BY <2>1
  <2>4. ASSUME ~overlap' PROVE PrefixOk' /\ BufferOk' /\ SentOk' /\ BufferUsed'
    <3>1. PrefixOk /\ BufferOk BY <1>0, <2>3, <2>4 DEF PartialOk
    <3>2. PrefixOk' /\ BufferOk' BY <1>0, <3>1 DEF PrefixOk, BufferOk
    <3>3. SentOk' BY <1>0, <2>2, <2>3, <2>4 DEF SentOk, Uploads
    <3>4. BufferUsed' BY <2>2 DEF BufferUsed
    <3> QED BY <3>2, <3>3, <3>4
  <2> QED BY <1>0, <2>2, <2>3, <2>4, <2>y DEF PartialOk
<1>2. CASE Partial!UploadRead(c)
  <2> DEFINE fs == [i \in 1..sent[c].len |-> IF i <= Len(buf) THEN buf[i] ELSE Partial!Blank]
  <2>1. /\ pc' = [pc EXCEPT ![c] = "sending"] /\ sent' = [sent EXCEPT ![c] = Partial!Sent(sent[c].len, sent[c].off, fs)]
        /\ overlap' = overlap /\ Uploads(c)
    BY <1>2 DEF Partial!UploadRead, Partial!Goto, Partial!histVars, Partial!flagVars, Uploads
  <2>2. /\ pc'[c] = "sending" /\ (\A d \in Conn : d # c => pc'[d] = pc[d] /\ sent'[d] = sent[d])
        /\ pc' = [d \in Conn |-> pc'[d]] /\ sent' = [d \in Conn |-> sent'[d]]
        /\ sent'[c].len = sent[c].len /\ sent'[c].off = sent[c].off /\ sent'[c].frames = fs
    BY <2>1 DEF Partial!Sent
  <2>3. IsSeq(fs) BY SeqOfLength
  <2>y. \A d \in Conn : sent'[d].len \in Nat /\ IsSeq(sent'[d].frames)
    <3> HIDE DEF fs
    <3> QED BY <2>2, <2>3
  <2>4. ASSUME ~overlap' PROVE PrefixOk' /\ BufferOk' /\ SentOk' /\ BufferUsed'
    <3>1. PrefixOk /\ BufferOk /\ SentOk BY <1>0, <2>1, <2>4 DEF PartialOk
    <3>2. PrefixOk' /\ BufferOk' BY <1>0, <3>1 DEF PrefixOk, BufferOk
    <3>3. sent[c].len = Len(buf) BY <2>1, <3>1 DEF SentOk
    <3>4. fs = buf
      <4>1. fs = [i \in 1..Len(buf) |-> buf[i]] BY <1>0, <3>3
      <4>2. buf = [i \in 1..Len(buf) |-> buf[i]] BY DEF IsSeq
      <4> QED BY <4>1, <4>2
    <3> HIDE DEF fs
    <3>5. SentOk' BY <1>0, <2>1, <2>2, <3>1, <3>4 DEF SentOk, Uploads
    <3>6. BufferUsed' BY <2>2 DEF BufferUsed
    <3> QED BY <3>2, <3>5, <3>6
  <2> QED BY <1>0, <2>1, <2>2, <2>4, <2>y DEF PartialOk
<1> QED BY <1>1, <1>2

\* The command has ended and the buffer is reset.
LEMMA UploadEnded == ASSUME PartialInv, NEW c \in Conn, Partial!UploadEnd(c) PROVE PartialInv'
<1> USE DEF PartialInv, PartialTypes
<1>0. /\ rec = "off" /\ UNCHANGED <<stream, overlap, rec>> /\ pc[c] = "sending" /\ Uploads(c)
      /\ buf' = <<>> /\ cur_aws_off' = cur_aws_off + Len(buf)
      /\ pc' = [pc EXCEPT ![c] = "idle"] /\ sent' = [sent EXCEPT ![c] = Partial!NothingSent]
  BY DEF Partial!UploadEnd, Partial!Running, Partial!recVars, Partial!BufReset, Partial!NextOffset, Partial!Goto,
     Uploads
<1>1. /\ pc'[c] = "idle" /\ (\A d \in Conn : d # c => pc'[d] = pc[d] /\ sent'[d] = sent[d])
      /\ pc' = [d \in Conn |-> pc'[d]] /\ sent' = [d \in Conn |-> sent'[d]]
  BY <1>0
<1>2. IsSeq(buf') /\ Len(buf') = 0 /\ Len(buf) \in Nat /\ Len(object.frames) \in Nat /\ Len(stream) \in Nat
  BY <1>0 DEF IsSeq
<1>3. IsSeq(<<>>) BY DEF IsSeq
<1>4. sent'[c] = Partial!NothingSent BY <1>0
<1>5. \A d \in Conn : sent'[d].len \in Nat /\ IsSeq(sent'[d].frames)
  BY <1>1, <1>3, <1>4 DEF Partial!NothingSent, Partial!Sent
<1>6. \/ /\ object'.frames = object.frames \o sent[c].frames
         /\ failed' = failed /\ Partial!Accepted(c)
      \/ object' = object /\ failed' = failed /\ ~Partial!Accepted(c)
      \/ object' = object /\ failed' = TRUE
  <2> DEFINE fs == object.frames \o sent[c].frames
  <2> HIDE DEF fs
  <2>1. Partial!File(0, fs).frames = fs BY DEF Partial!File
  <2>2. \/ object' = Partial!File(0, fs) /\ failed' = failed /\ Partial!Accepted(c)
        \/ object' = object /\ failed' = failed /\ ~Partial!Accepted(c)
        \/ object' = object /\ failed' = TRUE
    BY Zenon DEF Partial!UploadEnd, fs
  <2> QED BY <2>1, <2>2, Zenon DEF fs
<1>7. IsSeq(object'.frames) /\ failed' \in BOOLEAN
  <2>1. IsSeq(object.frames \o sent[c].frames) BY Joined
  <2> QED BY <1>6, <2>1, Zenon
<1>8. PartialTypes' BY <1>0, <1>1, <1>2, <1>5, <1>7
<1>9. ASSUME ~overlap PROVE PrefixOk' /\ BufferOk' /\ SentOk' /\ BufferUsed'
  <2>1. PrefixOk /\ BufferOk /\ SentOk BY <1>0, <1>9 DEF PartialOk
  <2>2. sent[c].off = cur_aws_off /\ sent[c].frames = buf BY <1>0, <2>1 DEF SentOk
  <2>3. SentOk' BY <1>0, <1>1, <2>1 DEF SentOk, Uploads
  <2>4. BufferUsed' BY <1>0 DEF BufferUsed
  <2>5. CASE object' = object /\ ((failed' = failed /\ ~Partial!Accepted(c)) \/ failed' = TRUE)
    <3>1. PrefixOk' BY <1>0, <2>1, <2>5 DEF PrefixOk
    <3>2. failed' BY <2>1, <2>2, <2>5 DEF BufferOk, Partial!Accepted
    <3>3. BufferOk' BY <1>0, <1>2, <2>1, <2>5, <3>2 DEF BufferOk
    <3> QED BY <2>3, <2>4, <3>1, <3>3
  <2>6. CASE object'.frames = object.frames \o buf /\ Partial!Accepted(c)
    <3>1. Len(object.frames) = cur_aws_off BY <2>2, <2>6 DEF Partial!Accepted
    <3>2. /\ Len(object'.frames) = cur_aws_off + Len(buf)
          /\ \A i \in 1..cur_aws_off : object'.frames[i] = object.frames[i]
          /\ \A i \in 1..Len(buf) : object'.frames[cur_aws_off + i] = buf[i]
      <4> DEFINE q == object.frames
                 n == Len(q)
                 t == object'.frames
      <4> HIDE DEF q, n, t
      <4>1. IsSeq(q) /\ IsSeq(buf) /\ t = q \o buf BY <2>6 DEF q, t
      <4>2. /\ Len(q \o buf) = Len(q) + Len(buf)
            /\ \A i \in 1..Len(q) : (q \o buf)[i] = q[i]
            /\ \A i \in 1..Len(buf) : (q \o buf)[Len(q) + i] = buf[i]
        BY <4>1, Joined
      <4>3. /\ Len(t) = n + Len(buf)
            /\ \A i \in 1..n : t[i] = q[i]
            /\ \A i \in 1..Len(buf) : t[n + i] = buf[i]
        BY <4>1, <4>2, Zenon DEF n
      <4> QED BY <3>1, <4>3 DEF n, q, t
    <3>3. Len(object'.frames) = Len(stream) BY <2>1, <3>2 DEF BufferOk
    <3>4. ASSUME NEW i \in 1..Len(object'.frames) PROVE object'.frames[i] = stream[i]
      <4>1. CASE i \in 1..cur_aws_off BY <2>1, <3>1, <3>2, <4>1 DEF PrefixOk
      <4>2. CASE i \notin 1..cur_aws_off
        <5>1. i - cur_aws_off \in 1..Len(buf) BY <1>2, <2>1, <3>2, <4>2 DEF BufferOk
        <5>2. i = cur_aws_off + (i - cur_aws_off) BY <2>1, <3>2, <1>2 DEF BufferOk
        <5> QED BY <2>1, <3>2, <5>1, <5>2 DEF BufferOk
      <4> QED BY <4>1, <4>2
    <3>5. PrefixOk' BY <1>0, <1>2, <3>3, <3>4 DEF PrefixOk
    <3>6. BufferOk' BY <1>0, <1>2, <2>1, <3>2 DEF BufferOk
    <3> QED BY <2>3, <2>4, <3>5, <3>6
  <2> QED BY <1>6, <2>2, <2>5, <2>6
<1> QED BY <1>0, <1>8, <1>9 DEF PartialOk

\* The process dies, or the script takes a step: the object stays.
LEMMA RecoverySteps ==
    ASSUME PartialInv,
           Partial!Crash \/ Partial!RecBackup \/ Partial!RecDownload \/ Partial!RecCheckpoint
    PROVE  PartialInv'
<1> USE DEF PartialInv, PartialTypes
<1>1. UNCHANGED <<object, stream, failed, overlap>>
  BY DEF Partial!Crash, Partial!RecBackup, Partial!RecDownload, Partial!RecCheckpoint,
     Partial!recUnchanged, Partial!histVars, Partial!flagVars
<1>2. rec' # "off"
  BY DEF Partial!Crash, Partial!RecBackup, Partial!RecDownload, Partial!RecCheckpoint, Partial!Finish
<1>3. PrefixOk => PrefixOk' BY <1>1 DEF PrefixOk
<1>4. CASE Partial!Crash
  <2>1. /\ buf' = <<>> /\ pc' = [c \in Conn |-> "dead"] /\ sent' = [c \in Conn |-> Partial!NothingSent]
    BY <1>4 DEF Partial!Crash
  <2>2. IsSeq(<<>>) BY DEF IsSeq
  <2>3. \A c \in Conn : sent'[c].len \in Nat /\ IsSeq(sent'[c].frames)
    BY <2>1, <2>2 DEF Partial!NothingSent, Partial!Sent
  <2> QED BY <1>1, <1>2, <1>3, <2>1, <2>2, <2>3 DEF PartialOk
<1>5. CASE UNCHANGED Partial!recUnchanged
  <2>1. UNCHANGED <<buf, pc, sent>> BY <1>5 DEF Partial!recUnchanged, Partial!awsVars
  <2> QED BY <1>1, <1>2, <1>3, <2>1 DEF PartialOk
<1> QED BY <1>4, <1>5 DEF Partial!RecBackup, Partial!RecDownload, Partial!RecCheckpoint

\* Every step of mode 2 keeps PartialInv.
LEMMA PartialNext == ASSUME PartialInv, Partial!Next PROVE PartialInv'
<1> USE DEF Partial!Goto
<1>1. ASSUME NEW c \in Conn, Partial!Spill(c) PROVE PartialInv'
  <2>1. PICK f : /\ Partial!UsesBuffer(c) /\ buf' = buf \o <<f>> /\ stream' = stream \o <<f>>
                 /\ pc' = [pc EXCEPT ![c] = "txn"] /\ pc[c] = "idle" /\ rec = "off" /\ rec' = rec
                 /\ UNCHANGED <<object, cur_aws_off, sent, failed>>
    BY <1>1, Zenon DEF Partial!Spill, Partial!walWriteToLog, Partial!Running, Partial!recVars
  <2>2. IsSeq(<<f>>) BY AppendedIs DEF PartialInv, PartialTypes
  <2>3. ~Uploads(c) BY <2>1 DEF Uploads
  <2> QED BY <2>1, <2>2, <2>3, WritesFrames
<1>2. ASSUME NEW c \in Conn, Partial!Commit(c) PROVE PartialInv'
  <2>1. PICK S, v, salt :
                 LET fs == Partial!CommitFrames(S, v, salt)
                 IN  /\ S \in SUBSET (1..MaxPage)
                     /\ Partial!UsesBuffer(c) /\ buf' = buf \o fs /\ stream' = stream \o fs
    <3>1. PICK S, salt, m, own :
             /\ S \in WriteSets
             /\ Partial!walWriteToLog(c, salt, m,
                  Partial!CommitFrames({p \in S : p = Partial!MaxOf(S) \/ p \notin own}, txn', salt))
      BY <1>2, Zenon DEF Partial!Commit
    <3>2. S \in SUBSET (1..MaxPage) BY <3>1, S3Assumption DEF Partial!PartialConstants
    <3>3. {p \in S : p = Partial!MaxOf(S) \/ p \notin own} \in SUBSET (1..MaxPage) BY <3>2
    <3> QED BY <3>1, <3>3, Zenon DEF Partial!walWriteToLog
  <2>2. /\ pc' = [pc EXCEPT ![c] = "upload"] /\ pc[c] \in {"txn", "idle"} /\ rec = "off" /\ rec' = rec
        /\ UNCHANGED <<object, cur_aws_off, sent, failed>>
    BY <1>2 DEF Partial!Commit, Partial!Running, Partial!recVars
  <2>3. ~Uploads(c) BY <2>2 DEF Uploads
  <2> DEFINE fs == Partial!CommitFrames(S, v, salt)
  <2>4. IsSeq(fs) BY <2>1, CommitFramesSeq
  <2> HIDE DEF fs
  <2>5. Partial!UsesBuffer(c) /\ buf' = buf \o fs /\ stream' = stream \o fs BY <2>1 DEF fs
  <2> QED BY <2>2, <2>3, <2>4, <2>5, WritesFrames
<1>3. ASSUME NEW c \in Conn, Partial!Rollback(c) \/ Partial!Read(c) \/ Partial!Checkpoint(c)
      PROVE  PartialInv'
  <2>1. /\ rec = "off" /\ rec' = rec /\ UNCHANGED <<buf, stream, object, cur_aws_off, sent, failed, overlap>>
        /\ pc' = pc \/ (pc[c] \in {"txn", "idle"} /\ pc' = [pc EXCEPT ![c] = "upload"])
    BY <1>3 DEF Partial!Rollback, Partial!Read, Partial!Checkpoint, Partial!Running, Partial!awsVars,
       Partial!recVars, Partial!histVars, Partial!flagVars
  <2>2. pc[c] \in {"txn", "idle"} => ~Uploads(c) BY DEF Uploads
  <2> QED BY <2>1, <2>2, GoesOnAlone
<1>4. ASSUME NEW c \in Conn,
             Partial!UploadStart(c) \/ Partial!UploadRead(c) \/ Partial!UploadEnd(c)
      PROVE  PartialInv'
  BY <1>4, UploadStarted, UploadEnded
<1> QED BY <1>1, <1>2, <1>3, <1>4, RecoverySteps DEF Partial!Next, Partial!Statement

\* PartialInv holds at the start.
LEMMA PartialInit == ASSUME Partial!Init PROVE PartialInv
<1>1. IsSeq(<<>>) BY DEF IsSeq
<1>2. /\ pc = [c \in Conn |-> "idle"] /\ sent = [c \in Conn |-> Partial!NothingSent] /\ buf = <<>>
      /\ stream = <<>> /\ object.frames = <<>> /\ overlap = FALSE /\ failed = FALSE /\ cur_aws_off = 0
  BY DEF Partial!Init, Partial!NoFile
<1>3. \A c \in Conn : sent[c].len \in Nat /\ IsSeq(sent[c].frames)
  BY <1>1, <1>2 DEF Partial!NothingSent, Partial!Sent
<1>4. PartialTypes BY <1>1, <1>2, <1>3 DEF PartialTypes
<1>5. PrefixOk /\ BufferOk /\ BufferUsed BY <1>2 DEF PrefixOk, BufferOk, BufferUsed
<1>6. SentOk BY <1>2 DEF SentOk, Uploads
<1> QED BY <1>4, <1>5, <1>6 DEF PartialInv, PartialOk

\* PartialInv says what the properties of mode 2 say.
LEMMA PartialInvImplies == ASSUME PartialInv PROVE Partial!StreamIsUploaded /\ Partial!ObjectIsPrefix
<1> USE DEF PartialInv, PartialTypes
<1>1. Partial!ObjectIsPrefix BY PrefixIs DEF PartialOk, PrefixOk, Partial!ObjectIsPrefix
<1>2. Partial!StreamIsUploaded
  <2> SUFFICES ASSUME rec = "off", ~failed, ~overlap, \A c \in Conn : pc[c] = "idle"
               PROVE  object.frames = stream
    BY DEF Partial!StreamIsUploaded, Partial!Running
  <2>1. PrefixOk /\ BufferOk /\ buf = <<>> BY DEF PartialOk, BufferUsed
  <2>2. Len(object.frames) = Len(stream) BY <2>1 DEF BufferOk
  <2> QED BY <2>1, <2>2, SameSeq DEF PrefixOk
<1> QED BY <1>1, <1>2

(***************************************************************************)
(* Mode 3                                                                  *)
(***************************************************************************)
SqlTypes ==
    /\ pc = [c \in Conn |-> pc[c]] /\ autoCommit = [c \in Conn |-> autoCommit[c]]
    /\ stmt = [c \in Conn |-> stmt[c]] /\ left = [c \in Conn |-> left[c]]
    /\ sent = [c \in Conn |-> sent[c]]
    /\ \A c \in Conn : pc[c] = "run" => stmt[c] \in Stmts
    /\ IsSeq(db) /\ IsSeq(pending) /\ IsSeq(ran) /\ IsSeq(copy)
    /\ overlap \in BOOLEAN /\ spoilt \in BOOLEAN /\ torn \in BOOLEAN

\* While no two threads have used the buffer at once: the object is a prefix of
\* what was logged.  The buffer is the end of it, and follows the object
\* without a hole exactly while cur_aws_off is the size that the bucket
\* compares it with; after a lost append it is larger for ever.  An upload that
\* is under way is one of the whole buffer to cur_aws_off.
LogTypes ==
    /\ IsSeq(buf) /\ IsSeq(logged) /\ IsSeq(object)
    /\ aws_off \in Nat /\ cur_aws_off \in Nat /\ size \in Nat
LogPrefix ==
    /\ Len(object) <= Len(logged)
    /\ \A i \in 1..Len(object) : object[i] = logged[i]
LogBuffer ==
    /\ Len(object) + Len(buf) <= Len(logged)
    /\ \A i \in 1..Len(buf) : logged[(Len(logged) - Len(buf)) + i] = buf[i]
    /\ size <= cur_aws_off
    /\ size = cur_aws_off => Len(object) + Len(buf) = Len(logged)
TextSent ==
    /\ \A c, d \in Conn : Uploads(c) /\ Uploads(d) => c = d
    /\ \A c \in Conn : Uploads(c) => /\ sent[c].text = buf /\ sent[c].bytes = aws_off
                                     /\ sent[c].off = cur_aws_off /\ aws_off # 0
LogOk == LogTypes /\ LogPrefix /\ (rec = "off" => LogBuffer /\ TextSent)

\* While moreover every statement is one that its text repeats: one thread at a
\* time is between its text and the end of its statement; the log has the
\* effects of what ran, and the text of that one statement; what ran is the
\* database and the open transaction, of a connection that is not in
\* autocommit mode; the object ends at a commit unless a transaction was open;
\* and the script has executed the object's statements in order.
Uses(c) == pc[c] = "run" \/ Uploads(c)
UsesOnce == \A c, d \in Conn : Uses(c) /\ Uses(d) => c = d
LogIsRan ==
    /\ \A i \in 1..Len(ran) : logged[i].replay = ran[i]
    /\ \/ Len(logged) = Len(ran) /\ \A c \in Conn : pc[c] # "run"
       \/ \E c \in Conn : /\ pc[c] = "run" /\ left[c] = 1 /\ Sql!Faithful(stmt[c])
                          /\ Len(logged) = Len(ran) + 1 /\ logged[Len(ran) + 1] = stmt[c]
RanIsDb ==
    /\ Len(ran) = Len(db) + Len(pending)
    /\ \A i \in 1..Len(pending) : ran[Len(db) + i] = pending[i]
OpenOk == pending # <<>> => writer \in Conn /\ ~autoCommit[writer]
DbIsRan ==
    /\ Len(db) \in states /\ Len(db) <= Len(ran)
    /\ \A i \in 1..Len(db) : ran[i] = db[i]
ObjectIsState ==
    /\ Len(object) <= Len(ran)
    /\ \A i \in 1..Len(object) : object[i].replay = ran[i]
    /\ ~torn => Len(object) \in states /\ Len(object) <= Len(db)
CopyOk ==
    /\ next = Len(copy) + 1 /\ Len(copy) <= Len(object)
    /\ \A i \in 1..Len(copy) : copy[i] = object[i].replay
    /\ rec = "off" => copy = <<>>
    /\ result => rec = "done" /\ Len(copy) = Len(object)
ReplayOk ==
    /\ DbIsRan /\ ObjectIsState /\ CopyOk
    /\ rec = "off" => UsesOnce /\ LogIsRan /\ RanIsDb /\ OpenOk

SqlInv == SqlTypes /\ (~overlap => LogOk) /\ (~overlap /\ ~spoilt => ReplayOk)

\* A statement that goes into the log and into the buffer.
LEMMA TailGrows ==
    ASSUME NEW q, NEW r, NEW e, IsSeq(q), IsSeq(r), Len(r) <= Len(q),
           \A i \in 1..Len(r) : q[(Len(q) - Len(r)) + i] = r[i]
    PROVE  \A i \in 1..(Len(r) + 1) : Append(q, e)[(Len(q) - Len(r)) + i] = Append(r, e)[i]
<1> DEFINE t == Append(q, e)
           u == Append(r, e)
<1>1. /\ Len(t) = Len(q) + 1 /\ Len(q) \in Nat /\ t[Len(q) + 1] = e
      /\ \A i \in 1..Len(q) : t[i] = q[i]
  BY Appended
<1>2. /\ Len(u) = Len(r) + 1 /\ Len(r) \in Nat /\ u[Len(r) + 1] = e
      /\ \A i \in 1..Len(r) : u[i] = r[i]
  BY Appended
<1> HIDE DEF t, u
<1> DEFINE k == Len(q)
           n == Len(r)
<1>3. k \in Nat /\ n \in Nat /\ n <= k /\ Len(t) = k + 1 /\ Len(u) = n + 1 BY <1>1, <1>2
<1>4. ASSUME NEW i \in 1..(n + 1) PROVE t[(k - n) + i] = u[i]
  <2> HIDE DEF k, n
  <2>1. CASE i <= n
    <3>1. i \in 1..n /\ (k - n) + i \in 1..k BY <1>3, <2>1
    <3> QED BY <1>1, <1>2, <3>1 DEF k, n
  <2>2. CASE ~(i <= n)
    <3>1. i = n + 1 /\ (k - n) + i = k + 1 BY <1>3, <2>2
    <3> QED BY <1>1, <1>2, <3>1 DEF k, n
  <2> QED BY <2>1, <2>2
<1> QED BY <1>4 DEF t, u

\* The same as a step: the object stays where it was, and nobody uploads.
LEMMA LogGrows ==
    ASSUME LogOk, rec = "off", rec' = rec, NEW s, s.len \in Nat,
           buf' = Append(buf, s), logged' = Append(logged, s), aws_off' = aws_off + s.len,
           UNCHANGED <<object, size, cur_aws_off>>, \A d \in Conn : pc'[d] \notin {"uploading", "sending"}
    PROVE  LogOk'
<1>1. /\ IsSeq(buf) /\ IsSeq(logged) /\ IsSeq(object) /\ Len(buf) \in Nat /\ Len(logged) \in Nat
      /\ Len(object) \in Nat
  BY DEF LogOk, LogTypes, IsSeq
<1>2. LogPrefix /\ LogBuffer BY DEF LogOk
<1>4. IsSeq(buf') /\ Len(buf') = Len(buf) + 1 BY <1>1, Appended
<1>5. /\ IsSeq(logged') /\ Len(logged') = Len(logged) + 1
      /\ \A i \in 1..Len(logged) : logged'[i] = logged[i]
  BY <1>1, Appended
<1>6. LogPrefix' BY <1>1, <1>2, <1>4, <1>5 DEF LogPrefix
<1>7. /\ Len(logged') - Len(buf') = Len(logged) - Len(buf)
      /\ \A i \in 1..Len(buf') : logged'[(Len(logged') - Len(buf')) + i] = buf'[i]
  <2>1. Len(buf) <= Len(logged) BY <1>1, <1>2 DEF LogBuffer
  <2>2. \A i \in 1..(Len(buf) + 1) : Append(logged, s)[(Len(logged) - Len(buf)) + i] = Append(buf, s)[i]
    <3>1. \A i \in 1..Len(buf) : logged[(Len(logged) - Len(buf)) + i] = buf[i] BY <1>2 DEF LogBuffer
    <3>2. IsSeq(buf) /\ IsSeq(logged) BY <1>1
    <3> QED BY ONLY <2>1, <3>1, <3>2, TailGrows, SMTT(30)
  <2>3. \A k, n \in Nat : (k + 1) - (n + 1) = k - n OBVIOUS
  <2>4. Len(logged') - Len(buf') = Len(logged) - Len(buf) BY <1>1, <1>4, <1>5, <2>3
  <2> QED BY <1>4, <2>2, <2>4, Zenon
<1>8. LogBuffer'
  <2>1. /\ Len(object) + Len(buf') <= Len(logged')
        /\ Len(object) + Len(buf) = Len(logged) => Len(object) + Len(buf') = Len(logged')
    <3> DEFINE o == Len(object)
               b == Len(buf)
               k == Len(logged)
    <3>1. o \in Nat /\ b \in Nat /\ k \in Nat /\ o + b <= k BY <1>1, <1>2 DEF LogBuffer
    <3> HIDE DEF o, b, k
    <3>2. o + (b + 1) <= k + 1 /\ (o + b = k => o + (b + 1) = k + 1) BY <3>1
    <3> QED BY <1>4, <1>5, <3>2, Zenon DEF o, b, k
  <2> QED BY <1>2, <1>7, <2>1 DEF LogBuffer
<1>9. TextSent' BY DEF TextSent, Uploads
<1>10. LogTypes' BY <1>4, <1>5 DEF LogOk, LogTypes
<1> QED BY <1>6, <1>8, <1>9, <1>10 DEF LogOk

\* A step that leaves the buffer, the object and the uploads alone.
LEMMA LogSame ==
    ASSUME LogOk, UNCHANGED <<buf, aws_off, cur_aws_off, object, size, logged, sent, rec>>,
           \A d \in Conn : pc'[d] \in {"uploading", "sending"} => Uploads(d)
    PROVE  LogOk'
<1>1. LogTypes' BY DEF LogOk, LogTypes
<1>2. LogPrefix' BY DEF LogOk, LogPrefix
<1>3. LogBuffer => LogBuffer' BY DEF LogBuffer
<1>4. TextSent => TextSent' BY DEF TextSent, Uploads
<1> QED BY <1>1, <1>2, <1>3, <1>4 DEF LogOk

\* The append of sqlite3WalCallback, or its loss.
LEMMA LogUploads ==
    ASSUME SqlTypes, LogOk, NEW c \in Conn, Sql!UploadEnd(c)
    PROVE  /\ LogOk'
           /\ \/ UNCHANGED <<object, torn>>
              \/ Len(object') = Len(logged) /\ torn' = (pending # <<>>)
<1> USE DEF LogTypes
<1>0. /\ rec = "off" /\ UNCHANGED <<rec, logged>> /\ pc[c] = "sending" /\ Uploads(c)
      /\ buf' = <<>> /\ aws_off' = 0 /\ cur_aws_off' = cur_aws_off + aws_off
      /\ pc' = [pc EXCEPT ![c] = "idle"]
  BY DEF Sql!UploadEnd, Sql!Running, Sql!Goto, Sql!recVars, Sql!NextOffset, Uploads
<1>1. LogTypes /\ LogPrefix /\ LogBuffer /\ TextSent BY <1>0 DEF LogOk
<1>2. sent[c].text = buf /\ sent[c].bytes = aws_off /\ sent[c].off = cur_aws_off /\ aws_off # 0
  BY <1>0, <1>1 DEF TextSent
<1>3. /\ Len(object) \in Nat /\ Len(buf) \in Nat /\ Len(logged) \in Nat /\ IsSeq(buf') /\ Len(buf') = 0
      /\ cur_aws_off' \in Nat
  BY <1>0, <1>1 DEF IsSeq
<1>4. TextSent'
  <2>1. \A d \in Conn : pc'[d] \notin {"uploading", "sending"}
    BY <1>0, <1>1 DEF TextSent, Uploads, SqlTypes
  <2> QED BY <2>1 DEF TextSent, Uploads
<1>5. CASE cur_aws_off = size /\ object' = object \o buf /\ size' = size + aws_off /\ torn' = (pending # <<>>)
  <2>1. size' = cur_aws_off' /\ size' \in Nat BY <1>0, <1>1, <1>5
  <2>2. IsSeq(object') /\ Len(object') = Len(object) + Len(buf) BY <1>1, <1>5, Joined
  <2>3. /\ \A i \in 1..Len(object) : object'[i] = object[i]
        /\ \A i \in 1..Len(buf) : object'[Len(object) + i] = buf[i]
    BY <1>1, <1>5, Joined
  <2>4. Len(object) + Len(buf) = Len(logged) BY <1>1, <1>5 DEF LogBuffer
  <2>5. ASSUME NEW i \in 1..Len(logged) PROVE object'[i] = logged[i]
    <3>1. CASE i \in 1..Len(object) BY <1>1, <2>3, <3>1 DEF LogPrefix
    <3>2. CASE i \notin 1..Len(object)
      <4> DEFINE o == Len(object)
                 b == Len(buf)
                 k == Len(logged)
      <4>1. o \in Nat /\ b \in Nat /\ k \in Nat /\ o + b = k /\ i \in 1..k /\ i \notin 1..o
        BY <1>3, <2>4, <3>2
      <4> HIDE DEF o, b, k
      <4>2. i - o \in 1..b /\ i = o + (i - o) /\ i = (k - b) + (i - o) BY <4>1
      <4>3. object'[o + (i - o)] = buf[i - o] BY <2>3, <4>2 DEF o, b
      <4>4. logged[(k - b) + (i - o)] = buf[i - o] BY <1>1, <4>2 DEF LogBuffer, k, b
      <4> QED BY <4>2, <4>3, <4>4
    <3> QED BY <3>1, <3>2
  <2>6. Len(object') = Len(logged') BY <1>0, <2>2, <2>4
  <2>7. LogPrefix' BY <1>0, <1>3, <2>5, <2>6 DEF LogPrefix
  <2>8. LogBuffer'
    <3>1. Len(object') + Len(buf') = Len(logged') /\ Len(logged') \in Nat BY <1>0, <1>3, <2>6
    <3>2. 1..Len(buf') = {} BY <1>3
    <3>3. size' <= cur_aws_off' BY <1>3, <2>1
    <3> QED BY <3>1, <3>2, <3>3 DEF LogBuffer
  <2>9. LogTypes' BY <1>0, <1>1, <1>3, <2>1, <2>2
  <2> QED BY <1>0, <1>4, <1>5, <2>6, <2>7, <2>8, <2>9 DEF LogOk
<1>6. CASE UNCHANGED <<object, size, torn>>
  <2>1. LogPrefix' BY <1>0, <1>1, <1>6 DEF LogPrefix
  <2>2. size' < cur_aws_off'
    <3>1. \A a, b, n \in Nat : a <= b /\ n # 0 => a < b + n OBVIOUS
    <3>2. size <= cur_aws_off BY <1>1 DEF LogBuffer
    <3> QED BY <1>0, <1>1, <1>2, <1>6, <3>1, <3>2
  <2>3. LogTypes' BY <1>0, <1>1, <1>3, <1>6
  <2>4. LogBuffer'
    <3>1. Len(object') + Len(buf') <= Len(logged') BY <1>0, <1>1, <1>3, <1>6 DEF LogPrefix
    <3>2. size' <= cur_aws_off' /\ size' # cur_aws_off' BY <2>2, <2>3
    <3>3. 1..Len(buf') = {} BY <1>3
    <3> QED BY <3>1, <3>2, <3>3 DEF LogBuffer
  <2> QED BY <1>4, <1>6, <2>1, <2>3, <2>4 DEF LogOk
<1>7. \/ sent[c].off = size /\ object' = object \o sent[c].text /\ size' = size + sent[c].bytes /\ torn' = (pending # <<>>)
      \/ UNCHANGED <<object, size, torn>>
  BY DEF Sql!UploadEnd, Sql!Accepted
<1> QED BY <1>2, <1>5, <1>6, <1>7

\* The text of a statement goes into the buffer: if no two threads have used it
\* at once, behind all that is there.
LEMMA TextLogged ==
    ASSUME NEW c \in Conn, NEW s, s.logged \in BOOLEAN, Sql!LogText(c, s), overlap \in BOOLEAN
    PROVE  /\ overlap' \in BOOLEAN /\ (~overlap' => ~overlap)
           /\ s.logged /\ ~overlap' =>
                 /\ buf' = Append(buf, s) /\ aws_off' = aws_off + s.len /\ logged' = Append(logged, s)
                 /\ \A d \in Conn : d # c => ~Uses(d)
           /\ ~s.logged => UNCHANGED <<buf, aws_off, logged>>
<1>1. CASE s.logged
  <2>1. overlap' = (overlap \/ \E d \in Conn \ {c} : pc[d] \in {"run", "uploading", "sending"})
    BY <1>1, Zenon DEF Sql!LogText, Sql!UsesBuffer
  <2>2. Sql!TextAppended(s) \/ Sql!TextRaced(c, s) BY <1>1, Zenon DEF Sql!LogText
  <2>3. logged' = Append(logged, s) BY <1>1, Zenon DEF Sql!LogText
  <2>4. Sql!TextRaced(c, s) => overlap' BY <2>1 DEF Sql!TextRaced
  <2>5. ~overlap' => \A d \in Conn : d # c => ~Uses(d) BY <2>1 DEF Uses, Uploads
  <2> QED BY <1>1, <2>1, <2>2, <2>3, <2>4, <2>5 DEF Sql!TextAppended
<1>2. CASE ~s.logged BY <1>2 DEF Sql!LogText
<1> QED BY <1>1, <1>2

\* What changes where a connection goes on.
SqlGoes(c, l) == /\ pc' = [pc EXCEPT ![c] = l] /\ rec = "off" /\ rec' = rec
                 /\ UNCHANGED <<next, copy, result>>

\* Where the other connections are, and the one that goes on.
LEMMA SqlGone ==
    ASSUME SqlTypes, NEW c \in Conn, NEW l, SqlGoes(c, l)
    PROVE  pc' = [d \in Conn |-> pc'[d]] /\ pc'[c] = l /\ \A d \in Conn : d # c => pc'[d] = pc[d]
  BY DEF SqlTypes, SqlGoes

\* The first call for a statement.
LEMMA SqlCall == ASSUME SqlInv, NEW c \in Conn, NEW s \in Stmts, Sql!Call(c, s) PROVE SqlInv'
<1>0. SqlTypes BY DEF SqlInv
<1>1. /\ SqlGoes(c, "run") /\ pc[c] = "idle" /\ Sql!LogText(c, s)
      /\ stmt' = [stmt EXCEPT ![c] = s] /\ left' = [left EXCEPT ![c] = s.steps]
      /\ UNCHANGED <<db, pending, writer, autoCommit, sent, cur_aws_off, object, size, states, ran, torn>>
  BY DEF Sql!Call, Sql!Running, Sql!Goto, Sql!recVars, SqlGoes
<1>2. spoilt' = (spoilt \/ ~Sql!Faithful(s)) BY DEF Sql!Call
<1>3. s.logged \in BOOLEAN /\ s.len \in Nat BY S3Assumption DEF Sql!SqlConstants
<1>4. spoilt' \in BOOLEAN /\ (~spoilt' => ~spoilt /\ Sql!Faithful(s)) BY <1>0, <1>2 DEF SqlTypes
<1>5. pc' = [d \in Conn |-> pc'[d]] /\ pc'[c] = "run" /\ \A d \in Conn : d # c => pc'[d] = pc[d]
  BY <1>0, <1>1, SqlGone
<1>6. /\ stmt' = [d \in Conn |-> stmt'[d]] /\ stmt'[c] = s /\ (\A d \in Conn : d # c => stmt'[d] = stmt[d])
      /\ left' = [d \in Conn |-> left'[d]] /\ left'[c] = s.steps
  BY <1>0, <1>1 DEF SqlTypes
<1>7. /\ overlap' \in BOOLEAN /\ (~overlap' => ~overlap)
      /\ s.logged /\ ~overlap' =>
            /\ buf' = Append(buf, s) /\ aws_off' = aws_off + s.len /\ logged' = Append(logged, s)
            /\ \A d \in Conn : d # c => ~Uses(d)
      /\ ~s.logged => UNCHANGED <<buf, aws_off, logged>>
  BY <1>0, <1>1, <1>3, TextLogged DEF SqlTypes
<1>8. SqlTypes'
  <2>1. \A d \in Conn : pc'[d] = "run" => stmt'[d] \in Stmts BY <1>0, <1>5, <1>6 DEF SqlTypes
  <2>2. UNCHANGED copy BY <1>1 DEF SqlGoes
  <2> QED BY <1>0, <1>1, <1>4, <1>5, <1>6, <1>7, <2>1, <2>2 DEF SqlTypes
<1>9. ASSUME ~overlap' PROVE LogOk'
  <2>1. LogOk /\ rec = "off" /\ rec' = rec BY <1>1, <1>7, <1>9 DEF SqlInv, SqlGoes
  <2>2. CASE s.logged
    <3>1. \A d \in Conn : pc'[d] \notin {"uploading", "sending"}
      BY <1>5, <1>7, <1>9, <2>2 DEF Uses, Uploads
    <3> QED BY <1>1, <1>3, <1>7, <1>9, <2>1, <2>2, <3>1, LogGrows
  <2>3. CASE ~s.logged
    <3>1. \A d \in Conn : pc'[d] \in {"uploading", "sending"} => Uploads(d) BY <1>5 DEF Uploads
    <3> QED BY <1>1, <1>7, <2>1, <2>3, <3>1, LogSame
  <2> QED BY <1>3, <2>2, <2>3
<1>10. ASSUME ~overlap', ~spoilt' PROVE ReplayOk'
  <2>1. ReplayOk /\ LogOk /\ Sql!Faithful(s) /\ rec = "off" BY <1>1, <1>4, <1>7, <1>10 DEF SqlInv, SqlGoes
  <2>2. s.logged /\ s.steps = 1 BY <2>1 DEF Sql!Faithful
  <2>3. logged' = Append(logged, s) /\ (\A d \in Conn : d # c => ~Uses(d)) BY <1>7, <1>10, <2>2
  <2>4. UsesOnce' BY <1>5, <2>3 DEF UsesOnce, Uses, Uploads
  <2>5. /\ IsSeq(logged) /\ IsSeq(ran) /\ Len(logged) \in Nat /\ Len(ran) \in Nat
    BY <1>0, <2>1 DEF LogOk, LogTypes, SqlTypes, IsSeq
  <2>6. Len(logged) = Len(ran)
    <3>1. \A d \in Conn : pc[d] # "run" BY <1>1, <2>3 DEF Uses
    <3> QED BY <2>1, <3>1 DEF ReplayOk, LogIsRan
  <2>7. /\ Len(logged') = Len(ran) + 1 /\ logged'[Len(ran) + 1] = s
        /\ \A i \in 1..Len(ran) : logged'[i] = logged[i]
    BY <2>3, <2>5, <2>6, Appended
  <2>8. LogIsRan' BY <1>1, <1>5, <1>6, <2>1, <2>2, <2>7 DEF ReplayOk, LogIsRan
  <2>9. RanIsDb' /\ OpenOk' /\ DbIsRan' /\ ObjectIsState'
    BY <1>1, <2>1 DEF ReplayOk, RanIsDb, OpenOk, DbIsRan, ObjectIsState
  <2>10. CopyOk' BY <1>1, <2>1 DEF ReplayOk, CopyOk, SqlGoes
  <2> QED BY <2>4, <2>8, <2>9, <2>10 DEF ReplayOk
<1> QED BY <1>8, <1>9, <1>10 DEF SqlInv

\* The call for another row: not of a statement that its text repeats.
LEMMA SqlCallAgain == ASSUME SqlInv, NEW c \in Conn, Sql!CallAgain(c) PROVE SqlInv'
<1>0. SqlTypes BY DEF SqlInv
<1> DEFINE s == stmt[c]
<1>1. /\ rec = "off" /\ rec' = rec /\ pc[c] = "run" /\ left[c] > 1 /\ Sql!LogText(c, s)
      /\ left' = [left EXCEPT ![c] = @ - 1]
      /\ UNCHANGED <<db, pending, pc, autoCommit, stmt, sent, cur_aws_off, object, size, next, copy, result,
                     states, ran, spoilt, torn>>
  BY DEF Sql!CallAgain, Sql!Running, Sql!recVars
<1>2. s \in Stmts BY <1>0, <1>1 DEF SqlTypes
<1> HIDE DEF s
<1>3. s.logged \in BOOLEAN /\ s.len \in Nat BY <1>2, S3Assumption DEF Sql!SqlConstants
<1>7. /\ overlap' \in BOOLEAN /\ (~overlap' => ~overlap)
      /\ s.logged /\ ~overlap' =>
            /\ buf' = Append(buf, s) /\ aws_off' = aws_off + s.len /\ logged' = Append(logged, s)
            /\ \A d \in Conn : d # c => ~Uses(d)
      /\ ~s.logged => UNCHANGED <<buf, aws_off, logged>>
  BY <1>0, <1>1, <1>3, TextLogged DEF SqlTypes
<1>8. SqlTypes' BY <1>0, <1>1, <1>7 DEF SqlTypes
<1>9. ASSUME ~overlap' PROVE LogOk'
  <2>1. LogOk /\ rec = "off" /\ rec' = rec BY <1>1, <1>7, <1>9 DEF SqlInv
  <2>2. CASE s.logged
    <3>1. \A d \in Conn : pc'[d] \notin {"uploading", "sending"}
      BY <1>1, <1>7, <1>9, <2>2 DEF Uses, Uploads
    <3> QED BY <1>1, <1>3, <1>7, <1>9, <2>1, <2>2, <3>1, LogGrows
  <2>3. CASE ~s.logged
    <3>1. \A d \in Conn : pc'[d] \in {"uploading", "sending"} => Uploads(d) BY <1>1 DEF Uploads
    <3> QED BY <1>1, <1>7, <2>1, <2>3, <3>1, LogSame
  <2> QED BY <1>3, <2>2, <2>3
<1>10. ~overlap' => spoilt'
  <2> SUFFICES ASSUME ~overlap', ~spoilt' PROVE FALSE BY <1>1, <1>0 DEF SqlTypes
  <2>1. UsesOnce /\ LogIsRan BY <1>1, <1>7 DEF SqlInv, ReplayOk
  <2>2. left[c] = 1 BY <1>1, <2>1 DEF UsesOnce, LogIsRan, Uses
  <2> QED BY <1>1, <2>2
<1> QED BY <1>8, <1>9, <1>10 DEF SqlInv

\* While the conditions hold, the statement that a thread runs is at the end of
\* the log.
LEMMA RunsOne ==
    ASSUME SqlInv, ~overlap, ~spoilt, rec = "off", NEW c \in Conn, pc[c] = "run"
    PROVE  /\ left[c] = 1 /\ Sql!Faithful(stmt[c]) /\ Len(logged) = Len(ran) + 1
           /\ logged[Len(ran) + 1] = stmt[c] /\ \A d \in Conn : d # c => ~Uses(d)
  BY DEF SqlInv, ReplayOk, UsesOnce, LogIsRan, Uses

\* A statement has run: its effect is at the end of what ran, and of the
\* database or of the transaction.
LEMMA SqlStepDone == ASSUME SqlInv, NEW c \in Conn, Sql!StepDone(c) PROVE SqlInv'
<1>0. SqlTypes BY DEF SqlInv
<1> DEFINE e == stmt[c].eff
<1>1. /\ rec = "off" /\ rec' = rec /\ pc[c] = "run" /\ writer \in {None, c}
      /\ ran' = Append(ran, e) /\ stmt' = [stmt EXCEPT ![c] = None] /\ left' = [left EXCEPT ![c] = 0]
      /\ UNCHANGED <<autoCommit, sent, buf, aws_off, cur_aws_off, object, size, next, copy, result, logged,
                     spoilt, overlap, torn>>
  BY DEF Sql!StepDone, Sql!Running, Sql!MayWrite, Sql!recVars, Sql!awsVars
<1>2. \/ /\ autoCommit[c] /\ SqlGoes(c, "callback") /\ db' = Append(db, e)
         /\ states' = states \cup {Len(db')} /\ pending' = pending
      \/ /\ ~autoCommit[c] /\ SqlGoes(c, "idle") /\ pending' = Append(pending, e) /\ writer' = c
         /\ UNCHANGED <<db, states>>
  BY DEF Sql!StepDone, Sql!Goto, Sql!Running, Sql!recVars, SqlGoes
<1> HIDE DEF e
<1>3. PICK l \in {"callback", "idle"} : SqlGoes(c, l) BY <1>2
<1>4. pc' = [d \in Conn |-> pc'[d]] /\ pc'[c] = l /\ \A d \in Conn : d # c => pc'[d] = pc[d]
  BY <1>0, <1>3, SqlGone
<1>5. /\ stmt' = [d \in Conn |-> stmt'[d]] /\ (\A d \in Conn : d # c => stmt'[d] = stmt[d])
      /\ left' = [d \in Conn |-> left'[d]]
  BY <1>0, <1>1 DEF SqlTypes
<1>6. /\ IsSeq(db) /\ IsSeq(pending) /\ IsSeq(ran) /\ Len(db) \in Nat /\ Len(pending) \in Nat /\ Len(ran) \in Nat
  BY <1>0 DEF SqlTypes, IsSeq
<1>7. /\ IsSeq(ran') /\ Len(ran') = Len(ran) + 1 /\ ran'[Len(ran) + 1] = e
      /\ \A i \in 1..Len(ran) : ran'[i] = ran[i]
  BY <1>1, <1>6, Appended
<1>8. SqlTypes'
  <2>1. IsSeq(Append(db, e)) /\ IsSeq(Append(pending, e)) BY <1>6, Appended
  <2>2. IsSeq(db') /\ IsSeq(pending') BY <1>2, <1>6, <2>1
  <2>3. \A d \in Conn : pc'[d] = "run" => stmt'[d] \in Stmts BY <1>0, <1>4, <1>5 DEF SqlTypes
  <2> QED BY <1>0, <1>1, <1>4, <1>5, <1>7, <2>2, <2>3 DEF SqlTypes
<1>9. ASSUME ~overlap' PROVE LogOk'
  <2>1. \A d \in Conn : pc'[d] \in {"uploading", "sending"} => Uploads(d) BY <1>4 DEF Uploads
  <2> QED BY <1>1, <1>9, <2>1, LogSame DEF SqlInv
<1>10. ASSUME ~overlap', ~spoilt' PROVE ReplayOk'
  <2>1. ReplayOk /\ ~overlap /\ ~spoilt BY <1>1, <1>10 DEF SqlInv
  <2>2. /\ Sql!Faithful(stmt[c]) /\ Len(logged) = Len(ran) + 1
        /\ logged[Len(ran) + 1] = stmt[c] /\ \A d \in Conn : d # c => ~Uses(d)
    BY <1>1, <2>1, RunsOne
  <2>3. stmt[c].replay = e BY <2>2 DEF Sql!Faithful, e
  <2>4. \A d \in Conn : ~(pc'[d] = "run") /\ pc'[d] \notin {"uploading", "sending"}
    BY <1>4, <2>2 DEF Uses, Uploads
  <2>5. UsesOnce' BY <2>4 DEF UsesOnce, Uses, Uploads
  <2>6. LogIsRan'
    <3>1. ASSUME NEW i \in 1..Len(ran') PROVE logged'[i].replay = ran'[i]
      <4>1. CASE i \in 1..Len(ran) BY <1>1, <1>7, <2>1, <4>1 DEF ReplayOk, LogIsRan
      <4>2. CASE i \notin 1..Len(ran)
        <5>1. i = Len(ran) + 1 BY <1>6, <1>7, <4>2
        <5> QED BY <1>1, <1>7, <2>2, <2>3, <5>1
      <4> QED BY <4>1, <4>2
    <3> QED BY <1>1, <1>7, <2>2, <2>4, <3>1 DEF LogIsRan
  <2>7. CopyOk' BY <1>1, <2>1 DEF ReplayOk, CopyOk
  <2>8. RanIsDb /\ OpenOk /\ DbIsRan /\ ObjectIsState BY <1>1, <2>1 DEF ReplayOk
  <2>9. RanIsDb' /\ OpenOk' /\ DbIsRan' /\ ObjectIsState'
    <3>1. CASE autoCommit[c] /\ db' = Append(db, e) /\ states' = states \cup {Len(db')} /\ pending' = pending
      <4>1. pending = <<>>
        <5>1. None \notin Conn BY S3Assumption DEF Sql!SqlConstants
        <5> QED BY <1>1, <2>8, <3>1, <5>1 DEF OpenOk
      <4>2. Len(pending) = 0 /\ Len(ran) = Len(db) BY <1>6, <2>8, <4>1 DEF RanIsDb
      <4>3. /\ Len(db') = Len(db) + 1 /\ db'[Len(db) + 1] = e /\ \A i \in 1..Len(db) : db'[i] = db[i]
        BY <1>6, <3>1, Appended
      <4>4. ASSUME NEW i \in 1..Len(db') PROVE ran'[i] = db'[i]
        <5>1. i \in 1..Len(db) \/ i = Len(db) + 1 BY <1>6, <4>3
        <5> QED BY <1>7, <2>8, <4>2, <4>3, <5>1 DEF DbIsRan
      <4>5. Len(ran') = Len(db') /\ Len(db') \in Nat BY <1>6, <1>7, <4>2, <4>3
      <4>6. DbIsRan' BY <3>1, <4>4, <4>5 DEF DbIsRan
      <4>7. RanIsDb' BY <3>1, <4>1, <4>2, <4>5 DEF RanIsDb
      <4>8. OpenOk' BY <3>1, <4>1 DEF OpenOk
      <4>9. ObjectIsState'
        <5>1. Len(object) \in Nat BY <2>1 DEF SqlInv, LogOk, LogTypes, IsSeq
        <5>2. \A i \in 1..Len(object) : i \in 1..Len(ran) BY <1>6, <2>8, <5>1 DEF ObjectIsState
        <5> QED BY <1>1, <1>6, <1>7, <2>8, <3>1, <4>3, <5>1, <5>2 DEF ObjectIsState
      <4> QED BY <4>6, <4>7, <4>8, <4>9
    <3>2. CASE ~autoCommit[c] /\ pending' = Append(pending, e) /\ writer' = c /\ UNCHANGED <<db, states>>
      <4>1. /\ Len(pending') = Len(pending) + 1 /\ pending'[Len(pending) + 1] = e
            /\ \A i \in 1..Len(pending) : pending'[i] = pending[i]
        BY <1>6, <3>2, Appended
      <4> DEFINE d == Len(db)
                 n == Len(pending)
                 k == Len(ran)
      <4>2. d \in Nat /\ n \in Nat /\ k \in Nat /\ k = d + n /\ Len(pending') = n + 1 /\ Len(ran') = k + 1
        BY <1>6, <1>7, <2>8, <4>1 DEF RanIsDb
      <4>3. ASSUME NEW i \in 1..(n + 1) PROVE ran'[d + i] = pending'[i]
        <5> HIDE DEF d, n, k
        <5>1. CASE i \in 1..n
          <6>1. d + i \in 1..k BY <4>2, <5>1
          <6> QED BY <1>7, <2>8, <4>1, <5>1, <6>1 DEF RanIsDb, d, n, k
        <5>2. CASE i \notin 1..n
          <6>1. i = n + 1 /\ d + i = k + 1 BY <4>2, <5>2
          <6> QED BY <1>7, <4>1, <6>1 DEF n, k
        <5> QED BY <5>1, <5>2
      <4>4. RanIsDb'
        <5>1. Len(ran') = d + (n + 1)
          <6> HIDE DEF d, n, k
          <6> QED BY <4>2
        <5> QED BY <3>2, <4>2, <4>3, <5>1 DEF RanIsDb
      <4>5. OpenOk' BY <1>1, <3>2 DEF OpenOk
      <4>6. DbIsRan' BY <1>6, <1>7, <2>8, <3>2 DEF DbIsRan
      <4>7. ObjectIsState'
        <5>1. Len(object) \in Nat BY <2>1 DEF SqlInv, LogOk, LogTypes, IsSeq
        <5> QED BY <1>1, <1>6, <1>7, <2>8, <3>2, <5>1 DEF ObjectIsState
      <4> QED BY <4>4, <4>5, <4>6, <4>7
    <3> QED BY <1>2, <3>1, <3>2
  <2> QED BY <2>5, <2>6, <2>7, <2>9 DEF ReplayOk
<1> QED BY <1>8, <1>9, <1>10 DEF SqlInv

\* A statement that fails is not repeated by its text.
LEMMA SqlStepFailed == ASSUME SqlInv, NEW c \in Conn, Sql!StepFailed(c) PROVE SqlInv'
<1>0. SqlTypes BY DEF SqlInv
<1>1. /\ SqlGoes(c, "idle") /\ pc[c] = "run" /\ rec = "off"
      /\ stmt' = [stmt EXCEPT ![c] = None] /\ left' = [left EXCEPT ![c] = 0]
      /\ UNCHANGED <<db, pending, autoCommit, sent, buf, aws_off, cur_aws_off, object, size, rec, next, copy,
                     result, states, ran, logged, overlap, torn>>
  BY DEF Sql!StepFailed, Sql!Running, Sql!Goto, Sql!recVars, Sql!awsVars, SqlGoes
<1>2. spoilt' = (spoilt \/ stmt[c].logged) BY DEF Sql!StepFailed
<1>3. stmt[c].logged \in BOOLEAN
  <2>1. stmt[c] \in Stmts BY <1>0, <1>1 DEF SqlTypes
  <2> QED BY <2>1, S3Assumption DEF Sql!SqlConstants
<1>4. pc' = [d \in Conn |-> pc'[d]] /\ pc'[c] = "idle" /\ \A d \in Conn : d # c => pc'[d] = pc[d]
  BY <1>0, <1>1, SqlGone
<1>5. /\ stmt' = [d \in Conn |-> stmt'[d]] /\ (\A d \in Conn : d # c => stmt'[d] = stmt[d])
      /\ left' = [d \in Conn |-> left'[d]]
  BY <1>0, <1>1 DEF SqlTypes
<1>6. spoilt' \in BOOLEAN /\ (~spoilt' => ~spoilt /\ ~stmt[c].logged) BY <1>0, <1>2, <1>3 DEF SqlTypes
<1>7. SqlTypes'
  <2>1. \A d \in Conn : pc'[d] = "run" => stmt'[d] \in Stmts BY <1>0, <1>4, <1>5 DEF SqlTypes
  <2> QED BY <1>0, <1>1, <1>4, <1>5, <1>6, <2>1 DEF SqlTypes
<1>8. ASSUME ~overlap' PROVE LogOk'
  <2>1. \A d \in Conn : pc'[d] \in {"uploading", "sending"} => Uploads(d) BY <1>4 DEF Uploads
  <2> QED BY <1>1, <1>8, <2>1, LogSame DEF SqlInv
<1>9. ASSUME ~overlap', ~spoilt' PROVE FALSE
  <2>1. ~overlap /\ ~spoilt /\ ~stmt[c].logged BY <1>1, <1>6, <1>9
  <2>2. Sql!Faithful(stmt[c]) BY <1>1, <2>1, RunsOne
  <2> QED BY <2>1, <2>2 DEF Sql!Faithful
<1> QED BY <1>7, <1>8, <1>9 DEF SqlInv

\* A thread that goes on without the log, to an upload only if no other thread
\* is in one or runs a statement.
LEMMA ReplaySame ==
    ASSUME SqlInv, ReplayOk, NEW c \in Conn, NEW l, l # "run", SqlGoes(c, l), pc[c] # "run",
           UNCHANGED <<db, pending, stmt, left, states, ran, logged, object, torn>>, OpenOk',
           l \in {"uploading", "sending"} => Uploads(c) \/ \A d \in Conn : d # c => ~Uses(d)
    PROVE  ReplayOk'
<1>1. pc' = [d \in Conn |-> pc'[d]] /\ pc'[c] = l /\ \A d \in Conn : d # c => pc'[d] = pc[d]
  BY SqlGone DEF SqlInv
<1>2. rec = "off" /\ rec' = rec /\ UNCHANGED <<next, copy, result>> BY DEF SqlGoes
<1>3. UsesOnce /\ LogIsRan /\ RanIsDb BY <1>2 DEF ReplayOk
<1>4. UsesOnce'
  <2>1. CASE l \in {"uploading", "sending"} BY <1>1, <1>3, <2>1 DEF UsesOnce, Uses, Uploads
  <2>2. CASE l \notin {"uploading", "sending"} BY <1>1, <1>3, <2>2 DEF UsesOnce, Uses, Uploads
  <2> QED BY <2>1, <2>2
<1>5. LogIsRan' BY <1>1, <1>3 DEF LogIsRan
<1>6. RanIsDb' BY <1>3 DEF RanIsDb
<1>7. CopyOk' BY <1>2 DEF ReplayOk, CopyOk
<1>8. DbIsRan' /\ ObjectIsState' BY DEF ReplayOk, DbIsRan, ObjectIsState
<1> QED BY <1>4, <1>5, <1>6, <1>7, <1>8 DEF ReplayOk

\* BEGIN, ROLLBACK, a query, and a callback that does not upload.
LEMMA SqlQuiet ==
    ASSUME SqlInv, NEW c \in Conn,
           Sql!Begin(c) \/ Sql!Rollback(c) \/ Sql!Query(c) \/ Sql!UploadSkipped(c)
    PROVE  SqlInv'
<1>0. SqlTypes BY DEF SqlInv
<1>1. /\ rec = "off" /\ pc[c] \in {"idle", "callback"}
      /\ UNCHANGED <<db, stmt, left, sent, buf, aws_off, cur_aws_off, object, size, rec, next, copy,
                     result, states, ran, logged, overlap, torn>>
  BY DEF Sql!Begin, Sql!Rollback, Sql!EndTransaction, Sql!Query, Sql!UploadSkipped, Sql!Running, Sql!Goto,
     Sql!recVars, Sql!awsVars
<1>2. PICK l \in {"idle", "callback"} : SqlGoes(c, l)
  <2>1. pc[c] = "idle" => pc = [pc EXCEPT ![c] = "idle"] BY <1>0 DEF SqlTypes
  <2>2. \/ pc' = pc /\ pc[c] = "idle"
        \/ pc' = [pc EXCEPT ![c] = "idle"]
        \/ pc' = [pc EXCEPT ![c] = "callback"]
    BY DEF Sql!Begin, Sql!Rollback, Sql!EndTransaction, Sql!Query, Sql!UploadSkipped, Sql!Goto
  <2> QED BY <1>1, <2>1, <2>2 DEF SqlGoes
<1>3. pc' = [d \in Conn |-> pc'[d]] /\ pc'[c] = l /\ \A d \in Conn : d # c => pc'[d] = pc[d]
  BY <1>0, <1>2, SqlGone
<1>4. /\ spoilt' = spoilt \/ (Sql!Rollback(c) /\ spoilt' = (spoilt \/ writer = c))
      /\ \/ UNCHANGED <<autoCommit, writer, pending>>
         \/ Sql!Begin(c) /\ autoCommit' = [autoCommit EXCEPT ![c] = FALSE] /\ UNCHANGED <<writer, pending>>
         \/ Sql!Rollback(c) /\ autoCommit' = [autoCommit EXCEPT ![c] = TRUE]
  BY DEF Sql!Begin, Sql!Rollback, Sql!EndTransaction, Sql!Query, Sql!UploadSkipped
<1>5. /\ Sql!Rollback(c) /\ writer # c => UNCHANGED <<writer, pending>>
      /\ Sql!Rollback(c) => pending' \in {pending, <<>>} /\ spoilt' = (spoilt \/ writer = c)
  BY DEF Sql!Rollback, Sql!EndTransaction
<1>6. spoilt' \in BOOLEAN /\ (~spoilt' => ~spoilt) /\ (Sql!Rollback(c) /\ ~spoilt' => writer # c)
  <2>1. spoilt \in BOOLEAN BY <1>0 DEF SqlTypes
  <2>2. CASE spoilt' = spoilt BY <1>5, <2>1, <2>2, Zenon
  <2>3. CASE spoilt' = (spoilt \/ writer = c)
    <3>1. spoilt' \in BOOLEAN BY <2>3
    <3> QED BY <2>3, <3>1, Zenon
  <2> QED BY <1>4, <2>2, <2>3
<1>7. SqlTypes'
  <2>1. IsSeq(<<>>) BY DEF IsSeq
  <2>2. IsSeq(pending') BY <1>0, <1>4, <1>5, <2>1 DEF SqlTypes
  <2>3. autoCommit' = [d \in Conn |-> autoCommit'[d]] BY <1>0, <1>4 DEF SqlTypes
  <2>4. \A d \in Conn : pc'[d] = "run" => stmt'[d] \in Stmts BY <1>0, <1>1, <1>3 DEF SqlTypes
  <2> QED BY <1>0, <1>1, <1>3, <1>6, <2>2, <2>3, <2>4 DEF SqlTypes
<1>8. ASSUME ~overlap' PROVE LogOk'
  <2>1. \A d \in Conn : pc'[d] \in {"uploading", "sending"} => Uploads(d) BY <1>3 DEF Uploads
  <2> QED BY <1>1, <1>8, <2>1, LogSame DEF SqlInv
<1>9. ASSUME ~overlap', ~spoilt' PROVE ReplayOk'
  <2>1. ReplayOk /\ OpenOk BY <1>1, <1>6, <1>9 DEF SqlInv, ReplayOk
  <2>2. UNCHANGED <<writer, pending>> BY <1>4, <1>5, <1>6, <1>9
  <2>3. OpenOk' BY <1>0, <1>4, <1>6, <1>9, <2>1, <2>2 DEF OpenOk, SqlTypes
  <2> QED BY <1>1, <1>2, <2>1, <2>2, <2>3, ReplaySame
<1> QED BY <1>7, <1>8, <1>9 DEF SqlInv

\* COMMIT: what ran is in the database.
LEMMA SqlCommit == ASSUME SqlInv, NEW c \in Conn, Sql!Commit(c) PROVE SqlInv'
<1>0. SqlTypes BY DEF SqlInv
<1>1. /\ SqlGoes(c, "callback") /\ pc[c] = "idle" /\ rec = "off"
      /\ autoCommit' = [autoCommit EXCEPT ![c] = TRUE]
      /\ UNCHANGED <<stmt, left, sent, buf, aws_off, cur_aws_off, object, size, rec, next, copy, result, ran,
                     logged, spoilt, overlap, torn>>
  BY DEF Sql!Commit, Sql!EndTransaction, Sql!Running, Sql!Goto, Sql!recVars, Sql!awsVars, SqlGoes
<1>2. \/ /\ writer = c /\ pending' = <<>> /\ db' = db \o pending /\ states' = states \cup {Len(db')}
      \/ writer # c /\ UNCHANGED <<writer, pending, db, states>>
  BY DEF Sql!Commit, Sql!EndTransaction
<1>3. pc' = [d \in Conn |-> pc'[d]] /\ pc'[c] = "callback" /\ \A d \in Conn : d # c => pc'[d] = pc[d]
  BY <1>0, <1>1, SqlGone
<1>4. IsSeq(<<>>) /\ IsSeq(db \o pending) /\ Len(db) \in Nat /\ Len(pending) \in Nat /\ IsSeq(db) /\ IsSeq(pending)
  <2>1. IsSeq(<<>>) BY DEF IsSeq
  <2> QED BY <1>0, <2>1, Joined DEF SqlTypes
<1>5. SqlTypes'
  <2>1. IsSeq(db') /\ IsSeq(pending') BY <1>2, <1>4
  <2>2. autoCommit' = [d \in Conn |-> autoCommit'[d]] BY <1>0, <1>1 DEF SqlTypes
  <2>3. \A d \in Conn : pc'[d] = "run" => stmt'[d] \in Stmts BY <1>0, <1>1, <1>3 DEF SqlTypes
  <2> QED BY <1>0, <1>1, <1>3, <2>1, <2>2, <2>3 DEF SqlTypes
<1>6. ASSUME ~overlap' PROVE LogOk'
  <2>1. \A d \in Conn : pc'[d] \in {"uploading", "sending"} => Uploads(d) BY <1>3 DEF Uploads
  <2> QED BY <1>1, <1>6, <2>1, LogSame DEF SqlInv
<1>7. ASSUME ~overlap', ~spoilt' PROVE ReplayOk'
  <2>1. ReplayOk BY <1>1, <1>7 DEF SqlInv
  <2>2. CASE writer # c /\ UNCHANGED <<writer, pending, db, states>>
    <3>1. OpenOk' BY <1>0, <1>1, <2>1, <2>2 DEF ReplayOk, OpenOk, SqlTypes
    <3> QED BY <1>1, <2>1, <2>2, <3>1, ReplaySame
  <2>3. CASE pending' = <<>> /\ db' = db \o pending /\ states' = states \cup {Len(db')}
    <3>1. UsesOnce /\ LogIsRan /\ RanIsDb /\ DbIsRan /\ ObjectIsState /\ CopyOk BY <1>1, <2>1 DEF ReplayOk
    <3>2. UsesOnce' /\ LogIsRan' /\ CopyOk'
      <4>1. UsesOnce' BY <1>3, <3>1 DEF UsesOnce, Uses, Uploads
      <4>2. LogIsRan' BY <1>1, <1>3, <3>1 DEF LogIsRan
      <4>3. CopyOk' BY <1>1, <3>1 DEF CopyOk
      <4> QED BY <4>1, <4>2, <4>3
    <3>3. OpenOk' BY <2>3 DEF OpenOk
    <3> DEFINE t == db \o pending
               d == Len(db)
               n == Len(pending)
    <3>4. /\ Len(t) = d + n
          /\ \A i \in 1..d : t[i] = db[i]
          /\ \A i \in 1..n : t[d + i] = pending[i]
      BY <1>4, Joined
    <3>5. d \in Nat /\ n \in Nat /\ Len(ran) = d + n BY <1>4, <3>1 DEF RanIsDb
    <3>a. db' = t BY <2>3
    <3> HIDE DEF t
    <3>6. ASSUME NEW i \in 1..(d + n) PROVE ran[i] = t[i]
      <4> HIDE DEF d, n
      <4>1. CASE i \in 1..d BY <3>1, <3>4, <4>1 DEF DbIsRan, d
      <4>2. CASE i \notin 1..d
        <5>1. i - d \in 1..n /\ i = d + (i - d) BY <3>5, <4>2
        <5>2. PICK j \in 1..n : i = d + j BY <5>1
        <5> QED BY <3>1, <3>4, <5>2 DEF RanIsDb, d, n
      <4> QED BY <4>1, <4>2
    <3>7. DbIsRan'
      <4>1. Len(t) \in Nat /\ Len(ran) = Len(t) BY <3>4, <3>5
      <4> QED BY <1>1, <2>3, <3>a, <3>4, <3>6, <4>1 DEF DbIsRan
    <3>8. RanIsDb'
      <4>1. Len(pending') = 0 /\ 1..Len(pending') = {} BY <2>3
      <4> HIDE DEF d, n
      <4>2. Len(ran) = Len(t) + 0 BY <3>4, <3>5
      <4> QED BY <1>1, <3>a, <4>1, <4>2 DEF RanIsDb
    <3>9. ObjectIsState'
      <4>1. d <= d + n BY <3>5
      <4>2. Len(object) \in Nat BY <1>1, <1>7 DEF SqlInv, LogOk, LogTypes, IsSeq
      <4>3. ~torn => Len(object) <= Len(db') BY <3>1, <3>a, <3>4, <3>5, <4>1, <4>2 DEF ObjectIsState
      <4> QED BY <1>1, <2>3, <3>1, <4>3 DEF ObjectIsState
    <3> QED BY <3>2, <3>3, <3>7, <3>8, <3>9 DEF ReplayOk
  <2> QED BY <1>2, <2>2, <2>3
<1> QED BY <1>5, <1>6, <1>7 DEF SqlInv

\* sqlite3WalCallback starts the command and the command reads the file.
LEMMA SqlUploadStarted ==
    ASSUME SqlInv, NEW c \in Conn, Sql!UploadStart(c) \/ Sql!UploadRead(c)
    PROVE  SqlInv'
<1>0. SqlTypes BY DEF SqlInv
<1>1. /\ rec = "off"
      /\ UNCHANGED <<db, pending, writer, autoCommit, stmt, left, buf, aws_off, cur_aws_off, object, size, rec,
                     next, copy, result, states, ran, logged, spoilt, torn>>
  BY DEF Sql!UploadStart, Sql!UploadRead, Sql!Running, Sql!recVars, Sql!awsVars
<1>2. CASE Sql!UploadStart(c)
  <2>1. /\ SqlGoes(c, "uploading") /\ pc[c] = "callback" /\ aws_off # 0
        /\ sent' = [sent EXCEPT ![c] = Sql!Sent(buf, aws_off, cur_aws_off)]
    BY <1>1, <1>2 DEF Sql!UploadStart, Sql!Goto, Sql!MustUpload, SqlGoes
  <2>2. overlap' = (overlap \/ \E d \in Conn \ {c} : Uses(d))
    BY <1>2 DEF Sql!UploadStart, Sql!UsesBuffer, Uses, Uploads
  <2>3. overlap' \in BOOLEAN /\ (~overlap' => ~overlap /\ \A d \in Conn : d # c => ~Uses(d))
    BY <1>0, <2>2 DEF SqlTypes
  <2>4. pc' = [d \in Conn |-> pc'[d]] /\ pc'[c] = "uploading" /\ \A d \in Conn : d # c => pc'[d] = pc[d]
    BY <1>0, <2>1, SqlGone
  <2>5. /\ sent' = [d \in Conn |-> sent'[d]] /\ sent'[c].text = buf /\ sent'[c].bytes = aws_off
        /\ sent'[c].off = cur_aws_off
    BY <1>0, <2>1 DEF SqlTypes, Sql!Sent
  <2>6. SqlTypes'
    <3>1. \A d \in Conn : pc'[d] = "run" => stmt'[d] \in Stmts BY <1>0, <1>1, <2>4 DEF SqlTypes
    <3> QED BY <1>0, <1>1, <2>3, <2>4, <2>5, <3>1 DEF SqlTypes
  <2>7. ASSUME ~overlap' PROVE LogOk'
    <3>1. LogTypes /\ LogPrefix /\ LogBuffer BY <1>1, <2>3, <2>7 DEF SqlInv, LogOk
    <3>2. LogTypes' /\ LogPrefix' /\ LogBuffer' BY <1>1, <3>1 DEF LogTypes, LogPrefix, LogBuffer
    <3>3. \A d \in Conn : pc'[d] \in {"uploading", "sending"} => d = c BY <2>3, <2>4, <2>7 DEF Uses, Uploads
    <3>4. TextSent' BY <1>1, <2>1, <2>5, <3>3 DEF TextSent, Uploads
    <3> QED BY <3>2, <3>4 DEF LogOk
  <2>8. ASSUME ~overlap', ~spoilt' PROVE ReplayOk'
    <3>1. ReplayOk BY <1>1, <2>3, <2>8 DEF SqlInv
    <3>2. OpenOk' BY <1>1, <3>1 DEF ReplayOk, OpenOk
    <3> QED BY <1>1, <2>1, <2>3, <2>8, <3>1, <3>2, ReplaySame
  <2> QED BY <2>6, <2>7, <2>8 DEF SqlInv
<1>3. CASE Sql!UploadRead(c)
  <2> DEFINE q == sent[c].text
             t == [i \in 1..Len(q) |-> IF i <= Len(buf) THEN buf[i] ELSE Sql!Blank]
  <2>1. /\ SqlGoes(c, "sending") /\ pc[c] = "uploading" /\ Uploads(c) /\ overlap' = overlap
        /\ sent' = [sent EXCEPT ![c] = Sql!Sent(t, sent[c].bytes, sent[c].off)]
    BY <1>1, <1>3, Zenon DEF Sql!UploadRead, Sql!Goto, SqlGoes, Uploads
  <2>2. pc' = [d \in Conn |-> pc'[d]] /\ pc'[c] = "sending" /\ \A d \in Conn : d # c => pc'[d] = pc[d]
    BY <1>0, <2>1, SqlGone
  <2> HIDE DEF t
  <2>3. /\ sent' = [d \in Conn |-> sent'[d]] /\ (\A d \in Conn : d # c => sent'[d] = sent[d])
        /\ sent'[c].text = t /\ sent'[c].bytes = sent[c].bytes /\ sent'[c].off = sent[c].off
    BY <1>0, <2>1 DEF SqlTypes, Sql!Sent
  <2>4. SqlTypes'
    <3>1. \A d \in Conn : pc'[d] = "run" => stmt'[d] \in Stmts BY <1>0, <1>1, <2>2 DEF SqlTypes
    <3> QED BY <1>0, <1>1, <2>1, <2>2, <2>3, <3>1 DEF SqlTypes
  <2>5. ASSUME ~overlap' PROVE LogOk'
    <3>1. LogTypes /\ LogPrefix /\ LogBuffer /\ TextSent BY <1>1, <2>1, <2>5 DEF SqlInv, LogOk
    <3>2. LogTypes' /\ LogPrefix' /\ LogBuffer' BY <1>1, <3>1 DEF LogTypes, LogPrefix, LogBuffer
    <3>3. q = buf BY <2>1, <3>1 DEF TextSent
    <3>4. t = buf
      <4>1. Len(buf) \in Nat /\ buf = [i \in 1..Len(buf) |-> buf[i]] BY <3>1 DEF LogTypes, IsSeq
      <4>2. t = [i \in 1..Len(buf) |-> buf[i]] BY <3>3, <4>1 DEF t
      <4> QED BY <4>1, <4>2
    <3>5. TextSent' BY <1>1, <2>1, <2>2, <2>3, <3>1, <3>3, <3>4 DEF TextSent, Uploads
    <3> QED BY <3>2, <3>5 DEF LogOk
  <2>6. ASSUME ~overlap', ~spoilt' PROVE ReplayOk'
    <3>1. ReplayOk BY <1>1, <2>1, <2>6 DEF SqlInv
    <3>2. OpenOk' BY <1>1, <3>1 DEF ReplayOk, OpenOk
    <3> QED BY <1>1, <2>1, <3>1, <3>2, ReplaySame
  <2> QED BY <2>4, <2>5, <2>6 DEF SqlInv
<1> QED BY <1>2, <1>3

\* The command has ended and the buffer is reset.  If the object has grown it
\* holds what ran, and ends at a commit unless a transaction is open.
LEMMA SqlUploadEnded == ASSUME SqlInv, NEW c \in Conn, Sql!UploadEnd(c) PROVE SqlInv'
<1>0. SqlTypes BY DEF SqlInv
<1>1. /\ SqlGoes(c, "idle") /\ pc[c] = "sending" /\ Uploads(c) /\ rec = "off"
      /\ sent' = [sent EXCEPT ![c] = Sql!NothingSent]
      /\ UNCHANGED <<db, pending, writer, autoCommit, stmt, left, rec, next, copy, result, states, ran, logged,
                     spoilt, overlap>>
  BY DEF Sql!UploadEnd, Sql!Goto, Sql!Running, Sql!recVars, SqlGoes, Uploads
<1>2. pc' = [d \in Conn |-> pc'[d]] /\ pc'[c] = "idle" /\ \A d \in Conn : d # c => pc'[d] = pc[d]
  BY <1>0, <1>1, SqlGone
<1>3. SqlTypes'
  <2>1. \A d \in Conn : pc'[d] = "run" => stmt'[d] \in Stmts BY <1>0, <1>1, <1>2 DEF SqlTypes
  <2>2. torn' \in BOOLEAN
    <3>1. torn' = (pending # <<>>) \/ torn' = torn BY DEF Sql!UploadEnd
    <3> QED BY <1>0, <3>1 DEF SqlTypes
  <2>3. sent' = [d \in Conn |-> sent'[d]] BY <1>0, <1>1 DEF SqlTypes
  <2> QED BY <1>0, <1>1, <1>2, <2>1, <2>2, <2>3 DEF SqlTypes
<1>4. ASSUME ~overlap' PROVE LogOk'
  BY <1>0, <1>1, <1>4, LogUploads DEF SqlInv
<1>5. ASSUME ~overlap', ~spoilt' PROVE ReplayOk'
  <2>1. ReplayOk /\ LogOk BY <1>1, <1>5 DEF SqlInv
  <2>2. UsesOnce /\ LogIsRan /\ RanIsDb /\ OpenOk /\ DbIsRan /\ CopyOk /\ ObjectIsState
    BY <1>1, <2>1 DEF ReplayOk
  <2>3. LogOk' /\ (UNCHANGED <<object, torn>> \/ (Len(object') = Len(logged) /\ torn' = (pending # <<>>)))
    BY <1>0, <2>1, LogUploads
  <2>4. UsesOnce' BY <1>2, <2>2 DEF UsesOnce, Uses, Uploads
  <2>5. LogIsRan' BY <1>1, <1>2, <2>2 DEF LogIsRan
  <2>6. RanIsDb' /\ OpenOk' /\ DbIsRan' BY <1>1, <2>2 DEF RanIsDb, OpenOk, DbIsRan
  <2>7. Len(object') \in Nat /\ Len(db) \in Nat /\ Len(ran) \in Nat
    BY <1>0, <2>3 DEF LogOk, LogTypes, SqlTypes, IsSeq
  <2>8. CopyOk'
    <3>1. copy = <<>> /\ next = 1 /\ ~result BY <1>1, <2>2 DEF CopyOk
    <3> QED BY <1>1, <2>7, <3>1 DEF CopyOk
  <2>9. ObjectIsState'
    <3>1. CASE UNCHANGED <<object, torn>> BY <1>1, <2>2, <3>1 DEF ObjectIsState
    <3>2. CASE Len(object') = Len(logged) /\ torn' = (pending # <<>>)
      <4>1. \A d \in Conn : pc[d] # "run" BY <1>1, <2>2 DEF UsesOnce, Uses
      <4>2. Len(object') = Len(ran) BY <2>2, <3>2, <4>1 DEF LogIsRan
      <4>3. \A i \in 1..Len(object') : object'[i] = logged'[i] BY <2>3 DEF LogOk, LogPrefix
      <4>4. \A i \in 1..Len(object') : object'[i].replay = ran[i] BY <1>1, <2>2, <4>2, <4>3 DEF LogIsRan
      <4>5. ~torn' => Len(object') = Len(db)
        <5>1. ~torn' => pending = <<>> BY <3>2
        <5>2. pending = <<>> => Len(ran) = Len(db) BY <2>2, <2>7 DEF RanIsDb
        <5> QED BY <4>2, <5>1, <5>2
      <4> QED BY <1>1, <2>2, <2>7, <4>2, <4>4, <4>5 DEF ObjectIsState, DbIsRan
    <3> QED BY <2>3, <3>1, <3>2
  <2> QED BY <2>4, <2>5, <2>6, <2>8, <2>9 DEF ReplayOk
<1> QED BY <1>3, <1>4, <1>5 DEF SqlInv

\* The machine is lost, or the script takes a step: the object stays.
LEMMA ScriptSteps ==
    ASSUME SqlInv,
           Sql!Lost \/ Sql!RecDownload \/ Sql!RecExecute \/ Sql!RecCommit \/ Sql!RecKilled
    PROVE  SqlInv'
<1>0. IsSeq(<<>>) /\ SqlTypes BY DEF IsSeq, SqlInv
<1>1. rec' # "off" /\ UNCHANGED <<db, object, size, states, ran, logged, spoilt, overlap, torn>>
  BY DEF Sql!Lost, Sql!RecDownload, Sql!RecExecute, Sql!RecCommit, Sql!RecKilled, Sql!recUnchanged,
     Sql!awsVars
<1>2. CASE Sql!Lost
  <2>1. /\ pending' = <<>> /\ buf' = <<>> /\ aws_off' = 0 /\ cur_aws_off' = 0
        /\ pc' = [d \in Conn |-> "dead"] /\ autoCommit' = [d \in Conn |-> TRUE]
        /\ stmt' = [d \in Conn |-> None] /\ left' = [d \in Conn |-> 0]
        /\ sent' = [d \in Conn |-> Sql!NothingSent] /\ rec = "off" /\ UNCHANGED <<copy, next, result>>
    BY <1>2 DEF Sql!Lost, Sql!Running
  <2>2. SqlTypes' BY <1>0, <1>1, <2>1 DEF SqlTypes
  <2>3. LogOk => LogOk' BY <1>0, <1>1, <2>1 DEF LogOk, LogTypes, LogPrefix
  <2>4. DbIsRan /\ ObjectIsState => DbIsRan' /\ ObjectIsState' BY <1>1 DEF DbIsRan, ObjectIsState
  <2>5. CopyOk => CopyOk' BY <1>1, <2>1 DEF CopyOk
  <2> QED BY <1>1, <2>2, <2>3, <2>4, <2>5 DEF SqlInv, ReplayOk
<1>3. ASSUME Sql!RecDownload \/ Sql!RecExecute \/ Sql!RecCommit \/ Sql!RecKilled PROVE SqlInv'
  <2>1. UNCHANGED <<pending, pc, autoCommit, stmt, left, sent, buf, aws_off, cur_aws_off>>
    BY <1>3 DEF Sql!RecDownload, Sql!RecExecute, Sql!RecCommit, Sql!RecKilled, Sql!recUnchanged,
       Sql!awsVars, Sql!stmtVars
  <2>2. rec \in {"download", "execute"}
    BY <1>3 DEF Sql!RecDownload, Sql!RecExecute, Sql!RecCommit, Sql!RecKilled
  <2>3. LogOk => LogOk' BY <1>1, <2>1 DEF LogOk, LogTypes, LogPrefix
  <2>4. DbIsRan /\ ObjectIsState => DbIsRan' /\ ObjectIsState' BY <1>1 DEF DbIsRan, ObjectIsState
  <2>5. ASSUME IsSeq(copy'), Len(object) \in Nat => (CopyOk => CopyOk') PROVE SqlInv'
    <3>1. SqlTypes' BY <1>0, <1>1, <2>1, <2>5 DEF SqlTypes
    <3>2. LogOk => Len(object) \in Nat BY DEF LogOk, LogTypes, IsSeq
    <3> QED BY <1>1, <2>3, <2>4, <2>5, <3>1, <3>2 DEF SqlInv, ReplayOk
  <2>6. IsSeq(copy) /\ Len(copy) \in Nat BY <1>0 DEF SqlTypes, IsSeq
  <2>7. CASE copy' = <<>> /\ next' = 1 /\ result' = result
    <3>1. Len(object) \in Nat => (CopyOk => CopyOk') BY <1>1, <2>2, <2>7 DEF CopyOk
    <3> QED BY <1>0, <2>5, <2>7, <3>1
  <2>8. CASE UNCHANGED <<copy, next>>
    <3>1. CASE result' = result
      <4>1. CopyOk => CopyOk' BY <1>1, <2>2, <2>8, <3>1 DEF CopyOk
      <4> QED BY <2>5, <2>6, <2>8, <4>1
    <3>2. CASE Sql!RecCommit
      <4>1. rec' = "done" /\ next > Len(object) BY <3>2 DEF Sql!RecCommit
      <4>2. Len(object) \in Nat /\ CopyOk => Len(copy) = Len(object) BY <2>6, <4>1 DEF CopyOk
      <4>3. Len(object) \in Nat => (CopyOk => CopyOk') BY <1>1, <2>8, <4>1, <4>2 DEF CopyOk
      <4> QED BY <2>5, <2>6, <2>8, <4>3
    <3>3. ~Sql!RecExecute \/ copy' # copy \/ result' = result BY DEF Sql!RecExecute
    <3> QED BY <1>3, <2>8, <3>1, <3>2, <3>3 DEF Sql!RecDownload, Sql!RecKilled
  <2>9. CASE copy' = Append(copy, object[next].replay) /\ next' = next + 1 /\ next <= Len(object)
             /\ UNCHANGED <<rec, result>>
    <3>1. /\ IsSeq(copy') /\ Len(copy') = Len(copy) + 1 /\ (\A i \in 1..Len(copy) : copy'[i] = copy[i])
          /\ copy'[Len(copy) + 1] = object[next].replay
      BY <2>6, <2>9, Appended
    <3>2. ASSUME CopyOk, Len(object) \in Nat PROVE CopyOk'
      <4>1. next = Len(copy) + 1 /\ next' = Len(copy') + 1 /\ Len(copy') <= Len(object')
        BY <1>1, <2>6, <2>9, <3>1, <3>2 DEF CopyOk
      <4>2. ASSUME NEW i \in 1..Len(copy') PROVE copy'[i] = object'[i].replay
        <5>1. i \in 1..Len(copy) \/ i = next BY <2>6, <3>1, <4>1
        <5> QED BY <1>1, <3>1, <3>2, <4>1, <5>1 DEF CopyOk
      <4>3. ~result BY <2>2, <3>2 DEF CopyOk
      <4> QED BY <1>1, <2>9, <4>1, <4>2, <4>3 DEF CopyOk
    <3> QED BY <2>5, <3>1, <3>2
  <2> QED BY <1>3, <2>7, <2>8, <2>9 DEF Sql!RecDownload, Sql!RecExecute, Sql!RecCommit, Sql!RecKilled,
                                      Sql!RollbackCopy
<1> QED BY <1>2, <1>3

\* Every step of mode 3 keeps SqlInv.
LEMMA SqlNext == ASSUME SqlInv, Sql!Next PROVE SqlInv'
<1>1. ASSUME NEW c \in Conn, Sql!Statement(c) PROVE SqlInv'
  BY <1>1, SqlCall, SqlCallAgain, SqlStepDone, SqlStepFailed, SqlQuiet, SqlCommit, SqlUploadStarted,
     SqlUploadEnded DEF Sql!Statement
<1> QED BY <1>1, ScriptSteps DEF Sql!Next

\* SqlInv holds at the start.
LEMMA SqlInit == ASSUME Sql!Init PROVE SqlInv
<1>1. IsSeq(<<>>) BY DEF IsSeq
<1>2. SqlTypes BY <1>1 DEF Sql!Init, SqlTypes
<1>3. LogOk BY <1>1 DEF Sql!Init, LogOk, LogTypes, LogPrefix, LogBuffer, TextSent, Uploads
<1>4. ReplayOk
  BY DEF Sql!Init, ReplayOk, DbIsRan, ObjectIsState, CopyOk, UsesOnce, Uses, Uploads, LogIsRan, RanIsDb, OpenOk
<1> QED BY <1>2, <1>3, <1>4 DEF SqlInv

\* SqlInv says what the properties of mode 3 say.
LEMMA SqlInvImplies == ASSUME SqlInv PROVE Sql!ObjectIsPrefix /\ Sql!FaithfulReplay
<1> USE DEF SqlInv, SqlTypes
<1>1. Sql!ObjectIsPrefix BY PrefixIs DEF LogOk, LogTypes, LogPrefix, Sql!ObjectIsPrefix
<1>2. Sql!FaithfulReplay
  <2> SUFFICES ASSUME ~spoilt, ~overlap, rec = "done", result
               PROVE  /\ Sql!IsPrefix(copy, ran)
                      /\ ~torn => \E n \in states : copy = SubSeq(db, 1, n)
    BY DEF Sql!FaithfulReplay, Sql!ReplayIsState
  <2>1. ObjectIsState /\ CopyOk /\ DbIsRan BY DEF ReplayOk
  <2> DEFINE n == Len(object)
             t == SubSeq(db, 1, n)
  <2>2. n \in Nat /\ Len(db) \in Nat /\ Len(ran) \in Nat BY DEF LogOk, LogTypes, IsSeq
  <2>3. Len(copy) = n /\ n <= Len(ran) /\ \A i \in 1..n : copy[i] = ran[i]
    BY <2>1 DEF ObjectIsState, CopyOk
  <2>4. Sql!IsPrefix(copy, ran) BY <2>3, PrefixIs
  <2>5. ASSUME ~torn PROVE \E m \in states : copy = SubSeq(db, 1, m)
    <3>1. n <= Len(db) /\ n \in states BY <2>1, <2>5 DEF ObjectIsState
    <3>2. IsSeq(t) /\ Len(t) = n /\ \A i \in 1..n : t[i] = db[i]
      <4> HIDE DEF n
      <4> DEFINE S == {db[i] : i \in DOMAIN db}
      <4>1. db \in Seq(S) BY DEF IsSeq
      <4> HIDE DEF S
      <4>2. t \in Seq(S) /\ Len(t) = n /\ \A i \in 1..n : t[i] = db[i] BY <2>2, <3>1, <4>1
      <4> QED BY <4>2, SeqOfAny
    <3>3. \A i \in 1..n : copy[i] = db[i] BY <2>1, <2>2, <2>3, <3>1 DEF DbIsRan
    <3> HIDE DEF n, t
    <3>4. copy = t BY <2>3, <3>2, <3>3, SameSeq
    <3> QED BY <3>1, <3>4 DEF t
  <2> QED BY <2>4, <2>5
<1> QED BY <1>1, <1>2

(***************************************************************************)
(* The library, in whatever mode it is built                               *)
(***************************************************************************)
\* The mode is that of the build, and its invariant holds.
S3Inv ==
    /\ AWS_S3_RECV = 1 => SnapshotInv
    /\ AWS_S3_RECV = 2 => PartialInv
    /\ AWS_S3_RECV = 3 => SqlInv

\* S3Inv is an invariant.
LEMMA S3InvHolds == Spec => []S3Inv
<1>1. Init => S3Inv BY SnapshotInit, PartialInit, SqlInit DEF Init, S3Inv
<1>2. ASSUME S3Inv, [Next]_vars PROVE S3Inv'
  <2>1. CASE Next
    <3>1. CASE AWS_S3_RECV = 2 /\ Partial!Next
      <4>1. AWS_S3_RECV' = 2 /\ PartialInv' BY <1>2, <2>1, <3>1, PartialNext DEF Next, S3Inv
      <4> QED BY <4>1 DEF S3Inv
    <3>2. CASE AWS_S3_RECV = 3 /\ Sql!Next
      <4>1. AWS_S3_RECV' = 3 /\ SqlInv' BY <1>2, <2>1, <3>2, SqlNext DEF Next, S3Inv
      <4> QED BY <4>1 DEF S3Inv
    <3>3. CASE AWS_S3_RECV = 1 /\ Snapshot!Next
      <4>1. AWS_S3_RECV' = 1 /\ SnapshotInv' BY <1>2, <2>1, <3>3, SnapshotNext DEF Next, S3Inv
      <4> QED BY <4>1 DEF S3Inv
    <3> QED BY <2>1, <3>1, <3>2, <3>3 DEF Next
  <2>2. CASE UNCHANGED vars
    <3>1. UNCHANGED <<AWS_S3_RECV, db, object, pc, rec, result, failed, overlap, buf, cur_aws_off, writer, sent,
                      stream, pending, autoCommit, stmt, left, aws_off, size, next, copy, states, ran, logged,
                      spoilt, torn>>
      BY <2>2 DEF vars, commonVars, walVars, uploadVars, bufferVars, frameVars, sqlVars
    <3>2. PartialInv => PartialInv'
      BY <3>1 DEF PartialInv, PartialTypes, PartialOk, PrefixOk, BufferOk, SentOk, Uploads, BufferUsed
    <3>3. SqlInv => SqlInv'
      <4>1. SqlTypes => SqlTypes' BY <3>1 DEF SqlTypes
      <4>2. LogOk => LogOk' BY <3>1 DEF LogOk, LogTypes, LogPrefix, LogBuffer, TextSent, Uploads
      <4>3. ReplayOk => ReplayOk'
        BY <3>1 DEF ReplayOk, DbIsRan, ObjectIsState, CopyOk, UsesOnce, Uses, Uploads, LogIsRan, RanIsDb, OpenOk
      <4> QED BY <3>1, <4>1, <4>2, <4>3 DEF SqlInv
    <3>4. SnapshotInv => SnapshotInv'
      <4>1. UNCHANGED <<hist, wal, mxFrame, nBackfill, body, todo, mxSafeFrame, version, acked>>
        BY <2>2 DEF vars, commonVars, walVars, uploadVars
      <4>2. SnapshotTypes => SnapshotTypes' BY <3>1, <4>1, TypesKept
      <4>3. ASSUME NEW L PROVE FilesOk(L) => FilesOk(L)'
        BY <3>1, <4>1, FilesKept
      <4>4. ASSUME NEW L, AckedOk(L) PROVE AckedOk(L)'
        <5>1. Acked => Acked' BY <3>1, <4>1, AckedSame
        <5>2. DbShows => DbShows' BY <3>1, <4>1, DbSame
        <5>3. Uploaded(L) => Uploaded(L)' BY <3>1, <4>1, UploadedSame
        <5>4. Fresh(L) => Fresh(L)' BY <3>1, <4>1, <5>3 DEF Fresh
        <5>5. Busy => Busy' BY <3>1, <4>1 DEF Busy
        <5>6. Script => Script' BY <3>1, <4>1 DEF Script
        <5> QED BY <3>1, <4>1, <4>4, <5>1, <5>2, <5>4, <5>5, <5>6 DEF AckedOk
      <4> QED BY <4>2, <4>3, <4>4 DEF SnapshotInv
    <3> QED BY <1>2, <3>1, <3>2, <3>3, <3>4 DEF S3Inv
  <2> QED BY <1>2, <2>1, <2>2
<1> QED BY <1>1, <1>2, PTL DEF Spec

\* Mode 1: whatever uploads fail and whoever appends to the WAL file, restarts
\* it or truncates it while the aws command reads it, the object holds a commit
\* of the log that its header names.
THEOREM ObjectVersion == Spec => []ObjectIsVersion
<1>1. S3Inv => ObjectIsVersion BY SnapshotInvImplies DEF S3Inv, ObjectIsVersion
<1> QED BY <1>1, S3InvHolds, PTL

\* Mode 1: if no upload failed and no statements overlapped, a recovery that
\* reports success leaves the database as a commit left it that is not before
\* the last acknowledged one, for any number of commits, checkpoints, restarts
\* of the log, truncations and killed runs of the script.
THEOREM AckedRecovered == Spec => []AckedIsRecovered
<1>1. S3Inv => AckedIsRecovered BY SnapshotInvImplies DEF S3Inv, AckedIsRecovered
<1> QED BY <1>1, S3InvHolds, PTL

\* Mode 2: if no upload failed and no thread used the buffer during another's
\* upload, the object has between statements every frame that walWriteToLog
\* wrote, once and in order, for any number of threads, transactions, spills,
\* rollbacks and restarts of the log.
THEOREM StreamUploaded == Spec => []StreamIsUploaded
<1>1. S3Inv => StreamIsUploaded BY PartialInvImplies DEF S3Inv, StreamIsUploaded
<1> QED BY <1>1, S3InvHolds, PTL

\* Modes 2 and 3: unless two threads used the buffer at once, the object is a
\* prefix of what went into it, whatever uploads fail, for any number of
\* connections.
THEOREM ObjectPrefix == Spec => []ObjectIsPrefix
<1>1. S3Inv => ObjectIsPrefix BY PartialInvImplies, SqlInvImplies DEF S3Inv, ObjectIsPrefix
<1> QED BY <1>1, S3InvHolds, PTL

\* Mode 3: unless a statement was spoilt or two threads used the buffer at
\* once, a replay that succeeds repeats what any number of connections ran, up
\* to some statement and in order, and gives the database of some commit if no
\* other connection had a transaction open when the object last grew, whatever
\* uploads failed or were skipped and however often the script was killed.
THEOREM ReplayFaithful == Spec => []FaithfulReplay
<1>1. S3Inv => FaithfulReplay BY SqlInvImplies DEF S3Inv, FaithfulReplay
<1> QED BY <1>1, S3InvHolds, PTL
=============================================================================
