------------------------- MODULE WalSnapshotProofs --------------------------
(***************************************************************************)
(* Snapshot isolation, until a process is killed and unless a checkpointer *)
(* is overtaken between the header and nBackfill: what the log and the     *)
(* database show to a transaction is the version it began with.            *)
(***************************************************************************)
EXTENDS WalProofs

USE DEF WAL_WRITE_LOCK, WAL_CKPT_LOCK, WAL_RECOVER_LOCK, WAL_READ_LOCK, RetryFrom

(***************************************************************************)
(* Frames of a page                                                        *)
(***************************************************************************)
\* FrameIn is 0 or the last frame of the page,
LEMMA FrameFacts ==
    ASSUME NEW lg \in Seq(FrameRec), NEW p, NEW f \in Int, NEW l \in Int
    PROVE  /\ FrameIn(lg, p, f, l) \in Nat
           /\ ~HasFrame(lg, p, f, l) => FrameIn(lg, p, f, l) = 0
           /\ HasFrame(lg, p, f, l) =>
                 /\ FrameIn(lg, p, f, l) \in 1..Len(lg) /\ FrameIn(lg, p, f, l) > 0
                 /\ f <= FrameIn(lg, p, f, l) /\ FrameIn(lg, p, f, l) <= l
                 /\ lg[FrameIn(lg, p, f, l)].pgno = p
                 /\ \A i \in 1..Len(lg) : f <= i /\ i <= l /\ lg[i].pgno = p =>
                                             i <= FrameIn(lg, p, f, l)
<1> DEFINE S == {i \in 1..Len(lg) : f <= i /\ i <= l /\ lg[i].pgno = p}
<1>1. FrameIn(lg, p, f, l) = Top(S)
  BY DEF FrameIn
<1>2. S = {} <=> ~HasFrame(lg, p, f, l)
  BY DEF HasFrame
<1>3. S = {} => Top(S) = 0
  BY DEF Top
<1>4. Len(lg) \in Nat /\ S \in SUBSET (0..Len(lg))
  OBVIOUS
<1>5. S # {} => Top(S) \in S /\ \A i \in S : i <= Top(S)
  <2> HIDE DEF S
  <2> QED
    BY <1>4, TopIsMember
<1>6. CASE S = {}
  BY <1>1, <1>2, <1>3, <1>6
<1>7. CASE S # {}
  BY <1>1, <1>2, <1>5, <1>7
<1> QED
  BY <1>6, <1>7

\* which is this one,
LEMMA FrameIs ==
    ASSUME NEW lg \in Seq(FrameRec), NEW p, NEW f \in Int, NEW l \in Int, NEW j \in 1..Len(lg),
           f <= j, j <= l, lg[j].pgno = p,
           \A i \in 1..Len(lg) : f <= i /\ i <= l /\ lg[i].pgno = p => i <= j
    PROVE  FrameIn(lg, p, f, l) = j /\ HasFrame(lg, p, f, l)
<1>1. HasFrame(lg, p, f, l)
  BY DEF HasFrame
<1>2. /\ FrameIn(lg, p, f, l) \in 1..Len(lg) /\ f <= FrameIn(lg, p, f, l) /\ FrameIn(lg, p, f, l) <= l
      /\ lg[FrameIn(lg, p, f, l)].pgno = p /\ j <= FrameIn(lg, p, f, l)
  BY <1>1, FrameFacts
<1>3. FrameIn(lg, p, f, l) <= j
  BY <1>2
<1> DEFINE m == FrameIn(lg, p, f, l)
<1>4. m \in Nat /\ j \in Nat /\ m <= j /\ j <= m
  BY <1>2, <1>3
<1> HIDE DEF m
<1>5. m = j
  BY <1>4
<1> QED
  BY <1>1, <1>5 DEF m

\* and does not depend on frames before it,
LEMMA FrameNarrow ==
    ASSUME NEW lg \in Seq(FrameRec), NEW p, NEW f \in Int, NEW g \in Int, NEW l \in Int, f <= g,
           HasFrame(lg, p, g, l)
    PROVE  HasFrame(lg, p, f, l) /\ FrameIn(lg, p, f, l) = FrameIn(lg, p, g, l)
<1> DEFINE j == FrameIn(lg, p, g, l)
<1>1. /\ j \in 1..Len(lg) /\ g <= j /\ j <= l /\ lg[j].pgno = p
      /\ \A i \in 1..Len(lg) : g <= i /\ i <= l /\ lg[i].pgno = p => i <= j
  BY FrameFacts
<1> HIDE DEF j
<1>2. Len(lg) \in Nat
  OBVIOUS
<1>3. f <= j
  BY <1>1, <1>2
<1>4. ASSUME NEW i \in 1..Len(lg), f <= i, i <= l, lg[i].pgno = p
      PROVE  i <= j
  <2>1. CASE g <= i
    BY <1>1, <1>4, <2>1
  <2>2. CASE i < g
    BY <1>1, <1>2, <2>2
  <2> QED
    BY <1>2, <2>1, <2>2
<1> QED
  BY <1>1, <1>3, <1>4, FrameIs DEF j

\* in the log in particular,
LEMMA NarrowLog ==
    ASSUME log \in Seq(FrameRec), NEW p \in Page,
           NEW f \in Int, NEW g \in Int, NEW l \in Int, f <= g, HasFrame(log, p, g, l)
    PROVE  FrameIn(log, p, f, l) = FrameIn(log, p, g, l)
BY FrameNarrow

\* nor on frames of other pages after it.
LEMMA FrameShorten ==
    ASSUME NEW lg \in Seq(FrameRec), NEW p, NEW f \in Int, NEW m \in Int, NEW l \in Int, m <= l,
           ~HasFrame(lg, p, m + 1, l)
    PROVE  FrameIn(lg, p, f, l) = FrameIn(lg, p, f, m)
<1>1. \A i \in 1..Len(lg) : i \in Int
  OBVIOUS
<1>2. \A i \in 1..Len(lg) : i <= l /\ lg[i].pgno = p => i <= m
  BY <1>1 DEF HasFrame
<1>3. \A i \in 1..Len(lg) : i <= m => i <= l
  BY <1>1
<1>4. {i \in 1..Len(lg) : f <= i /\ i <= l /\ lg[i].pgno = p}
       = {i \in 1..Len(lg) : f <= i /\ i <= m /\ lg[i].pgno = p}
  BY <1>2, <1>3
<1> QED
  BY <1>4 DEF FrameIn

\* A range that grows has the frames it had.
LEMMA FrameWiden ==
    ASSUME NEW lg \in Seq(FrameRec), NEW p, NEW f \in Int, NEW l \in Int, NEW g \in Int, NEW k \in Int,
           g <= f, l <= k, HasFrame(lg, p, f, l)
    PROVE  HasFrame(lg, p, g, k)
<1>1. PICK i \in 1..Len(lg) : f <= i /\ i <= l /\ lg[i].pgno = p
  BY DEF HasFrame
<1>2. i \in Int
  OBVIOUS
<1>3. g <= i /\ i <= k
  BY <1>1, <1>2
<1> QED
  BY <1>1, <1>3 DEF HasFrame

\* In an empty range there is none.
LEMMA FrameEmpty ==
    ASSUME NEW lg \in Seq(FrameRec), NEW p, NEW f \in Int, NEW l \in Int, l < f
    PROVE  ~HasFrame(lg, p, f, l) /\ FrameIn(lg, p, f, l) = 0
<1>1. ~HasFrame(lg, p, f, l)
  <2>1. \A i \in 1..Len(lg) : i \in Int
    OBVIOUS
  <2> QED
    BY <2>1 DEF HasFrame
<1> QED
  BY <1>1, FrameFacts

\* Logs that agree on their first m frames.
Agree(a, b, m) == m <= Len(a) /\ m <= Len(b) /\ \A i \in 1..m : a[i] = b[i]

LEMMA FrameAgree ==
    ASSUME NEW a \in Seq(FrameRec), NEW b \in Seq(FrameRec), NEW m \in Nat, Agree(a, b, m),
           NEW p, NEW f \in Int, NEW l \in Int, l <= m
    PROVE  /\ FrameIn(a, p, f, l) = FrameIn(b, p, f, l)
           /\ HasFrame(a, p, f, l) <=> HasFrame(b, p, f, l)
<1>1. Len(a) \in Nat /\ Len(b) \in Nat
  OBVIOUS
<1>2. \A i \in 1..Len(a) : i <= l => i \in 1..Len(b) /\ a[i] = b[i]
  BY <1>1 DEF Agree
<1>3. \A i \in 1..Len(b) : i <= l => i \in 1..Len(a) /\ a[i] = b[i]
  BY <1>1 DEF Agree
<1>4. {i \in 1..Len(a) : f <= i /\ i <= l /\ a[i].pgno = p}
       = {i \in 1..Len(b) : f <= i /\ i <= l /\ b[i].pgno = p}
  BY <1>2, <1>3
<1> QED
  BY <1>2, <1>3, <1>4 DEF FrameIn, HasFrame

\* The content of a page that has a frame does not depend on frames before it.
LEMMA ContentNarrow ==
    ASSUME NEW lg \in Seq(FrameRec), NEW p, NEW f \in Int, NEW g \in Int, NEW l \in Int, f <= g,
           HasFrame(lg, p, g, l), NEW d
    PROVE  Content(d, lg, p, f, l) = Content(d, lg, p, g, l)
<1>1. FrameIn(lg, p, f, l) = FrameIn(lg, p, g, l)
  BY FrameNarrow
<1> QED
  BY <1>1 DEF Content

LEMMA ContentAgree ==
    ASSUME NEW a \in Seq(FrameRec), NEW b \in Seq(FrameRec), NEW m \in Nat, Agree(a, b, m),
           NEW p, NEW f \in Int, NEW l \in Int, l <= m, NEW d
    PROVE  Content(d, a, p, f, l) = Content(d, b, p, f, l)
<1> DEFINE j == FrameIn(a, p, f, l)
<1>1. FrameIn(b, p, f, l) = j
  BY FrameAgree
<1>2. j = 0 \/ (j \in 1..Len(a) /\ j <= l)
  BY FrameFacts
<1> HIDE DEF j
<1>3. j # 0 => j \in 1..m
  BY <1>2
<1>4. j # 0 => a[j] = b[j]
  BY <1>3 DEF Agree
<1> QED
  BY <1>1, <1>4 DEF Content, j

(***************************************************************************)
(* What a step does to the files and to the wal-index                      *)
(***************************************************************************)
\* The numbers of connections and of the log are numbers.
LEMMA Numbers ==
    ASSUME FileTypes, ShmTypes, ReadTypes, CkptTypes
    PROVE  /\ Len(log) \in Nat /\ log \in Seq(FrameRec)
           /\ \A i \in ReadMarks : aReadMark[i] \in Nat
           /\ \A d \in Conn : /\ mxSafeFrame[d] \in Nat /\ y[d] \in Nat /\ minFrame[d] \in Nat
                              /\ mxReadMark[d] \in Nat /\ readLock[d] \in Int
                              /\ readLock[d] > 0 => readLock[d] \in ReadMarks
  BY BoundAssumption, LockNumbers DEF FileTypes, ShmTypes, ReadTypes, CkptTypes, Frame, READMARK_NOT_USED

\* A step that changes none of them.
Quiet == UNCHANGED <<db, log, nBackfill, hist>> /\ aHdr'[0] = aHdr[0]

\* Every other step changes one.
LEMMA DataSteps ==
    ASSUME NEW c \in Conn, Changes(c), ShmTypes
    PROVE  \/ Quiet \/ CkptCopy(c) \/ CkptTruncateDb(c) \/ Spill(c) \/ Commit(c) \/ CkptTruncateLog(c)
           \/ CkptDone(c) \/ RestartBackfill(c) \/ RestartHdr0(c) \/ Publish0(c)
<1>1. aHdr'[0] = aHdr[0] \/ RestartHdr0(c) \/ Publish0(c)
  BY FirstCopy
<1>2. /\ db' = db \/ CkptCopy(c) \/ CkptTruncateDb(c)
      /\ log' = log \/ Spill(c) \/ Commit(c) \/ CkptTruncateLog(c)
      /\ nBackfill' = nBackfill \/ RestartBackfill(c) \/ CkptDone(c)
      /\ hist' = hist \/ Publish0(c)
  BY DEF Changes
<1> QED
  BY <1>1, <1>2, Zenon DEF Quiet

\* Frames are written where they belong.
LEMMA WrittenFrames ==
    ASSUME NEW c \in Conn, FileTypes, HdrTypes, hdr[c].mxFrame <= Len(log),
           NEW fs \in Seq(FrameRec), hdr[c].mxFrame + Len(fs) <= MaxFrame
    PROVE  /\ WriteFrames(c, fs) \in Seq(FrameRec)
           /\ Agree(log, WriteFrames(c, fs), hdr[c].mxFrame)
           /\ hdr[c].mxFrame + Len(fs) <= Len(WriteFrames(c, fs))
           /\ \A i \in 1..Len(fs) : WriteFrames(c, fs)[hdr[c].mxFrame + i] = fs[i]
<1> DEFINE m == hdr[c].mxFrame
           n == m + Len(fs)
           k == IF n > Len(log) THEN n ELSE Len(log)
<1>1. m \in Nat /\ Len(fs) \in Nat /\ Len(log) \in Nat
  <2>1. m \in Frame
    BY DEF HdrTypes, Header
  <2> QED
    BY <2>1, Zeros DEF FileTypes
<1>2. n \in Nat /\ k \in Nat /\ n <= k /\ m <= n
  BY <1>1
<1>3. WriteFrames(c, fs) = [i \in 1..k |-> IF i > m /\ i <= n THEN fs[i - m] ELSE log[i]]
  BY DEF WriteFrames
<1>4. WriteFrames(c, fs) \in Seq(FrameRec) /\ n <= Len(WriteFrames(c, fs))
  BY WriteFramesType
<1>5. \A i \in 1..m : WriteFrames(c, fs)[i] = log[i]
  <2> HIDE DEF n, k, m
  <2> TAKE i \in 1..m
  <2>1. i \in 1..k /\ ~ (i > m)
    BY <1>1, <1>2
  <2> QED
    BY <1>3, <2>1
<1>6. ASSUME NEW i \in 1..Len(fs) PROVE WriteFrames(c, fs)[m + i] = fs[i]
  <2>1. m + i \in 1..k /\ m + i > m /\ m + i <= n /\ (m + i) - m = i
    BY <1>1, <1>2
  <2> HIDE DEF n, k, m
  <2> QED
    BY <1>3, <2>1
<1>7. m <= Len(WriteFrames(c, fs))
  <2>1. Len(WriteFrames(c, fs)) \in Nat
    BY <1>4
  <2> QED
    BY <1>1, <1>2, <1>4, <2>1
<1> QED
  BY <1>4, <1>5, <1>6, <1>7 DEF Agree

\* A spill writes a page behind those of the transaction.
LEMMA SpillWrites ==
    ASSUME NEW c \in Conn, FileTypes, HdrTypes, HistTypes, LogCoversHdr, Spill(c)
    PROVE  /\ log' \in Seq(FrameRec) /\ Agree(log, log', hdr[c].mxFrame)
           /\ hdr[c].mxFrame + 1 <= Len(log')
           /\ \E p \in Page : /\ log'[hdr[c].mxFrame + 1].pgno = p
                              /\ log'[hdr[c].mxFrame + 1].val = txn
                              /\ work' = [work EXCEPT ![p] = txn]
<1>1. PICK p \in Spills : /\ log' = WriteFrames(c, <<FrameOf(c, p, TRUE, 0)>>)
                          /\ work' = [work EXCEPT ![p] = txn]
  BY DEF Spill
<1>2. p \in Page /\ 0 \in 0..MaxPage
  BY BoundAssumption DEF Page
<1> DEFINE fs == <<FrameOf(c, p, TRUE, 0)>>
<1>3. fs \in Seq(FrameRec) /\ Len(fs) = 1 /\ fs[1] = FrameOf(c, p, TRUE, 0)
  <2>1. FrameOf(c, p, TRUE, 0) \in FrameRec
    BY <1>2, FrameType
  <2>2. ASSUME NEW S, NEW x \in S PROVE <<x>> \in Seq(S) /\ Len(<<x>>) = 1 /\ <<x>>[1] = x
    OBVIOUS
  <2> QED
    BY <2>1, <2>2
<1>4. hdr[c].mxFrame \in Frame /\ hdr[c].mxFrame < MaxFrame /\ hdr[c].mxFrame <= Len(log)
  BY WriterHdrInLog DEF HdrTypes, Header, Spill
<1>5. hdr[c].mxFrame + 1 <= MaxFrame
  BY <1>4, BoundAssumption DEF Frame
<1>6. /\ log' \in Seq(FrameRec) /\ Agree(log, log', hdr[c].mxFrame)
      /\ hdr[c].mxFrame + 1 <= Len(log') /\ log'[hdr[c].mxFrame + 1] = fs[1]
  <2> HIDE DEF fs
  <2>1. log' = WriteFrames(c, fs)
    BY <1>1 DEF fs
  <2>2. 1 \in 1..Len(fs)
    BY <1>3
  <2> QED
    BY <1>3, <1>4, <1>5, <2>1, <2>2, WrittenFrames
<1>7. fs[1].pgno = p /\ fs[1].val = txn
  BY <1>3 DEF FrameOf
<1> QED
  BY <1>1, <1>2, <1>6, <1>7

\* A strictly ascending enumeration meets every page.
LEMMA AscendingOnto ==
    ASSUME NEW S, S \subseteq Page, NEW q \in Ascending(S)
    PROVE  /\ Len(q) \in Nat /\ \A i \in 1..Len(q) : q[i] \in S
           /\ \A p \in S : \E i \in 1..Len(q) : q[i] = p
<1>1. IsFiniteSet(S)
  <2>1. IsFiniteSet(Page)
    BY BoundAssumption, FS_Interval DEF Page
  <2> QED
    BY <2>1, FS_Subset
<1> DEFINE n == Cardinality(S)
<1>2. n \in Nat
  BY <1>1, FS_CardinalityType
<1>3. q \in [1..n -> S] /\ \A i, j \in 1..n : i < j => q[i] < q[j]
  BY DEF Ascending
<1> HIDE DEF n
<1>4. Len(q) = n
  BY <1>2, <1>3
<1>5. ASSUME NEW i \in 1..n, NEW j \in 1..n, q[i] = q[j] PROVE i = j
  <2>0. q[i] \in Page /\ q[j] \in Page
    BY <1>3
  <2>1. q[i] \in Nat /\ q[j] \in Nat
    BY <2>0, BoundAssumption DEF Page
  <2>2. ~ (i < j) /\ ~ (j < i)
    BY <1>3, <1>5, <2>1
  <2> QED
    BY <1>2, <2>2
<1>6. q \in Injection(1..n, S)
  BY <1>3, <1>5 DEF Injection, IsInjective
<1>7. Cardinality(1..n) = n
  BY <1>2, FS_Interval
<1>8. q \in Surjection(1..n, S)
  BY <1>1, <1>6, <1>7, FS_Injection DEF n
<1> QED
  BY <1>2, <1>3, <1>4, <1>8 DEF Surjection

\* A commit writes its pages behind those of the transaction.
LEMMA CommitWrites ==
    ASSUME NEW c \in Conn, FileTypes, ShmTypes, HdrTypes, HistTypes, LogCoversHdr, Commit(c)
    PROVE  \E w \in Writes : \E k \in Nat :
              /\ log' \in Seq(FrameRec) /\ Agree(log, log', hdr[c].mxFrame)
              /\ hdr'[c].mxFrame = hdr[c].mxFrame + k /\ hdr[c].mxFrame + k <= Len(log')
              /\ hdr'[c].nPage = w.size
              /\ pend'.img = Committed(w.pages, w.size)
              /\ \A p \in 1..w.size : Committed(w.pages, w.size)[p] # 0
              /\ \A i \in (hdr[c].mxFrame + 1)..(hdr[c].mxFrame + k) :
                    log'[i].pgno \in w.pages /\ log'[i].val = txn
              /\ \A p \in w.pages : OwnFrame(c, p) = 0 =>
                    \E i \in (hdr[c].mxFrame + 1)..(hdr[c].mxFrame + k) : log'[i].pgno = p
<1>1. PICK w \in Writes : \E q \in Ascending(NewPages(c, w.pages)) :
          /\ hdr[c].mxFrame + Len(q) <= MaxFrame
          /\ \A p \in 1..w.size : Committed(w.pages, w.size)[p] # 0
          /\ log' = WriteFrames(c, CommitFrames(c, q, w.size))
          /\ pend' = [txn |-> txn, img |-> Committed(w.pages, w.size)]
          /\ hdr'[c].mxFrame = hdr[c].mxFrame + Len(q)
          /\ hdr'[c].nPage = w.size
  BY CommitFields
<1>2. PICK q \in Ascending(NewPages(c, w.pages)) :
          /\ hdr[c].mxFrame + Len(q) <= MaxFrame
          /\ \A p \in 1..w.size : Committed(w.pages, w.size)[p] # 0
          /\ log' = WriteFrames(c, CommitFrames(c, q, w.size))
          /\ pend' = [txn |-> txn, img |-> Committed(w.pages, w.size)]
          /\ hdr'[c].mxFrame = hdr[c].mxFrame + Len(q)
          /\ hdr'[c].nPage = w.size
  BY <1>1
<1>3. w.pages \subseteq Page
  <2>1. w \in [pages : (SUBSET (1..MaxPage)) \ {{}}, size : 1..MaxPage]
    BY <1>1, BoundAssumption
  <2> QED
    BY <2>1 DEF Page
<1> DEFINE S == NewPages(c, w.pages)
           fs == CommitFrames(c, q, w.size)
           m == hdr[c].mxFrame
           k == Len(q)
<1>4. S \subseteq w.pages /\ \A p \in w.pages : OwnFrame(c, p) = 0 => p \in S
  BY DEF NewPages
<1>5. k \in Nat /\ (\A i \in 1..k : q[i] \in S) /\ \A p \in S : \E i \in 1..k : q[i] = p
  BY <1>3, <1>4, AscendingOnto
<1>6. fs \in Seq(FrameRec) /\ Len(fs) = k
  BY CommitFramesType
<1>7. \A i \in 1..k : fs[i].pgno = q[i] /\ fs[i].val = txn
  BY DEF CommitFrames, FrameOf
<1>8. m \in Nat /\ m <= Len(log)
  BY WriterHdrInLog, HdrNumbers DEF Commit
<1> HIDE DEF fs, m, k, S
<1>9. /\ log' \in Seq(FrameRec) /\ Agree(log, log', m) /\ m + k <= Len(log')
      /\ \A i \in 1..k : log'[m + i] = fs[i]
  <2>1. log' = WriteFrames(c, fs)
    BY <1>2 DEF fs
  <2>2. m + Len(fs) <= MaxFrame
    BY <1>2, <1>6 DEF m, k
  <2> QED
    BY <1>6, <1>8, <2>1, <2>2, WrittenFrames DEF m
<1>10. ASSUME NEW i \in (m + 1)..(m + k)
       PROVE  log'[i].pgno \in w.pages /\ log'[i].val = txn
  <2>1. i - m \in 1..k /\ m + (i - m) = i
    BY <1>5, <1>8
  <2>2. log'[i] = fs[i - m]
    BY <1>9, <2>1
  <2> QED
    BY <1>4, <1>5, <1>7, <2>1, <2>2
<1>11. ASSUME NEW p \in w.pages, OwnFrame(c, p) = 0
       PROVE  \E i \in (m + 1)..(m + k) : log'[i].pgno = p
  <2>1. PICK i \in 1..k : q[i] = p
    BY <1>4, <1>5, <1>11
  <2>2. m + i \in (m + 1)..(m + k)
    BY <1>5, <1>8
  <2>3. log'[m + i].pgno = p
    BY <1>7, <1>9, <2>1
  <2> QED
    BY <2>2, <2>3
<1>12. pend'.img = Committed(w.pages, w.size)
  BY <1>2
<1>13. hdr'[c].mxFrame = m + k /\ hdr'[c].nPage = w.size
  BY <1>2 DEF m, k
<1> QED
  BY <1>2, <1>5, <1>9, <1>10, <1>11, <1>12, <1>13 DEF m

\* No step touches a frame that is committed.
LEMMA PrefixKept ==
    ASSUME NEW c \in Conn, Changes(c), FileTypes, ShmTypes, HdrTypes, HistTypes, LogCoversHdr,
           RestartInv(c), WriterHdr(c)
    PROVE  log' \in Seq(FrameRec) /\ Agree(log, log', aHdr[0].mxFrame)
<1> DEFINE M == aHdr[0].mxFrame
<1>1. M \in Nat /\ M <= Len(log) /\ log \in Seq(FrameRec)
  BY HdrNumbers DEF LogCoversHdr, FileTypes
<1>2. CASE log' = log
  BY <1>1, <1>2 DEF Agree
<1>3. CASE Spill(c) \/ Commit(c)
  <2>1. log' \in Seq(FrameRec) /\ Agree(log, log', hdr[c].mxFrame)
    BY <1>3, SpillWrites, CommitWrites
  <2>2. pc[c] \in {"write", "frames"}
    BY <1>3 DEF Spill, Commit, InFrames
  <2>3. hdr[c].mxFrame >= M /\ hdr[c].mxFrame \in Nat
    BY <2>2, HdrNumbers DEF WriterHdr
  <2>4. Len(log') \in Nat /\ Len(log) \in Nat
    BY <1>1, <2>1
  <2> HIDE DEF M
  <2>5. Agree(log, log', M)
    BY <1>1, <2>1, <2>3, <2>4 DEF Agree
  <2> QED
    BY <2>1, <2>5 DEF M
<1>4. CASE CkptTruncateLog(c)
  <2>1. M = 0 /\ log' = <<>>
    BY <1>4 DEF CkptTruncateLog, RestartInv
  <2>2. log' \in Seq(FrameRec) /\ Len(log') = 0
    BY <2>1
  <2> QED
    BY <1>1, <2>1, <2>2 DEF Agree
<1> QED
  BY <1>2, <1>3, <1>4 DEF Changes

\* The copy of a page is not seen where its frame is.
LEMMA CopyContent ==
    ASSUME NEW c \in Conn, CkptCopy(c), FileTypes, ShmTypes, HdrTypes, CkptTypes, CopyInv(c), CopyImage(c),
           NEW f \in Nat, f <= nBackfill + 1, NEW l \in Nat, mxSafeFrame[c] <= l, NEW p \in Page
    PROVE  Content(db', log, p, f, l) = Content(db, log, p, f, l)
<1>1. PICK i \in todo[c] : db' = [db EXCEPT ![log[i].pgno] = log[i].val]
  BY DEF CkptCopy
<1>2. nBackfill < i /\ i <= mxSafeFrame[c] /\ i \in 1..Len(log)
  BY DEF CopyImage, CopyInv
<1>3. log \in Seq(FrameRec) /\ Len(log) \in Nat /\ nBackfill \in Nat /\ mxSafeFrame[c] \in Nat
  BY HdrNumbers DEF FileTypes, CkptTypes, Frame
<1>4. CASE p = log[i].pgno
  <2>1. f <= i /\ i <= l
    BY <1>2, <1>3
  <2>2. HasFrame(log, p, f, l)
    BY <1>2, <1>4, <2>1 DEF HasFrame
  <2>3. FrameIn(log, p, f, l) # 0
    BY <1>3, <2>2, FrameFacts
  <2> QED
    BY <2>3 DEF Content
<1>5. CASE p # log[i].pgno
  <2>1. db'[p] = db[p]
    BY <1>1, <1>5 DEF FileTypes, Image
  <2> QED
    BY <2>1 DEF Content
<1> QED
  BY <1>4, <1>5

\* The truncation of the database leaves the pages of the last version.
LEMMA TruncatedPages ==
    ASSUME NEW c \in Conn, CkptTruncateDb(c), FileTypes, ShmTypes, HdrTypes, CkptTypes, CkptRange(c),
           CopyImage(c), NEW p \in Page, db'[p] # db[p]
    PROVE  /\ mxSafeFrame[c] = aHdr[0].mxFrame /\ aHdr[0].mxFrame > 0
           /\ aHdr[0].nPage > 0 /\ p > aHdr[0].nPage
<1>1. pc[c] \in CopyPCs
  BY DEF CkptTruncateDb, CopyPCs
<1>2. mxSafeFrame[c] = aHdr[0].mxFrame
  <2>1. db' = IF mxSafeFrame[c] = aHdr[0].mxFrame
              THEN [q \in Page |-> IF q <= hdr[c].nPage THEN db[q] ELSE 0] ELSE db
    BY Zenon DEF CkptTruncateDb
  <2> QED
    BY <2>1
<1>3. db' = [q \in Page |-> IF q <= hdr[c].nPage THEN db[q] ELSE 0]
  <2>1. db' = IF mxSafeFrame[c] = aHdr[0].mxFrame
              THEN [q \in Page |-> IF q <= hdr[c].nPage THEN db[q] ELSE 0] ELSE db
    BY Zenon DEF CkptTruncateDb
  <2> QED
    BY <1>2, <2>1
<1>4. p > hdr[c].nPage
  <2>1. p \in Nat /\ hdr[c].nPage \in Nat
    BY HdrNumbers, BoundAssumption DEF Page
  <2>2. ~ (p <= hdr[c].nPage)
    BY <1>3
  <2> QED
    BY <2>1, <2>2
<1>5. /\ nBackfill < hdr[c].mxFrame /\ hdr[c].mxFrame <= aHdr[0].mxFrame
      /\ mxSafeFrame[c] <= hdr[c].mxFrame
  BY <1>1 DEF CkptRange
<1>6. nBackfill \in Nat /\ hdr[c].mxFrame \in Nat /\ aHdr[0].mxFrame \in Nat
  BY HdrNumbers
<1>7. hdr[c].mxFrame = aHdr[0].mxFrame /\ hdr[c].mxFrame > 0
  BY <1>2, <1>5, <1>6
<1>8. hdr[c].nPage = aHdr[0].nPage /\ hdr[c].nPage > 0
  BY <1>1, <1>7 DEF CopyImage, OlderHdr
<1> QED
  BY <1>2, <1>4, <1>7, <1>8

\* A frame that is copied can be left out.
LEMMA DoneContent ==
    ASSUME NEW c \in Conn, CkptDone(c), FileTypes, ShmTypes, HdrTypes, CkptTypes, Own(c), CkptRange(c),
           CopyImage(c), NEW f \in Nat, nBackfill + 1 <= f, f <= mxSafeFrame[c] + 1,
           NEW l \in Nat, hdr[c].mxFrame <= l, NEW p \in Page,
           p <= hdr[c].nPage \/ HasFrame(log, p, hdr[c].mxFrame + 1, l)
    PROVE  Content(db, log, p, f, l) = Content(db, log, p, nBackfill + 1, l)
<1> DEFINE B == nBackfill + 1
           m == hdr[c].mxFrame
           j == FrameIn(log, p, B, l)
<1>1. pc[c] = "ckptDone" /\ todo[c] = {}
  BY DEF CkptDone, Own, TodoControl
<1>2. /\ log \in Seq(FrameRec) /\ Len(log) \in Nat /\ B \in Nat /\ m \in Nat
      /\ mxSafeFrame[c] \in Nat /\ mxSafeFrame[c] <= m
  <2>1. log \in Seq(FrameRec) /\ Len(log) \in Nat
    BY DEF FileTypes
  <2>2. nBackfill \in Nat /\ m \in Nat
    BY HdrNumbers
  <2>3. mxSafeFrame[c] \in Nat
    BY DEF CkptTypes, Frame
  <2>4. mxSafeFrame[c] <= m
    BY <1>1 DEF CkptRange, CopyPCs
  <2> QED
    BY <2>1, <2>2, <2>3, <2>4
<1>3. \A k \in 1..Len(log) : k \in Nat
  OBVIOUS
<1>4. CASE HasFrame(log, p, f, l)
  <2>1. l \in Int /\ f \in Int /\ B \in Int /\ B <= f
    BY <1>2
  <2>2. Content(db, log, p, f, l) = Content(db, log, p, B, l)
    <3> HIDE DEF B
    <3> QED
      BY <1>2, <1>4, <2>1, ContentNarrow
  <2> QED
    BY <2>2
<1>5. CASE ~HasFrame(log, p, f, l)
  <2>1. Content(db, log, p, f, l) = db[p]
    BY <1>2, <1>5, FrameFacts DEF Content
  <2>2. CASE ~HasFrame(log, p, B, l)
    BY <1>2, <2>1, <2>2, FrameFacts DEF Content
  <2>3. CASE HasFrame(log, p, B, l)
    <3>1. j \in 1..Len(log) /\ j > 0 /\ j <= l /\ log[j].pgno = p
      BY <1>2, <2>3, FrameFacts
    <3>2. j <= mxSafeFrame[c]
      <4> HIDE DEF j
      <4>1. ~ (f <= j)
        BY <1>5, <3>1 DEF HasFrame
      <4> QED
        BY <1>2, <1>3, <3>1, <4>1
    <3>3. ~HasFrame(log, p, m + 1, l)
      <4>1. f <= m + 1
        BY <1>2
      <4> QED
        BY <1>2, <1>5, <4>1, FrameWiden
    <3>4. j = FrameIn(log, p, B, m)
      BY <1>2, <3>3, FrameShorten
    <3>5. db[p] = log[j].val
      BY <1>1, <3>1, <3>2, <3>3, <3>4 DEF CopyImage
    <3> QED
      BY <2>1, <3>1, <3>5 DEF Content
  <2> QED
    BY <2>2, <2>3
<1> QED
  BY <1>4, <1>5

(***************************************************************************)
(* Facts for a step of c                                                   *)
(***************************************************************************)
\* What every connection knows, and what a step of c does.
LEMMA ImageFacts ==
    ASSUME IInv, VersionInv, CounterInv, ImageInv, NEW c \in Conn, Step(c)
    PROVE  /\ FileTypes /\ ShmTypes /\ ControlTypes /\ HdrTypes /\ ReadTypes /\ CkptTypes /\ HistTypes
           /\ LockExcludes /\ LogCoversHdr /\ HdrCounts
           /\ LiveStep(c) /\ Changes(c) /\ Arrives(c) /\ \A d \in Conn \ {c} : Kept(c, d)
           /\ \A d \in Conn : /\ Own(d) /\ TxnInv(d) /\ RestartInv(d) /\ CopyInv(d)
                              /\ NoRecovery(d) /\ ModeControl(d) /\ HdrAge(d) /\ SnapAge(d)
                              /\ SlotLock(d) /\ SlotControl(d) /\ CkptRange(d) /\ WriterHdr(d)
                              /\ AllCopied(d)
           /\ BackfillBounded /\ CurrentShown /\ SizeKnown
           /\ \A d \in Conn : /\ CopyImage(d) /\ MarkInv(d) /\ ReaderImage(d) /\ WriterImage(d)
                              /\ PendingImage(d)
           /\ \A d, e \in Conn : Limited(d, e)
<1>1. LiveStep(c) /\ Changes(c) /\ Arrives(c) /\ \A d \in Conn \ {c} : Kept(c, d)
  BY StepFacts
<1>2. /\ FileTypes /\ ShmTypes /\ ControlTypes /\ HdrTypes /\ ReadTypes /\ CkptTypes /\ HistTypes
      /\ \A d \in Conn : /\ Own(d) /\ TxnInv(d) /\ RestartInv(d) /\ CopyInv(d)
                         /\ NoRecovery(d) /\ ModeControl(d) /\ HdrAge(d)
  BY KnownFacts
<1>3. LockExcludes /\ LogCoversHdr /\ HdrCounts /\ \A d \in Conn : SnapAge(d)
  BY IInvByConn DEF VersionInv
<1>4. /\ BackfillBounded
      /\ \A d \in Conn : /\ SlotLock(d) /\ SlotControl(d) /\ CkptRange(d) /\ WriterHdr(d)
                         /\ AllCopied(d)
  BY DEF CounterInv
<1>5. /\ CurrentShown /\ SizeKnown
      /\ \A d \in Conn : /\ CopyImage(d) /\ MarkInv(d) /\ ReaderImage(d) /\ WriterImage(d)
                         /\ PendingImage(d)
      /\ \A d, e \in Conn : Limited(d, e)
  BY DEF ImageInv
<1> QED
  BY <1>1, <1>2, <1>3, <1>4, <1>5

\* A slot that is in use is not locked exclusively, by whoever it is,
LEMMA SlotIsShared ==
    ASSUME LockExcludes, ControlTypes, ReadTypes, NEW d \in Conn, SlotLock(d), NEW c \in Conn
    PROVE  /\ readLock[d] >= 0 => lockX[WAL_READ_LOCK(readLock[d])] # c
           /\ pc[d] \in {"minFrame", "checkI"} => lockX[WAL_READ_LOCK(mxI[d])] # c
<1>1. \A i \in 0..(WAL_NREADER - 1) : d \in lockS[WAL_READ_LOCK(i)] => lockX[WAL_READ_LOCK(i)] # c
  BY LockNumbers, ConnAssumption DEF LockExcludes
<1>2. readLock[d] >= 0 => readLock[d] \in 0..(WAL_NREADER - 1)
  BY DEF ReadTypes
<1>3. mxI[d] \in 0..(WAL_NREADER - 1)
  BY DEF ReadTypes
<1> QED
  BY <1>1, <1>2, <1>3 DEF SlotLock

\* so that nobody restarts or empties a log that is read,
LEMMA NoRestartUnderReader ==
    ASSUME LockExcludes, ControlTypes, ReadTypes, NEW d \in Conn, SlotLock(d), MarkControl(d),
           NEW c \in Conn, Own(c), readLock[d] > 0 \/ pc[d] = "checkI"
    PROVE  pc[c] \notin {"restart1", "restart0", "restartBackfill", "restartAttempted", "restartMarks", "truncate"}
<1>1. \E i \in ReadMarks : lockX[WAL_READ_LOCK(i)] # c
  <2>1. readLock[d] > 0 => readLock[d] >= 0 /\ readLock[d] \in ReadMarks
    BY BoundAssumption DEF ReadTypes, ReadMarks
  <2>2. pc[d] = "checkI" => mxI[d] \in ReadMarks
    BY DEF MarkControl
  <2>3. CASE readLock[d] > 0
    BY <2>1, <2>3, SlotIsShared
  <2>4. CASE pc[d] = "checkI"
    BY <2>2, <2>4, SlotIsShared
  <2> QED
    BY <2>3, <2>4
<1> QED
  BY <1>1 DEF Own, MarkLocks, AllMarksPCs, RestartPCs

\* and the log only grows.
LEMMA LogGrows ==
    ASSUME NEW c \in Conn, Changes(c), ShmTypes, HdrTypes, CkptTypes, CopyInv(c), WriterHdr(c),
           pc[c] \notin {"restart1", "restart0", "restartBackfill", "restartAttempted", "restartMarks", "truncate"}
    PROVE  /\ nBackfill <= nBackfill' /\ nBackfill' \in Nat
           /\ \/ aHdr'[0] = aHdr[0]
              \/ Publish0(c) /\ aHdr'[0] = hdr[c] /\ hdr[c].mxFrame > aHdr[0].mxFrame
<1>1. nBackfill <= nBackfill' /\ nBackfill' \in Nat
  <2>1. nBackfill' = nBackfill \/ CkptDone(c)
    BY DEF Changes, RestartBackfill
  <2>2. CASE CkptDone(c)
    <3>1. nBackfill' = mxSafeFrame[c] /\ nBackfill < mxSafeFrame[c]
      BY <2>2 DEF CkptDone, CopyInv
    <3>2. mxSafeFrame[c] \in Nat /\ nBackfill \in Nat
      BY HdrNumbers DEF CkptTypes, Frame
    <3> QED
      BY <3>1, <3>2
  <2> QED
    BY <2>1, <2>2, HdrNumbers
<1>2. aHdr'[0] = aHdr[0] \/ (aHdr'[0] = hdr[c] /\ Publish0(c))
  BY FirstCopy DEF RestartHdr0
<1>3. Publish0(c) => hdr[c].mxFrame > aHdr[0].mxFrame
  BY DEF Publish0, WriterHdr
<1> QED
  BY <1>1, <1>2, <1>3

\* An image that is shown is shown after the step.
LEMMA ShownKept ==
    ASSUME NEW c \in Conn, Changes(c), FileTypes, ShmTypes, HdrTypes, CkptTypes, CopyInv(c), CkptRange(c),
           CopyImage(c), log' \in Seq(FrameRec), NEW f \in Nat, f <= nBackfill + 1, NEW l \in Nat,
           Agree(log, log', l), CkptCopy(c) => mxSafeFrame[c] <= l, NEW n \in Nat, NEW img,
           CkptTruncateDb(c) /\ mxSafeFrame[c] = aHdr[0].mxFrame /\ aHdr[0].nPage > 0 =>
              \A p \in Page : p > aHdr[0].nPage => (n > 0 /\ p > n) \/ HasFrame(log, p, f, l),
           Shows(db, log, f, l, n, img)
    PROVE  Shows(db', log', f, l, n, img)
<1> SUFFICES ASSUME NEW p \in Page PROVE ShowsPage(db', log', p, f, l, n, img)
  BY DEF Shows
<1>0. log \in Seq(FrameRec) /\ p \in Nat /\ f \in Int /\ l \in Int /\ l <= l
  BY BoundAssumption DEF FileTypes, Page
<1>1. Content(db', log', p, f, l) = Content(db', log, p, f, l)
  BY <1>0, ContentAgree
<1>2. ShowsPage(db, log, p, f, l, n, img)
  BY DEF Shows
<1>3. Content(db', log, p, f, l) = Content(db, log, p, f, l) \/ (n > 0 /\ p > n)
  <2>1. CASE db'[p] = db[p]
    BY <2>1 DEF Content
  <2>2. CASE CkptCopy(c)
    BY <2>2, CopyContent
  <2>3. CASE CkptTruncateDb(c) /\ db'[p] # db[p]
    <3>1. (n > 0 /\ p > n) \/ HasFrame(log, p, f, l)
      BY <2>3, TruncatedPages
    <3>2. HasFrame(log, p, f, l) => FrameIn(log, p, f, l) # 0
      BY <1>0, FrameFacts
    <3> QED
      BY <3>1, <3>2 DEF Content
  <2> QED
    BY <2>1, <2>2, <2>3 DEF Changes
<1> QED
  BY <1>0, <1>1, <1>2, <1>3 DEF ShowsPage

(***************************************************************************)
(* The last version                                                        *)
(***************************************************************************)
\* Without frames a page is what the database has.
LEMMA EmptyContent ==
    ASSUME NEW lg \in Seq(FrameRec), NEW p, NEW f \in Int, NEW l \in Int, l < f, NEW d
    PROVE  Content(d, lg, p, f, l) = d[p]
  BY FrameEmpty DEF Content

\* A copy that is over can be relied on, for a version that is current or
\* about to be.
LEMMA DoneShows ==
    ASSUME NEW c \in Conn, CkptDone(c), FileTypes, ShmTypes, HdrTypes, CkptTypes, Own(c), CkptRange(c),
           CopyImage(c), NEW l \in Nat, hdr[c].mxFrame <= l, NEW n \in Nat, n > 0, NEW img,
           \A p \in Page : p <= n => p <= hdr[c].nPage \/ HasFrame(log, p, hdr[c].mxFrame + 1, l),
           \A f \in 1..(nBackfill + 1) : Shows(db, log, f, l, n, img),
           NEW g \in 1..(mxSafeFrame[c] + 1)
    PROVE  Shows(db, log, g, l, n, img)
<1>1. nBackfill \in Nat /\ mxSafeFrame[c] \in Nat
  BY HdrNumbers DEF CkptTypes, Frame
<1>2. CASE g <= nBackfill + 1
  <2>1. g \in 1..(nBackfill + 1)
    BY <1>1, <1>2
  <2> QED
    BY <2>1
<1>3. CASE ~ (g <= nBackfill + 1)
  <2>1. g \in Nat /\ nBackfill + 1 <= g /\ g <= mxSafeFrame[c] + 1
    BY <1>1, <1>3
  <2>2. nBackfill + 1 \in 1..(nBackfill + 1)
    BY <1>1
  <2>3. ASSUME NEW p \in Page PROVE ShowsPage(db, log, p, g, l, n, img)
    <3>1. ShowsPage(db, log, p, nBackfill + 1, l, n, img)
      BY <2>2 DEF Shows
    <3>2. p <= n => Content(db, log, p, g, l) = Content(db, log, p, nBackfill + 1, l)
      BY <2>1, DoneContent
    <3> QED
      BY <3>1, <3>2 DEF ShowsPage
  <2> QED
    BY <2>3 DEF Shows
<1> QED
  BY <1>2, <1>3

\* Pages that came after the header of a copy have frames in the log.
LEMMA GrownPages ==
    ASSUME NEW c \in Conn, pc[c] \in CopyPCs, ShmTypes, HdrTypes, CkptRange(c), CopyImage(c), SizeKnown,
           NEW p \in Page, p <= aHdr[0].nPage
    PROVE  p <= hdr[c].nPage \/ HasFrame(log, p, hdr[c].mxFrame + 1, aHdr[0].mxFrame)
<1>1. p \in Nat /\ hdr[c].nPage \in Nat
  BY HdrNumbers, BoundAssumption DEF Page
<1> QED
  BY <1>1 DEF CopyImage, Grown

\* A log that is being copied is not empty.
LEMMA CopyHasSize ==
    ASSUME NEW c \in Conn, pc[c] \in CopyPCs, ShmTypes, HdrTypes, CkptRange(c), SizeKnown
    PROVE  aHdr[0].mxFrame > 0 /\ aHdr[0].nPage > 0
<1>1. nBackfill < hdr[c].mxFrame /\ hdr[c].mxFrame <= aHdr[0].mxFrame
  BY DEF CkptRange
<1>2. aHdr[0].mxFrame > 0
  BY <1>1, HdrNumbers
<1> QED
  BY <1>2 DEF SizeKnown

\* A step of c keeps the last version.
LEMMA CurrentStep ==
    ASSUME IInv, VersionInv, CounterInv, ImageInv, NEW c \in Conn, Step(c)
    PROVE  CurrentShown'
<1>0. /\ FileTypes /\ ShmTypes /\ HdrTypes /\ CkptTypes /\ HistTypes /\ LogCoversHdr
      /\ Changes(c) /\ Own(c) /\ RestartInv(c) /\ CopyInv(c) /\ ModeControl(c) /\ CkptRange(c)
      /\ WriterHdr(c) /\ AllCopied(c) /\ CurrentShown /\ SizeKnown /\ CopyImage(c) /\ PendingImage(c)
  BY ImageFacts
<1>n. /\ nBackfill \in Nat /\ aHdr[0].mxFrame \in Nat /\ aHdr[0].nPage \in Nat
      /\ log \in Seq(FrameRec) /\ mxSafeFrame[c] \in Nat /\ hdr[c].mxFrame \in Nat
  BY <1>0, HdrNumbers DEF FileTypes, CkptTypes, Frame
<1>1. CASE Quiet \/ CkptCopy(c) \/ CkptTruncateDb(c) \/ Spill(c) \/ Commit(c) \/ CkptTruncateLog(c)
  <2>1. nBackfill' = nBackfill /\ aHdr'[0] = aHdr[0] /\ hist' = hist
    BY <1>1 DEF Quiet, CkptCopy, CkptTruncateDb, Spill, Commit, CkptTruncateLog, shmVars, infoVars,
       commitVars
  <2>2. log' \in Seq(FrameRec) /\ Agree(log, log', aHdr[0].mxFrame)
    BY <1>0, PrefixKept
  <2>3. CkptCopy(c) => mxSafeFrame[c] <= aHdr[0].mxFrame
    <3>1. CkptCopy(c) => mxSafeFrame[c] <= hdr[c].mxFrame /\ hdr[c].mxFrame <= aHdr[0].mxFrame
      BY <1>0 DEF CkptCopy, CkptRange, CopyPCs
    <3> QED
      BY <1>n, <3>1
  <2>4. ASSUME NEW f \in 1..(nBackfill + 1)
        PROVE  Shows(db', log', f, aHdr[0].mxFrame, aHdr[0].nPage, LastImage)
    <3>1. Shows(db, log, f, aHdr[0].mxFrame, aHdr[0].nPage, LastImage)
      BY <1>0 DEF CurrentShown
    <3>2. f \in Nat /\ f <= nBackfill + 1
      BY <1>n
    <3> QED
      BY <1>0, <1>n, <2>2, <2>3, <3>1, <3>2, ShownKept
  <2> QED
    BY <2>1, <2>4 DEF CurrentShown, LastImage
<1>2. CASE CkptDone(c)
  <2>1. UNCHANGED <<db, log, aHdr, hist>> /\ nBackfill' = mxSafeFrame[c] /\ pc[c] \in CopyPCs
    BY <1>2 DEF CkptDone, fileVars, commitVars, CopyPCs
  <2>2. hdr[c].mxFrame <= aHdr[0].mxFrame /\ aHdr[0].nPage > 0
    BY <1>0, <2>1, CopyHasSize DEF CkptRange
  <2>3. \A p \in Page : p <= aHdr[0].nPage =>
            p <= hdr[c].nPage \/ HasFrame(log, p, hdr[c].mxFrame + 1, aHdr[0].mxFrame)
    BY <1>0, <2>1, GrownPages
  <2>4. \A f \in 1..(nBackfill + 1) : Shows(db, log, f, aHdr[0].mxFrame, aHdr[0].nPage, LastImage)
    BY <1>0 DEF CurrentShown
  <2>5. \A g \in 1..(mxSafeFrame[c] + 1) : Shows(db, log, g, aHdr[0].mxFrame, aHdr[0].nPage, LastImage)
    BY <1>0, <1>2, <1>n, <2>2, <2>3, <2>4, DoneShows
  <2> QED
    BY <2>1, <2>5 DEF CurrentShown, LastImage
<1>3. CASE RestartBackfill(c)
  <2>1. UNCHANGED <<db, log, aHdr, hist>> /\ nBackfill' = 0
    BY <1>3 DEF RestartBackfill, Reset, fileVars, commitVars
  <2>2. \A f \in 1..(0 + 1) : f \in 1..(nBackfill + 1)
    BY <1>n
  <2> QED
    BY <1>0, <2>1, <2>2 DEF CurrentShown, LastImage
<1>4. CASE RestartHdr0(c)
  <2>1. UNCHANGED <<db, log, nBackfill, hist>> /\ aHdr'[0] = hdr[c] /\ pc[c] = "restart0"
    BY <1>0, <1>4 DEF RestartHdr0, fileVars, infoVars, commitVars, ShmTypes
  <2>2. hdr[c].mxFrame = 0 /\ hdr[c].nPage = aHdr[0].nPage /\ nBackfill = aHdr[0].mxFrame
    BY <1>0, <2>1 DEF RestartInv, SizeKnown, AllCopied
  <2>3. ASSUME NEW f \in 1..(nBackfill + 1), NEW p \in Page
        PROVE  ShowsPage(db, log, p, f, 0, aHdr[0].nPage, LastImage)
    <3>1. ShowsPage(db, log, p, nBackfill + 1, aHdr[0].mxFrame, aHdr[0].nPage, LastImage)
      <4>1. nBackfill + 1 \in 1..(nBackfill + 1)
        BY <1>n
      <4> QED
        BY <1>0, <4>1 DEF CurrentShown, Shows
    <3>2. Content(db, log, p, nBackfill + 1, aHdr[0].mxFrame) = db[p]
      <4>1. aHdr[0].mxFrame < nBackfill + 1 /\ nBackfill + 1 \in Int
        BY <1>n, <2>2
      <4> QED
        BY <1>n, <4>1, EmptyContent
    <3>3. Content(db, log, p, f, 0) = db[p]
      <4>1. 0 < f /\ f \in Int
        BY <1>n
      <4> QED
        BY <1>n, <4>1, EmptyContent
    <3> QED
      BY <3>1, <3>2, <3>3 DEF ShowsPage
  <2> QED
    BY <2>1, <2>2, <2>3 DEF CurrentShown, LastImage, Shows
<1>5. CASE Publish0(c)
  <2>1. /\ UNCHANGED <<db, log, nBackfill>> /\ aHdr'[0] = hdr[c] /\ pc[c] = "publish0"
        /\ hist' = Append(hist, pend)
    BY <1>0, <1>5 DEF Publish0, fileVars, infoVars, ShmTypes
  <2>2. hist'[Len(hist')] = pend
    BY <1>0, <2>1 DEF HistTypes
  <2> QED
    BY <1>0, <2>1, <2>2 DEF CurrentShown, LastImage, PendingImage
<1> QED
  BY <1>0, <1>1, <1>2, <1>3, <1>4, <1>5, DataSteps

\* A step of c keeps the size.
LEMMA SizeStep ==
    ASSUME IInv, VersionInv, CounterInv, ImageInv, NEW c \in Conn, Step(c)
    PROVE  SizeKnown'
<1>0. /\ ShmTypes /\ ControlTypes /\ HdrTypes /\ Changes(c) /\ Arrives(c)
      /\ (\A d \in Conn \ {c} : Kept(c, d)) /\ (\A d \in Conn : Own(d))
      /\ RestartInv(c) /\ ModeControl(c) /\ WriterHdr(c) /\ SizeKnown /\ PendingImage(c)
  BY ImageFacts
<1>1. aHdr'[0].mxFrame > 0 => aHdr'[0].nPage > 0
  <2>1. CASE aHdr'[0] = aHdr[0]
    BY <1>0, <2>1 DEF SizeKnown
  <2>2. CASE aHdr'[0] = hdr[c] /\ RestartHdr0(c)
    BY <1>0, <2>2 DEF RestartHdr0, RestartInv
  <2>3. CASE aHdr'[0] = hdr[c] /\ Publish0(c)
    BY <1>0, <2>3 DEF Publish0, PendingImage
  <2> QED
    BY <1>0, <2>1, <2>2, <2>3, FirstCopy
<1>2. pc'[c] = "restart0" => hdr'[c].nPage = aHdr'[0].nPage
  <2> SUFFICES ASSUME pc'[c] = "restart0" PROVE hdr'[c].nPage = aHdr'[0].nPage
    OBVIOUS
  <2>1. RestartHdr1(c)
    BY <1>0 DEF Arrives
  <2>2. hdr'[c].nPage = hdr[c].nPage
    BY <1>0, <2>1, RestartHdrFields
  <2>3. aHdr'[0] = aHdr[0] /\ pc[c] = "restart1"
    BY <1>0, <2>1 DEF RestartHdr1, ShmTypes
  <2>4. hdr[c] = aHdr[0]
    BY <1>0, <2>3 DEF WriterHdr, ModeControl, InWrite, InFullCkpt, bWriteLock, InCkpt, RestartPCs
  <2> QED
    BY <2>2, <2>3, <2>4
<1>3. ASSUME NEW d \in Conn \ {c}, pc'[d] = "restart0"
      PROVE  hdr'[d].nPage = aHdr'[0].nPage
  <2>1. pc[d] = "restart0" /\ hdr'[d] = hdr[d]
    BY <1>0, <1>3 DEF Kept
  <2>2. lockX[WAL_WRITE_LOCK] = d
    BY <1>0, <2>1, LocksOfData DEF WriterPCs, RestartPCs
  <2>3. aHdr' = aHdr
    BY <1>0, <2>2, HdrStoreStep
  <2> QED
    BY <1>0, <2>1, <2>3 DEF SizeKnown
<1> QED
  BY <1>1, <1>2, <1>3 DEF SizeKnown


(***************************************************************************)
(* The image of a copy                                                     *)
(***************************************************************************)
\* The steps of a copy up to its end.
Copies(c) ==
    \/ CkptInfo(c) \/ CkptMark(c) \/ CkptMarkBusy(c) \/ CkptMarkLock(c)
    \/ CkptMarkSet(c) \/ CkptLock0(c) \/ CkptCopy(c) \/ CkptTruncateDb(c)

\* They leave the log and its header alone.
LEMMA CopyMoves ==
    ASSUME NEW c \in Conn, Copies(c)
    PROVE  /\ UNCHANGED <<hdr, aHdr, log, nBackfill>>
           /\ CkptInfo(c) \/ pc[c] \in CopyPCs
  BY DEF Copies, CkptInfo, CkptMark, CkptMarkBusy, CkptMarkLock, CkptMarkSet, CkptLock0, CkptCopy,
     CkptTruncateDb, fileVars, shmVars, infoVars, hdrVars, CopyPCs

\* What the iterator returns.
LEMMA CopyTodo ==
    ASSUME NEW c \in Conn, CkptTypes, ControlTypes, pc'[c] \in {"ckptCopy", "ckptDone"}, Arrives(c)
    PROVE  /\ UNCHANGED <<hdr, aHdr, log, nBackfill, mxSafeFrame>>
           /\ \/ CkptLock0(c) /\ todo'[c] = CkptFrames(c) /\ db' = db
              \/ CkptCopy(c) /\ \E i \in todo[c] : /\ db' = [db EXCEPT ![log[i].pgno] = log[i].val]
                                                   /\ todo'[c] = todo[c] \ {i}
              \/ CkptTruncateDb(c) /\ todo' = todo
<1>1. CkptLock0(c) \/ CkptCopy(c) \/ CkptTruncateDb(c)
  BY DEF Arrives
<1>2. CASE CkptLock0(c)
  <2>1. UNCHANGED <<hdr, aHdr, log, nBackfill, mxSafeFrame, db>>
    BY <1>2 DEF CkptLock0, fileVars, hdrVars
  <2>2. \/ todo' = [todo EXCEPT ![c] = CkptFrames(c)]
        \/ pc' = [pc EXCEPT ![c] = AfterCopy(c)]
    BY <1>2 DEF CkptLock0, Goto
  <2>3. AfterCopy(c) \notin {"ckptCopy", "ckptDone"}
    BY DEF AfterCopy
  <2>4. todo'[c] = CkptFrames(c)
    BY <2>2, <2>3 DEF CkptTypes, ControlTypes
  <2> QED
    BY <1>2, <2>1, <2>4
<1>3. CASE CkptCopy(c)
  <2>1. UNCHANGED <<hdr, aHdr, log, nBackfill, mxSafeFrame>>
    BY <1>3 DEF CkptCopy, shmVars, infoVars, hdrVars
  <2>2. PICK i \in todo[c] : /\ db' = [db EXCEPT ![log[i].pgno] = log[i].val]
                             /\ todo' = [todo EXCEPT ![c] = @ \ {i}]
    BY <1>3 DEF CkptCopy
  <2>3. todo'[c] = todo[c] \ {i}
    BY <2>2 DEF CkptTypes
  <2> QED
    BY <1>3, <2>1, <2>2, <2>3
<1>4. CASE CkptTruncateDb(c)
  BY <1>4 DEF CkptTruncateDb, shmVars, infoVars, hdrVars, ckptVars
<1> QED
  BY <1>1, <1>2, <1>3, <1>4

\* The checkpointer's own steps
LEMMA OwnCopy ==
    ASSUME IInv, VersionInv, CounterInv, ImageInv, NEW c \in Conn, Step(c)
    PROVE  CopyImage(c)'
<1>0. /\ FileTypes /\ ShmTypes /\ ControlTypes /\ HdrTypes /\ CkptTypes /\ LogCoversHdr
      /\ Arrives(c) /\ Own(c) /\ CopyInv(c) /\ CkptRange(c) /\ SizeKnown /\ CopyImage(c)
  BY ImageFacts
<1>n. /\ nBackfill \in Nat /\ aHdr[0].mxFrame \in Nat /\ aHdr[0].nPage \in Nat /\ log \in Seq(FrameRec)
      /\ mxSafeFrame[c] \in Nat /\ hdr[c].mxFrame \in Nat /\ hdr[c].nPage \in Nat /\ Len(log) \in Nat
  BY <1>0, HdrNumbers DEF FileTypes, CkptTypes, Frame
<1>1. ASSUME pc'[c] \in CopyPCs PROVE OlderHdr(hdr[c])' /\ Grown(hdr[c])'
  <2>1. Copies(c)
    BY <1>0, <1>1 DEF Arrives, Copies
  <2>2. UNCHANGED <<hdr, aHdr, log>> /\ (CkptInfo(c) \/ pc[c] \in CopyPCs)
    BY <2>1, CopyMoves
  <2>3. OlderHdr(hdr[c]) /\ Grown(hdr[c])
    <3>1. CASE CkptInfo(c)
      <4>1. hdr[c] = aHdr[0]
        BY <1>0, <3>1 DEF CkptInfo, CkptRange
      <4>2. OlderHdr(hdr[c])
        BY <1>0, <1>n, <4>1 DEF OlderHdr, SizeKnown
      <4>3. \A p \in Page : ~ (aHdr[0].nPage < p /\ p <= aHdr[0].nPage)
        BY <1>n, BoundAssumption DEF Page
      <4> QED
        BY <4>1, <4>2, <4>3 DEF Grown
    <3>2. CASE pc[c] \in CopyPCs
      BY <1>0, <3>2 DEF CopyImage
    <3> QED
      BY <2>2, <3>1, <3>2
  <2> QED
    BY <2>2, <2>3 DEF OlderHdr, Grown
<1>2. ASSUME NEW i \in todo'[c]
      PROVE  /\ nBackfill' < i /\ i <= mxSafeFrame'[c]
             /\ i = FrameIn(log', log'[i].pgno, nBackfill' + 1, hdr'[c].mxFrame)
  <2>1. pc'[c] = "ckptCopy"
    BY <1>2, ConnStep DEF IInv, Control, TodoControl
  <2>2. UNCHANGED <<hdr, log, nBackfill, mxSafeFrame>>
    BY <1>0, <2>1, CopyTodo
  <2>3. i \in CkptFrames(c) \/ i \in todo[c]
    BY <1>0, <1>2, <2>1, CopyTodo
  <2>4. nBackfill < i /\ i <= mxSafeFrame[c] /\ i = FrameIn(log, log[i].pgno, nBackfill + 1, hdr[c].mxFrame)
    BY <1>0, <2>3 DEF CopyImage, CkptFrames, FrameIn, LastFrame
  <2> QED
    BY <2>2, <2>4
<1>3. ASSUME pc'[c] \in {"ckptCopy", "ckptDone"}, NEW p \in Page,
             0 < FrameIn(log', p, nBackfill' + 1, hdr'[c].mxFrame),
             FrameIn(log', p, nBackfill' + 1, hdr'[c].mxFrame) <= mxSafeFrame'[c],
             p <= hdr'[c].nPage
      PROVE  \/ FrameIn(log', p, nBackfill' + 1, hdr'[c].mxFrame) \in todo'[c]
             \/ db'[p] = log'[FrameIn(log', p, nBackfill' + 1, hdr'[c].mxFrame)].val
  <2> DEFINE j == FrameIn(log, p, nBackfill + 1, hdr[c].mxFrame)
  <2>1. UNCHANGED <<hdr, log, nBackfill, mxSafeFrame>>
    BY <1>0, <1>3, CopyTodo
  <2>2. 0 < j /\ j <= mxSafeFrame[c] /\ p <= hdr[c].nPage
    BY <1>3, <2>1
  <2>3. /\ j \in 1..Len(log) /\ nBackfill + 1 <= j /\ log[j].pgno = p
    BY <1>n, <2>2, FrameFacts
  <2>4. nBackfill < j
    <3> HIDE DEF j
    <3> QED
      BY <1>n, <2>3
  <2>5. j \in todo'[c] \/ db'[p] = log[j].val
    <3>1. CASE CkptLock0(c) /\ todo'[c] = CkptFrames(c)
      <4>1. j = LastFrame(p, nBackfill + 1, hdr[c].mxFrame)
        BY DEF FrameIn, LastFrame
      <4> HIDE DEF j
      <4> QED
        BY <2>2, <2>3, <2>4, <3>1, <4>1 DEF CkptFrames
    <3>2. CASE CkptCopy(c)
      <4>1. PICK i \in todo[c] : /\ db' = [db EXCEPT ![log[i].pgno] = log[i].val]
                                 /\ todo'[c] = todo[c] \ {i}
        BY <1>0, <3>2 DEF CkptCopy, CkptTypes
      <4>2. j \in todo[c] \/ db[p] = log[j].val
        BY <1>0, <2>2, <3>2 DEF CopyImage, CkptCopy
      <4>3. i = FrameIn(log, log[i].pgno, nBackfill + 1, hdr[c].mxFrame)
        BY <1>0, <4>1 DEF CopyImage
      <4>4. db \in [Page -> Txn]
        BY <1>0 DEF FileTypes, Image
      <4>5. CASE p = log[i].pgno
        BY <4>1, <4>3, <4>4, <4>5
      <4>6. CASE p # log[i].pgno
        <5>1. j # i /\ db'[p] = db[p]
          BY <2>3, <4>1, <4>4, <4>6
        <5> QED
          BY <4>1, <4>2, <5>1
      <4> QED
        BY <4>5, <4>6
    <3>3. CASE CkptTruncateDb(c)
      <4>1. todo' = todo /\ pc[c] = "ckptCopy"
        BY <3>3 DEF CkptTruncateDb, ckptVars
      <4>2. db' = IF mxSafeFrame[c] = aHdr[0].mxFrame
                  THEN [q \in Page |-> IF q <= hdr[c].nPage THEN db[q] ELSE 0] ELSE db
        BY <3>3, Zenon DEF CkptTruncateDb
      <4>3. db'[p] = db[p]
        BY <2>2, <4>2
      <4>4. j \in todo[c] \/ db[p] = log[j].val
        BY <1>0, <2>2, <4>1 DEF CopyImage
      <4> QED
        BY <4>1, <4>3, <4>4
    <3> QED
      BY <1>0, <1>3, <3>1, <3>2, <3>3, CopyTodo
  <2> QED
    BY <2>1, <2>5
<1> QED
  BY <1>1, <1>2, <1>3 DEF CopyImage

\* and those of others, who leave the log it copies.
LEMMA OthersCopy ==
    ASSUME IInv, VersionInv, CounterInv, ImageInv, NEW c \in Conn, Step(c), NEW d \in Conn \ {c}
    PROVE  CopyImage(d)'
<1>0. /\ FileTypes /\ ShmTypes /\ HdrTypes /\ CkptTypes /\ HistTypes /\ LogCoversHdr
      /\ Changes(c) /\ Own(c) /\ Own(d) /\ Kept(c, d) /\ RestartInv(c) /\ WriterHdr(c) /\ AllCopied(c)
      /\ CkptRange(d) /\ SizeKnown /\ CopyImage(d) /\ PendingImage(c)
  BY ImageFacts
<1>1. /\ pc'[d] = pc[d] /\ hdr'[d] = hdr[d] /\ mxSafeFrame'[d] = mxSafeFrame[d] /\ todo'[d] = todo[d]
  BY <1>0 DEF Kept
<1>2. CASE pc[d] \notin CopyPCs
  <2>1. todo[d] = {} /\ pc[d] \notin {"ckptCopy", "ckptDone"}
    BY <1>0, <1>2 DEF Own, TodoControl, CopyPCs
  <2> QED
    BY <1>1, <1>2, <2>1 DEF CopyImage
<1>3. CASE pc[d] \in CopyPCs
  <2> DEFINE M == aHdr[0].mxFrame
             m == hdr[d].mxFrame
  <2>1. pc[c] \notin CkptPCs /\ pc[c] \notin {"restart1", "restart0", "restartBackfill", "restartAttempted"}
    <3>1. pc[d] \in CkptPCs
      BY <1>3 DEF CopyPCs, CkptPCs
    <3> QED
      BY <1>0, <1>3, <3>1, OneHolder, CopyExcludesRestart
  <2>2. db' = db /\ nBackfill' = nBackfill
    BY <1>0, <2>1 DEF Changes, CkptCopy, CkptTruncateDb, CkptDone, RestartBackfill, CkptPCs
  <2>3. log' \in Seq(FrameRec) /\ Agree(log, log', M)
    BY <1>0, PrefixKept
  <2>4. /\ log \in Seq(FrameRec) /\ M \in Nat /\ m \in Nat /\ m <= M /\ nBackfill \in Nat
        /\ hdr[c].mxFrame \in Nat /\ aHdr[0].nPage \in Nat /\ hdr[c].nPage \in Nat /\ hdr[d].nPage \in Nat
    BY <1>0, <1>3, HdrNumbers DEF FileTypes, CkptRange
  <2>5. \/ aHdr'[0] = aHdr[0]
        \/ aHdr'[0] = hdr[c] /\ Publish0(c) /\ hdr[c].mxFrame > M /\ log' = log
    <3>1. Publish0(c) => hdr[c].mxFrame > M /\ log' = log
      BY <1>0 DEF Publish0, WriterHdr, fileVars
    <3> QED
      BY <1>0, <2>1, <3>1, FirstCopy DEF RestartHdr0
  <2>6. OlderHdr(hdr[d]) /\ Grown(hdr[d])
    BY <1>0, <1>3 DEF CopyImage
  <2>7. OlderHdr(hdr[d])'
    <3>1. CASE aHdr'[0] = aHdr[0]
      BY <1>1, <2>6, <3>1 DEF OlderHdr
    <3>2. CASE aHdr'[0] = hdr[c] /\ hdr[c].mxFrame > M
      BY <1>1, <2>4, <2>6, <3>2 DEF OlderHdr
    <3> QED
      BY <2>5, <3>1, <3>2
  <2>8. ASSUME NEW p \in Page, hdr[d].nPage < p, p <= aHdr'[0].nPage
        PROVE  HasFrame(log', p, m + 1, aHdr'[0].mxFrame)
    <3>0. p \in Nat /\ m + 1 \in Int /\ M \in Int /\ M <= M
      <4>1. p \in Nat
        BY BoundAssumption DEF Page
      <4>2. m \in Nat /\ M \in Nat
        BY <2>4
      <4> HIDE DEF m, M
      <4> QED
        BY <4>1, <4>2
    <3>1. CASE aHdr'[0] = aHdr[0]
      <4>1. HasFrame(log, p, m + 1, M)
        BY <2>6, <2>8, <3>1 DEF Grown
      <4>2. HasFrame(log', p, m + 1, M)
        BY <2>3, <2>4, <3>0, <4>1, FrameAgree
      <4> QED
        BY <3>1, <4>2
    <3>2. CASE aHdr'[0] = hdr[c] /\ Publish0(c) /\ hdr[c].mxFrame > M /\ log' = log
      <4>0. M <= hdr[c].mxFrame /\ hdr[c].mxFrame <= hdr[c].mxFrame /\ m + 1 <= m + 1 /\ m + 1 <= M + 1
            /\ M + 1 \in Int /\ hdr[c].mxFrame \in Int
        BY <2>4, <3>2
      <4>1. CASE p <= aHdr[0].nPage
        <5>1. HasFrame(log, p, m + 1, M)
          BY <2>6, <2>8, <4>1 DEF Grown
        <5>2. HasFrame(log, p, m + 1, hdr[c].mxFrame)
          BY <2>4, <3>0, <4>0, <5>1, FrameWiden
        <5> QED
          BY <3>2, <5>2
      <4>2. CASE aHdr[0].nPage < p
        <5>1. aHdr[0].nPage > 0 /\ pc[c] = "publish0" /\ p <= hdr[c].nPage
          BY <1>0, <1>3, <2>8, <3>2, CopyHasSize DEF Publish0
        <5>2. HasFrame(log, p, M + 1, hdr[c].mxFrame)
          BY <1>0, <4>2, <5>1 DEF PendingImage
        <5>3. HasFrame(log, p, m + 1, hdr[c].mxFrame)
          BY <2>4, <3>0, <4>0, <5>2, FrameWiden
        <5> QED
          BY <3>2, <5>3
      <4> QED
        BY <2>4, <3>0, <4>1, <4>2
    <3> QED
      BY <2>5, <3>1, <3>2
  <2>9. Grown(hdr[d])'
    BY <1>1, <2>8 DEF Grown
  <2>10. \A p : FrameIn(log', p, nBackfill + 1, m) = FrameIn(log, p, nBackfill + 1, m)
    <3>1. nBackfill + 1 \in Int /\ m \in Int
      BY <2>4
    <3> QED
      BY <2>3, <2>4, <3>1, FrameAgree
  <2>11. \A j \in Nat : 0 < j /\ j <= m => log'[j] = log[j]
    BY <2>3, <2>4 DEF Agree
  <2>12. ASSUME NEW i \in todo[d]
         PROVE  /\ nBackfill < i /\ i <= mxSafeFrame[d]
                /\ i = FrameIn(log', log'[i].pgno, nBackfill + 1, m)
    <3>1. /\ nBackfill < i /\ i <= mxSafeFrame[d] /\ i = FrameIn(log, log[i].pgno, nBackfill + 1, m)
          /\ mxSafeFrame[d] <= m /\ mxSafeFrame[d] \in Nat /\ i \in Nat
      BY <1>0, <1>3 DEF CopyImage, CkptRange, CkptTypes, Frame
    <3>2. 0 < i /\ i <= m
      BY <2>4, <3>1
    <3> QED
      BY <2>10, <2>11, <3>1, <3>2
  <2>13. ASSUME pc[d] \in {"ckptCopy", "ckptDone"}, NEW p \in Page,
                0 < FrameIn(log', p, nBackfill + 1, m), FrameIn(log', p, nBackfill + 1, m) <= mxSafeFrame[d],
                p <= hdr[d].nPage
         PROVE  \/ FrameIn(log', p, nBackfill + 1, m) \in todo[d]
                \/ db[p] = log'[FrameIn(log', p, nBackfill + 1, m)].val
    <3> DEFINE j == FrameIn(log, p, nBackfill + 1, m)
    <3>1. FrameIn(log', p, nBackfill + 1, m) = j /\ 0 < j /\ j <= mxSafeFrame[d]
      BY <2>10, <2>13
    <3>2. j \in todo[d] \/ db[p] = log[j].val
      BY <1>0, <2>13, <3>1 DEF CopyImage
    <3>3. mxSafeFrame[d] <= m /\ mxSafeFrame[d] \in Nat /\ j \in Nat
      <4>1. j \in Nat
        BY <2>4, FrameFacts
      <4> QED
        BY <1>0, <1>3, <4>1 DEF CkptRange, CkptTypes, Frame
    <3>4. log'[j] = log[j]
      <4> HIDE DEF j
      <4>1. j <= m
        BY <2>4, <3>1, <3>3
      <4> QED
        BY <2>11, <3>1, <3>3, <4>1
    <3> QED
      BY <3>1, <3>2, <3>4
  <2> QED
    BY <1>1, <2>2, <2>7, <2>9, <2>12, <2>13 DEF CopyImage
<1> QED
  BY <1>2, <1>3


(***************************************************************************)
(* Read marks                                                              *)
(***************************************************************************)
\* A slot of the log is taken once mark and header are found unchanged.
LEMMA SlotTaken ==
    ASSUME NEW c \in Conn, Changes(c), ReadTypes, SlotControl(c), readLock'[c] > 0
    PROVE  \/ /\ CheckI(c) /\ pc[c] = "checkI" /\ MarkUnchanged(c) /\ HdrUnchanged(c)
              /\ readLock'[c] = mxI[c]
              /\ UNCHANGED <<minFrame, hdr, aHdr, aReadMark, nBackfill>>
           \/ /\ readLock'[c] = readLock[c] /\ readLock[c] > 0 /\ minFrame'[c] = minFrame[c]
              /\ ~EndRead(c)
<1>1. readLock' = readLock \/ Check0(c) \/ CheckI(c) \/ EndRead(c) \/ RestartLogEnd(c)
  BY DEF Changes
<1>2. ~EndRead(c) /\ ~RestartLogEnd(c)
  BY DEF EndRead, RestartLogEnd, ReadTypes
<1>3. ~Check0(c)
  <2>1. ASSUME Check0(c) PROVE FALSE
    <3>1. readLock[c] = -1
      BY <2>1 DEF Check0, SlotControl, TryPCs
    <3>2. readLock' = readLock \/ readLock' = [readLock EXCEPT ![c] = 0]
      BY <2>1 DEF Check0
    <3> QED
      BY <3>1, <3>2 DEF ReadTypes
  <2> QED
    BY <2>1
<1>4. CASE CheckI(c)
  <2>1. readLock[c] = -1 /\ pc[c] = "checkI"
    BY <1>4 DEF CheckI, SlotControl, TryPCs
  <2>2. UNCHANGED <<hdr, aHdr, aReadMark, nBackfill>>
    BY <1>4 DEF CheckI, shmVars, infoVars
  <2>3. readLock' # readLock
    BY <2>1
  <2>4. /\ MarkUnchanged(c) /\ HdrUnchanged(c) /\ readLock' = [readLock EXCEPT ![c] = mxI[c]]
        /\ minFrame' = minFrame
    BY <1>4, <2>3 DEF CheckI
  <2> QED
    BY <1>4, <2>1, <2>2, <2>4 DEF ReadTypes
<1>5. CASE readLock' = readLock
  <2>1. readLock[c] > 0
    BY <1>5
  <2>2. pc[c] \notin {"minFrame", "checkI"}
    BY <2>1 DEF SlotControl, TryPCs, ReadTypes
  <2>3. minFrame' = minFrame
    BY <1>2, <2>2 DEF Changes, LoadMinFrame, CheckI
  <2> QED
    BY <1>2, <1>5, <2>1, <2>3
<1> QED
  BY <1>1, <1>2, <1>3, <1>4, <1>5

\* A reader of the log keeps its header, or becomes a writer and names more.
LEMMA HdrRises ==
    ASSUME NEW c \in Conn, Changes(c), FileTypes, ShmTypes, HdrTypes, ReadTypes, HistTypes,
           SlotControl(c), WriterHdr(c), readLock[c] > 0, pc[c] # "restart1", ~EndRead(c)
    PROVE  hdr'[c] = hdr[c] \/ hdr'[c].mxFrame >= aHdr[0].mxFrame
<1>n. hdr[c].mxFrame \in Nat /\ aHdr[0].mxFrame \in Nat
  BY HdrNumbers
<1>1. ~ReadHdr(c) /\ ~CkptEnd(c) /\ ~RestartHdr1(c)
  BY DEF ReadHdr, CkptEnd, RestartHdr1, SlotControl, ReadTypes, CkptPCs
<1>2. hdr' = hdr \/ WriteWalHdr(c) \/ Spill(c) \/ Commit(c) \/ Rollback(c)
  BY <1>1 DEF Changes
<1>3. WriteWalHdr(c) \/ Spill(c) \/ Commit(c) => hdr[c].mxFrame >= aHdr[0].mxFrame
  BY DEF WriteWalHdr, Spill, Commit, InFrames, WriterHdr
<1>4. CASE WriteWalHdr(c)
  <2>1. hdr'[c].mxFrame = hdr[c].mxFrame
    BY <1>4, WalHdrFields
  <2> QED
    BY <1>3, <1>4, <2>1
<1>5. CASE Spill(c)
  <2>1. hdr'[c].mxFrame = hdr[c].mxFrame + 1
    BY <1>5, SpillFields
  <2> QED
    BY <1>n, <1>3, <1>5, <2>1
<1>6. CASE Commit(c)
  <2>1. hdr'[c].mxFrame > hdr[c].mxFrame /\ hdr'[c].mxFrame \in Nat
    BY <1>6, CommitGrows
  <2> QED
    BY <1>n, <1>3, <1>6, <2>1
<1>7. CASE Rollback(c)
  <2>1. hdr'[c] = aHdr[0]
    BY <1>7 DEF Rollback, HdrTypes
  <2> QED
    BY <1>n, <2>1
<1> QED
  BY <1>2, <1>4, <1>5, <1>6, <1>7

\* The mark of a slot in use stays, and so does the part of the log it names.
LEMMA MarkKept ==
    ASSUME IInv, VersionInv, CounterInv, ImageInv, NEW c \in Conn, Step(c), NEW d \in Conn, readLock[d] > 0
    PROVE  /\ readLock[d] \in ReadMarks /\ aReadMark'[readLock[d]] = aReadMark[readLock[d]]
           /\ aReadMark[readLock[d]] \in Nat
           /\ nBackfill <= nBackfill' /\ nBackfill' \in Nat
           /\ aHdr[0].mxFrame <= aHdr'[0].mxFrame /\ aHdr'[0].mxFrame \in Nat
           /\ \/ aHdr'[0] = aHdr[0]
              \/ Publish0(c) /\ aHdr'[0] = hdr[c] /\ hdr[c].mxFrame > aHdr[0].mxFrame
           /\ pc[c] \notin {"restart1", "restart0", "restartBackfill", "restartAttempted", "restartMarks", "truncate"}
<1>0. /\ FileTypes /\ ShmTypes /\ ControlTypes /\ HdrTypes /\ ReadTypes /\ CkptTypes /\ LockExcludes
      /\ Changes(c) /\ Own(c) /\ Own(d) /\ CopyInv(c) /\ WriterHdr(c) /\ SlotLock(d)
  BY ImageFacts
<1>1. readLock[d] \in ReadMarks /\ aReadMark[readLock[d]] \in Nat /\ readLock[d] >= 0
  <2>1. readLock[d] \in Int
    BY <1>0 DEF ReadTypes
  <2> QED
    BY <1>0, <2>1, Numbers
<1>2. pc[c] \notin {"restart1", "restart0", "restartBackfill", "restartAttempted", "restartMarks", "truncate"}
  BY <1>0, NoRestartUnderReader DEF Own
<1>3. /\ nBackfill <= nBackfill' /\ nBackfill' \in Nat
      /\ \/ aHdr'[0] = aHdr[0]
         \/ Publish0(c) /\ aHdr'[0] = hdr[c] /\ hdr[c].mxFrame > aHdr[0].mxFrame
  BY <1>0, <1>2, LogGrows
<1>4. aReadMark'[readLock[d]] = aReadMark[readLock[d]]
  <2>1. lockX[WAL_READ_LOCK(readLock[d])] # c
    BY <1>0, <1>1, SlotIsShared
  <2> QED
    BY <1>0, <1>1, <2>1, MarkStep
<1>5. hdr[c].mxFrame \in Nat /\ aHdr[0].mxFrame \in Nat
  BY <1>0, HdrNumbers
<1>6. aHdr[0].mxFrame <= aHdr'[0].mxFrame /\ aHdr'[0].mxFrame \in Nat
  BY <1>3, <1>5
<1> QED
  BY <1>1, <1>2, <1>3, <1>4, <1>6

\* The mark that c is looking for does not name more than its header.
LEMMA MarkFound ==
    ASSUME NEW c \in Conn, Arrives(c), ShmTypes, HdrTypes, ReadTypes, ControlTypes, Own(c), MarkInv(c),
           pc'[c] \in TryPCs \ {"backfill", "lock0", "check0"}
    PROVE  mxReadMark'[c] <= hdr'[c].mxFrame
<1> DEFINE P == TryPCs \ {"backfill", "lock0", "check0"}
<1> USE DEF TryPCs
<1>n. hdr[c].mxFrame \in Nat
  BY HdrNumbers
<1>1. pc[c] \in P => mxReadMark[c] <= hdr[c].mxFrame
  BY DEF MarkInv
<1>2. CASE CheckBackfill(c)
  <2>1. \/ pc' = [pc EXCEPT ![c] = "lock0"]
        \/ mxReadMark' = [mxReadMark EXCEPT ![c] = 0]
    BY <1>2 DEF CheckBackfill, ToScan, Goto
  <2>2. mxReadMark'[c] = 0 /\ hdr' = hdr
    BY <1>2, <2>1 DEF CheckBackfill, hdrVars, ControlTypes, ReadTypes
  <2> QED
    BY <1>n, <2>2
<1>3. CASE Lock0(c)
  <2>1. \/ pc' = [pc EXCEPT ![c] = "check0"]
        \/ mxReadMark' = [mxReadMark EXCEPT ![c] = 0]
    BY <1>3 DEF Lock0, ToScan, Goto
  <2>2. mxReadMark'[c] = 0 /\ hdr' = hdr
    BY <1>3, <2>1 DEF Lock0, hdrVars, ControlTypes, ReadTypes
  <2> QED
    BY <1>n, <2>2
<1>4. CASE ScanMark(c)
  <2>1. hdr' = hdr /\ pc[c] = "scan"
    BY <1>4 DEF ScanMark, hdrVars
  <2>2. \/ /\ MarkIsUsable(c, aReadMark[iMark[c]])
           /\ mxReadMark' = [mxReadMark EXCEPT ![c] = aReadMark[iMark[c]]]
        \/ mxReadMark' = mxReadMark
    BY <1>4 DEF ScanMark
  <2> QED
    BY <1>1, <2>1, <2>2 DEF MarkIsUsable, ReadTypes
<1>5. CASE RaiseLock(c)
  BY <1>1, <1>5 DEF RaiseLock, hdrVars, readVars
<1>6. CASE RaiseBusy(c)
  <2>1. hdr' = hdr /\ pc[c] = "raise"
    BY <1>6 DEF RaiseBusy, hdrVars
  <2>2. mxReadMark' = mxReadMark \/ mxReadMark' = [mxReadMark EXCEPT ![c] = 0]
    BY <1>6 DEF RaiseBusy, Retry, ToScan
  <2> QED
    BY <1>n, <1>1, <2>1, <2>2 DEF ReadTypes
<1>7. CASE RaiseSet(c)
  BY <1>n, <1>7 DEF RaiseSet, hdrVars, ReadTypes
<1>8. CASE LockI(c)
  <2>1. hdr' = hdr /\ pc[c] = "lockI"
    BY <1>8 DEF LockI, hdrVars
  <2>2. mxReadMark' = mxReadMark \/ mxReadMark' = [mxReadMark EXCEPT ![c] = 0]
    BY <1>8 DEF LockI, Retry, ToScan
  <2> QED
    BY <1>n, <1>1, <2>1, <2>2 DEF ReadTypes
<1>9. CASE LoadMinFrame(c)
  BY <1>1, <1>9 DEF LoadMinFrame, hdrVars
<1>10. CASE CheckI(c)
  <2>1. hdr' = hdr
    BY <1>10 DEF CheckI
  <2>2. mxReadMark' = [mxReadMark EXCEPT ![c] = 0]
    BY <1>10 DEF CheckI, Retry, ToScan
  <2> QED
    BY <1>n, <2>1, <2>2 DEF ReadTypes
<1>11. CASE RestartLogEnd(c)
  BY <1>n, <1>11 DEF RestartLogEnd, ToScan, hdrVars, ReadTypes
<1> QED
  BY <1>2, <1>3, <1>4, <1>5, <1>6, <1>7, <1>8, <1>9, <1>10, <1>11 DEF Arrives

\* The marks of c after its own steps
LEMMA OwnMark ==
    ASSUME IInv, VersionInv, CounterInv, ImageInv, NEW c \in Conn, Step(c)
    PROVE  MarkInv(c)'
<1>0. /\ FileTypes /\ ShmTypes /\ ControlTypes /\ HdrTypes /\ ReadTypes /\ CkptTypes /\ HistTypes
      /\ Changes(c) /\ Arrives(c) /\ Own(c) /\ SlotControl(c) /\ WriterHdr(c) /\ MarkInv(c)
  BY ImageFacts
<1>n. /\ nBackfill \in Nat /\ aHdr[0].mxFrame \in Nat /\ hdr[c].mxFrame \in Nat /\ minFrame[c] \in Nat
      /\ mxReadMark[c] \in Nat
  BY <1>0, HdrNumbers, Numbers
<1>1. pc'[c] \in TryPCs \ {"backfill", "lock0", "check0"} => mxReadMark'[c] <= hdr'[c].mxFrame
  BY <1>0, MarkFound
<1>2. ASSUME pc'[c] = "checkI" PROVE 1 <= minFrame'[c] /\ minFrame'[c] <= nBackfill' + 1
  <2>1. LoadMinFrame(c)
    BY <1>0, <1>2 DEF Arrives
  <2>2. minFrame'[c] = nBackfill + 1 /\ nBackfill' = nBackfill
    BY <1>0, <2>1 DEF LoadMinFrame, FirstFrame, shmVars, infoVars, ReadTypes
  <2> QED
    BY <1>n, <2>2
<1>3. ASSUME readLock'[c] > 0
      PROVE  /\ 1 <= minFrame'[c] /\ minFrame'[c] <= nBackfill' + 1
             /\ aReadMark'[readLock'[c]] <= hdr'[c].mxFrame
             /\ aReadMark'[readLock'[c]] <= aHdr'[0].mxFrame
  <2>1. CASE /\ pc[c] = "checkI" /\ MarkUnchanged(c) /\ HdrUnchanged(c) /\ readLock'[c] = mxI[c]
             /\ UNCHANGED <<minFrame, hdr, aHdr, aReadMark, nBackfill>>
    <3>1. mxReadMark[c] <= hdr[c].mxFrame /\ 1 <= minFrame[c] /\ minFrame[c] <= nBackfill + 1
      BY <1>0, <2>1 DEF MarkInv, TryPCs
    <3> QED
      BY <2>1, <3>1 DEF MarkUnchanged, HdrUnchanged
  <2>2. CASE /\ readLock'[c] = readLock[c] /\ readLock[c] > 0 /\ minFrame'[c] = minFrame[c] /\ ~EndRead(c)
    <3> DEFINE k == aReadMark[readLock[c]]
    <3>1. /\ aReadMark'[readLock[c]] = k /\ k \in Nat /\ nBackfill <= nBackfill' /\ nBackfill' \in Nat
          /\ aHdr[0].mxFrame <= aHdr'[0].mxFrame /\ aHdr'[0].mxFrame \in Nat /\ pc[c] # "restart1"
      BY <2>2, MarkKept
    <3>2. /\ 1 <= minFrame[c] /\ minFrame[c] <= nBackfill + 1
          /\ k <= hdr[c].mxFrame /\ k <= aHdr[0].mxFrame
      BY <1>0, <2>2 DEF MarkInv
    <3>3. hdr'[c] = hdr[c] \/ hdr'[c].mxFrame >= aHdr[0].mxFrame
      BY <1>0, <2>2, <3>1, HdrRises
    <3>4. hdr'[c].mxFrame \in Nat
      BY ConnStep DEF IInv, TypeOK, HdrTypes, Header, Frame
    <3> HIDE DEF k
    <3>5. k <= aHdr'[0].mxFrame /\ minFrame[c] <= nBackfill' + 1
      BY <1>n, <3>1, <3>2
    <3>6. k <= hdr'[c].mxFrame
      <4>1. CASE hdr'[c] = hdr[c]
        BY <3>2, <4>1
      <4>2. CASE hdr'[c].mxFrame >= aHdr[0].mxFrame
        BY <1>n, <3>1, <3>2, <3>4, <4>2
      <4> QED
        BY <3>3, <4>1, <4>2
    <3> QED
      BY <2>2, <3>1, <3>2, <3>5, <3>6
  <2> QED
    BY <1>0, <1>3, <2>1, <2>2, SlotTaken
<1> QED
  BY <1>1, <1>2, <1>3 DEF MarkInv

\* and after those of others.
LEMMA OthersMark ==
    ASSUME IInv, VersionInv, CounterInv, ImageInv, NEW c \in Conn, Step(c), NEW d \in Conn \ {c}
    PROVE  MarkInv(d)'
<1>0. /\ FileTypes /\ ShmTypes /\ ControlTypes /\ HdrTypes /\ ReadTypes /\ CkptTypes /\ LockExcludes
      /\ Changes(c) /\ Own(c) /\ Own(d) /\ Kept(c, d) /\ CopyInv(c) /\ WriterHdr(c) /\ SlotLock(d)
      /\ MarkInv(d)
  BY ImageFacts
<1>1. /\ pc'[d] = pc[d] /\ hdr'[d] = hdr[d] /\ readLock'[d] = readLock[d] /\ minFrame'[d] = minFrame[d]
      /\ mxReadMark'[d] = mxReadMark[d]
  BY <1>0 DEF Kept
<1>n. nBackfill \in Nat /\ minFrame[d] \in Nat /\ aHdr[0].mxFrame \in Nat
  BY <1>0, HdrNumbers, Numbers
<1>2. ASSUME pc[d] = "checkI" \/ readLock[d] > 0
      PROVE  1 <= minFrame[d] /\ minFrame[d] <= nBackfill' + 1
  <2>1. 1 <= minFrame[d] /\ minFrame[d] <= nBackfill + 1
    BY <1>0, <1>2 DEF MarkInv
  <2>2. nBackfill <= nBackfill' /\ nBackfill' \in Nat
    <3>1. pc[c] \notin {"restart1", "restart0", "restartBackfill", "restartAttempted", "restartMarks", "truncate"}
      BY <1>0, <1>2, NoRestartUnderReader DEF Own
    <3> QED
      BY <1>0, <3>1, LogGrows
  <2> QED
    BY <1>n, <2>1, <2>2
<1>3. ASSUME readLock[d] > 0
      PROVE  aReadMark'[readLock[d]] <= hdr[d].mxFrame /\ aReadMark'[readLock[d]] <= aHdr'[0].mxFrame
  <2> DEFINE k == aReadMark[readLock[d]]
  <2>1. /\ aReadMark'[readLock[d]] = k /\ k \in Nat
        /\ aHdr[0].mxFrame <= aHdr'[0].mxFrame /\ aHdr'[0].mxFrame \in Nat
    BY <1>3, MarkKept
  <2>2. k <= hdr[d].mxFrame /\ k <= aHdr[0].mxFrame
    BY <1>0, <1>3 DEF MarkInv
  <2> HIDE DEF k
  <2>3. k <= aHdr'[0].mxFrame
    BY <1>n, <2>1, <2>2
  <2> QED
    BY <2>1, <2>2, <2>3
<1>4. pc[d] \in TryPCs \ {"backfill", "lock0", "check0"} => mxReadMark[d] <= hdr[d].mxFrame
  BY <1>0 DEF MarkInv
<1> QED
  BY <1>1, <1>2, <1>3, <1>4 DEF MarkInv


(***************************************************************************)
(* The limit of a copy                                                     *)
(***************************************************************************)
\* A checkpointer does not read,
LEMMA NotItself ==
    ASSUME NEW c \in Conn, Arrives(c), ReadTypes, SlotControl(c), pc'[c] \in CopyPCs
    PROVE  ~(readLock'[c] > 0)
<1>1. Copies(c)
  BY DEF Arrives, Copies
<1>2. readLock' = readLock /\ pc[c] \in CkptPCs
  BY <1>1 DEF Copies, CkptInfo, CkptMark, CkptMarkBusy, CkptMarkLock, CkptMarkSet, CkptLock0, CkptCopy,
     CkptTruncateDb, readVars, CkptPCs
<1>3. readLock[c] = -1
  BY <1>2 DEF SlotControl
<1> QED
  BY <1>2, <1>3

\* a reader that arrives or writes names every frame the copy may reach,
LEMMA ReaderLimits ==
    ASSUME IInv, VersionInv, CounterInv, ImageInv, NEW c \in Conn, Step(c), NEW d \in Conn \ {c}
    PROVE  Limited(c, d)'
<1>0. /\ FileTypes /\ ShmTypes /\ ControlTypes /\ HdrTypes /\ ReadTypes /\ CkptTypes /\ HistTypes
      /\ Changes(c) /\ Kept(c, d) /\ SlotControl(c) /\ WriterHdr(c) /\ CkptRange(d) /\ Limited(c, d)
  BY ImageFacts
<1>1. /\ pc'[d] = pc[d] /\ iMark'[d] = iMark[d] /\ y'[d] = y[d] /\ mxSafeFrame'[d] = mxSafeFrame[d]
  BY <1>0 DEF Kept
<1> SUFFICES ASSUME readLock'[c] > 0, pc[d] \in CopyPCs PROVE Limited(c, d)'
  BY <1>1 DEF Limited
<1>2. mxSafeFrame[d] <= hdr[d].mxFrame /\ hdr[d].mxFrame <= aHdr[0].mxFrame
  BY <1>0 DEF CkptRange
<1>3. mxSafeFrame[d] \in Nat /\ hdr[d].mxFrame \in Nat /\ aHdr[0].mxFrame \in Nat
  BY <1>0, HdrNumbers, Numbers
<1>4. mxSafeFrame[d] <= aHdr[0].mxFrame
  BY <1>2, <1>3
<1>5. CASE HdrUnchanged(c) /\ hdr' = hdr
  BY <1>1, <1>4, <1>5 DEF HdrUnchanged, Limited
<1>6. CASE readLock'[c] = readLock[c] /\ readLock[c] > 0 /\ ~EndRead(c)
  <2>1. pc[c] # "restart1"
    BY <1>6, MarkKept
  <2>2. hdr'[c] = hdr[c] \/ hdr'[c].mxFrame >= aHdr[0].mxFrame
    BY <1>0, <1>6, <2>1, HdrRises
  <2>3. CASE hdr'[c] = hdr[c]
    BY <1>0, <1>1, <1>6, <2>3 DEF Limited
  <2>4. CASE hdr'[c].mxFrame >= aHdr[0].mxFrame
    <3>1. hdr'[c].mxFrame \in Nat
      BY ConnStep DEF IInv, TypeOK, HdrTypes, Header, Frame
    <3>2. mxSafeFrame[d] <= hdr'[c].mxFrame
      BY <1>3, <1>4, <2>4, <3>1
    <3> QED
      BY <1>1, <3>2 DEF Limited
  <2> QED
    BY <2>2, <2>3, <2>4
<1> QED
  BY <1>0, <1>5, <1>6, SlotTaken

\* and the checkpointer comes to the marks of the others.
LEMMA CkptLimits ==
    ASSUME IInv, VersionInv, CounterInv, ImageInv, NEW c \in Conn, Step(c), NEW e \in Conn \ {c}
    PROVE  Limited(e, c)'
<1>0. /\ FileTypes /\ ShmTypes /\ ControlTypes /\ HdrTypes /\ ReadTypes /\ CkptTypes
      /\ Arrives(c) /\ Kept(c, e) /\ Own(c) /\ CkptRange(c) /\ SlotLock(e) /\ MarkInv(e)
      /\ Limited(e, c)
  BY ImageFacts
<1>1. readLock'[e] = readLock[e] /\ hdr'[e] = hdr[e]
  BY <1>0 DEF Kept
<1> SUFFICES ASSUME readLock[e] > 0, pc'[c] \in CopyPCs PROVE Limited(e, c)'
  BY <1>1 DEF Limited
<1> DEFINE r == readLock[e]
           h == hdr[e].mxFrame
           k == aReadMark[r]
<1>2. r \in ReadMarks /\ k \in Nat /\ h \in Nat /\ k <= h /\ r >= 0 /\ r > 0 /\ r \in Int
  <2>1. r \in Int
    BY <1>0, Numbers
  <2>2. r \in ReadMarks /\ k \in Nat
    BY <1>0, Numbers
  <2> QED
    BY <1>0, <2>1, <2>2, HdrNumbers DEF MarkInv
<1>3. mxSafeFrame[c] \in Nat /\ y[c] \in Nat /\ iMark[c] \in Int
  BY <1>0, Numbers DEF ControlTypes
<1>4. Copies(c)
  BY <1>0 DEF Arrives, Copies
<1>5. CASE CkptInfo(c)
  <2>1. iMark' = [iMark EXCEPT ![c] = 1] /\ pc' = [pc EXCEPT ![c] = "ckptMarks"]
    BY <1>0, <1>5 DEF CkptInfo, Goto, AfterCopy, CopyPCs, ControlTypes
  <2>2. iMark'[c] = 1 /\ pc'[c] = "ckptMarks"
    BY <1>0, <2>1 DEF ControlTypes
  <2>3. 1 <= r
    BY <1>2
  <2> QED
    BY <1>1, <2>2, <2>3 DEF Limited
<1>6. CASE CkptMark(c)
  <2>0. pc[c] = "ckptMarks" /\ mxSafeFrame' = mxSafeFrame
    BY <1>6 DEF CkptMark
  <2>1. mxSafeFrame[c] <= h \/ iMark[c] <= r
    BY <1>0, <2>0 DEF Limited, CopyPCs
  <2>2. CASE mxSafeFrame[c] <= h
    BY <1>1, <2>0, <2>2 DEF Limited
  <2>3. CASE iMark[c] <= r /\ mxSafeFrame[c] > aReadMark[iMark[c]]
    <3>1. y' = [y EXCEPT ![c] = aReadMark[iMark[c]]] /\ pc' = [pc EXCEPT ![c] = "ckptMarkLock"] /\ iMark' = iMark
      BY <1>6, <2>3 DEF CkptMark, Goto
    <3>2. y'[c] = aReadMark[iMark[c]] /\ pc'[c] = "ckptMarkLock" /\ iMark'[c] = iMark[c]
      BY <1>0, <3>1 DEF CkptTypes, ControlTypes
    <3>3. iMark[c] < r \/ (iMark[c] = r /\ y'[c] <= h)
      <4>1. iMark[c] < r \/ iMark[c] = r
        BY <1>2, <1>3, <2>3
      <4> QED
        BY <1>2, <3>2, <4>1
    <3> QED
      BY <1>1, <3>2, <3>3 DEF Limited
  <2>4. CASE iMark[c] <= r /\ ~(mxSafeFrame[c] > aReadMark[iMark[c]])
    <3>1. iMark' = [iMark EXCEPT ![c] = @ + 1] /\ pc' = pc
      BY <1>6, <2>4 DEF CkptMark
    <3>2. iMark'[c] = iMark[c] + 1 /\ pc'[c] = "ckptMarks"
      BY <1>0, <2>0, <3>1 DEF ControlTypes
    <3>3. CASE iMark[c] = r
      <4>1. mxSafeFrame[c] <= h
        <5> HIDE DEF h, r
        <5> QED
          BY <1>2, <1>3, <2>4, <3>3
      <4> QED
        BY <1>1, <2>0, <4>1 DEF Limited
    <3>4. CASE iMark[c] # r
      <4>1. iMark'[c] <= r
        BY <1>2, <1>3, <2>4, <3>2, <3>4
      <4> QED
        BY <1>1, <3>2, <4>1 DEF Limited
    <3> QED
      BY <3>3, <3>4
  <2> QED
    BY <2>1, <2>2, <2>3, <2>4
<1>7. CASE CkptMarkBusy(c)
  <2>0. pc[c] = "ckptMarkLock" /\ y[c] < mxSafeFrame[c]
    BY <1>0, <1>7 DEF CkptMarkBusy, CkptRange
  <2>1. /\ mxSafeFrame' = [mxSafeFrame EXCEPT ![c] = y[c]] /\ iMark' = [iMark EXCEPT ![c] = @ + 1]
        /\ pc' = [pc EXCEPT ![c] = "ckptMarks"]
    BY <1>7 DEF CkptMarkBusy, SafeWithReader, Goto
  <2>2. mxSafeFrame'[c] = y[c] /\ iMark'[c] = iMark[c] + 1 /\ pc'[c] = "ckptMarks"
    BY <1>0, <2>1 DEF CkptTypes, ControlTypes
  <2>3. mxSafeFrame[c] <= h \/ iMark[c] < r \/ y[c] <= h
    BY <1>0, <2>0 DEF Limited, CopyPCs
  <2>4. y[c] <= h \/ iMark[c] + 1 <= r
    BY <1>2, <1>3, <2>0, <2>3
  <2> QED
    BY <1>1, <2>2, <2>4 DEF Limited
<1>8. CASE CkptMarkLock(c)
  <2>0. /\ pc[c] = "ckptMarkLock" /\ mxSafeFrame' = mxSafeFrame /\ iMark' = iMark
        /\ pc' = [pc EXCEPT ![c] = "ckptMarkSet"] /\ lockS[WAL_READ_LOCK(iMark[c])] = {}
    BY <1>8 DEF CkptMarkLock, ckptVars, CanLock, Goto
  <2>1. pc'[c] = "ckptMarkSet"
    BY <1>0, <2>0 DEF ControlTypes
  <2>2. e \in lockS[WAL_READ_LOCK(r)]
    BY <1>0, <1>2 DEF SlotLock
  <2>3. iMark[c] # r
    BY <2>0, <2>2
  <2>4. mxSafeFrame[c] <= h \/ iMark[c] < r
    BY <1>0, <2>0, <2>3 DEF Limited, CopyPCs
  <2> QED
    BY <1>1, <2>0, <2>1, <2>4 DEF Limited
<1>9. CASE CkptMarkSet(c)
  <2>0. /\ pc[c] = "ckptMarkSet" /\ mxSafeFrame' = mxSafeFrame /\ iMark' = [iMark EXCEPT ![c] = @ + 1]
        /\ pc' = [pc EXCEPT ![c] = "ckptMarks"]
    BY <1>9 DEF CkptMarkSet, Goto
  <2>1. iMark'[c] = iMark[c] + 1 /\ pc'[c] = "ckptMarks"
    BY <1>0, <2>0 DEF ControlTypes
  <2>2. mxSafeFrame[c] <= h \/ iMark[c] < r
    BY <1>0, <2>0 DEF Limited, CopyPCs
  <2>3. mxSafeFrame[c] <= h \/ iMark[c] + 1 <= r
    BY <1>2, <1>3, <2>2
  <2> QED
    BY <1>1, <2>0, <2>1, <2>3 DEF Limited
<1>10. CASE CkptLock0(c)
  <2>0. pc[c] = "ckptMarks" /\ mxSafeFrame' = mxSafeFrame /\ iMark[c] \notin ReadMarks
    BY <1>10 DEF CkptLock0
  <2>1. iMark[c] \in 1..WAL_NREADER
    BY <1>0, <2>0 DEF Own, MarkControl
  <2>2. ~(iMark[c] <= r)
    BY <1>2, <2>0, <2>1, BoundAssumption DEF ReadMarks
  <2>3. mxSafeFrame[c] <= h
    BY <1>0, <2>0, <2>2 DEF Limited, CopyPCs
  <2> QED
    BY <1>1, <2>0, <2>3 DEF Limited
<1>11. CASE CkptCopy(c) \/ CkptTruncateDb(c)
  <2>0. pc[c] = "ckptCopy" /\ mxSafeFrame' = mxSafeFrame
    BY <1>11 DEF CkptCopy, CkptTruncateDb, ckptVars
  <2>1. mxSafeFrame[c] <= h
    BY <1>0, <2>0 DEF Limited, CopyPCs
  <2> QED
    BY <1>1, <2>0, <2>1 DEF Limited
<1> QED
  BY <1>4, <1>5, <1>6, <1>7, <1>8, <1>9, <1>10, <1>11 DEF Copies

\* Every copy has its limits.
LEMMA LimitStep ==
    ASSUME IInv, VersionInv, CounterInv, ImageInv, NEW c \in Conn, Step(c), NEW e \in Conn, NEW d \in Conn
    PROVE  Limited(e, d)'
<1>0. /\ ReadTypes /\ Arrives(c) /\ SlotControl(c) /\ Limited(e, d) /\ \A f \in Conn \ {c} : Kept(c, f)
  BY ImageFacts
<1>1. CASE e = c /\ d = c
  BY <1>0, <1>1, NotItself DEF Limited
<1>2. CASE e = c /\ d # c
  BY <1>2, ReaderLimits
<1>3. CASE e # c /\ d = c
  BY <1>3, CkptLimits
<1>4. CASE e # c /\ d # c
  <2>1. /\ pc'[d] = pc[d] /\ iMark'[d] = iMark[d] /\ y'[d] = y[d] /\ mxSafeFrame'[d] = mxSafeFrame[d]
        /\ readLock'[e] = readLock[e] /\ hdr'[e] = hdr[e]
    BY <1>0, <1>4 DEF Kept
  <2> QED
    BY <1>0, <2>1 DEF Limited
<1> QED
  BY <1>1, <1>2, <1>3, <1>4


(***************************************************************************)
(* Readers                                                                 *)
(***************************************************************************)
\* Whoever has the header there is reads the last version.
CurrentRead ==
    IInv /\ CounterInv /\ CurrentShown /\ SizeKnown =>
        \A c \in Conn : MarkInv(c) /\ hdr[c] = aHdr[0] /\ snap[c] = Len(hist) => ReaderImage(c)

LEMMA CurrentReader == CurrentRead
<1> SUFFICES ASSUME IInv, CounterInv, CurrentShown, SizeKnown, NEW c \in Conn,
                    MarkInv(c), hdr[c] = aHdr[0], snap[c] = Len(hist), pc[c] \in {"read", "writeCheck"}
             PROVE  ReaderImage(c)
  BY DEF CurrentRead, ReaderImage
<1>0. FileTypes /\ ShmTypes /\ HdrTypes /\ ReadTypes /\ CkptTypes /\ AllCopied(c)
  BY DEF IInv, TypeOK, CounterInv
<1>n. /\ nBackfill \in Nat /\ aHdr[0].mxFrame \in Nat /\ aHdr[0].nPage \in Nat /\ log \in Seq(FrameRec)
      /\ minFrame[c] \in Nat
  BY <1>0, HdrNumbers, Numbers
<1>1. ASSUME readLock[c] > 0
      PROVE  OlderHdr(hdr[c]) /\ Shows(db, log, minFrame[c], hdr[c].mxFrame, hdr[c].nPage, hist[snap[c]].img)
  <2>1. OlderHdr(hdr[c])
    BY <1>n DEF OlderHdr, SizeKnown
  <2>2. minFrame[c] \in 1..(nBackfill + 1)
    BY <1>n, <1>1 DEF MarkInv
  <2> QED
    BY <2>1, <2>2 DEF CurrentShown, LastImage
<1>2. ASSUME readLock[c] = 0
      PROVE  Shows(db, log, 1, 0, hdr[c].nPage, hist[snap[c]].img)
  <2>1. nBackfill = aHdr[0].mxFrame
    BY <1>0, <1>2 DEF AllCopied
  <2>2. nBackfill + 1 \in 1..(nBackfill + 1) /\ aHdr[0].mxFrame < nBackfill + 1 /\ nBackfill + 1 \in Int
    BY <1>n, <2>1
  <2>3. Shows(db, log, nBackfill + 1, aHdr[0].mxFrame, aHdr[0].nPage, LastImage)
    BY <2>2 DEF CurrentShown
  <2>4. ASSUME NEW p \in Page PROVE ShowsPage(db, log, p, 1, 0, aHdr[0].nPage, LastImage)
    <3>1. ShowsPage(db, log, p, nBackfill + 1, aHdr[0].mxFrame, aHdr[0].nPage, LastImage)
      BY <2>3 DEF Shows
    <3>2. Content(db, log, p, nBackfill + 1, aHdr[0].mxFrame) = db[p]
      BY <1>n, <2>2, EmptyContent
    <3>3. Content(db, log, p, 1, 0) = db[p]
      BY <1>n, EmptyContent
    <3> QED
      BY <3>1, <3>2, <3>3 DEF ShowsPage
  <2> QED
    BY <2>4 DEF Shows, LastImage
<1> QED
  BY <1>1, <1>2 DEF ReaderImage

\* A transaction begins, or ends its writing, with that header.
LEMMA OwnReader ==
    ASSUME IInv, VersionInv, CounterInv, ImageInv, NEW c \in Conn, Step(c), CounterInv'
    PROVE  ReaderImage(c)'
<1>0. /\ FileTypes /\ ShmTypes /\ ControlTypes /\ HdrTypes /\ ReadTypes /\ CkptTypes /\ HistTypes
      /\ Changes(c) /\ Arrives(c) /\ Own(c) /\ SlotControl(c) /\ WriterHdr(c) /\ SnapAge(c)
      /\ ReaderImage(c)
  BY ImageFacts
<1> SUFFICES ASSUME pc'[c] \in {"read", "writeCheck"} PROVE ReaderImage(c)'
  BY DEF ReaderImage
<1>1. CASE hdr'[c] = aHdr'[0] /\ snap'[c] = Len(hist')
  <2>1. IInv' /\ CounterInv' /\ CurrentShown' /\ SizeKnown' /\ MarkInv(c)'
    BY ConnStep, CurrentStep, SizeStep, OwnMark
  <2>2. CurrentRead'
    BY CurrentReader, PTL
  <2> QED
    BY <1>1, <2>1, <2>2 DEF CurrentRead
<1>2. CASE Check0(c)
  <2>1. UNCHANGED <<hdr, aHdr, hist>> /\ pc[c] = "check0"
    BY <1>2 DEF Check0, shmVars, commitVars
  <2>2. /\ HdrUnchanged(c) /\ pc' = [pc EXCEPT ![c] = "read"] /\ snap' = [snap EXCEPT ![c] = Len(hist)]
    BY <1>0, <1>2 DEF Check0, Opened, Goto, ControlTypes
  <2> QED
    BY <1>0, <1>1, <2>1, <2>2 DEF HdrUnchanged, HistTypes
<1>3. CASE CheckI(c)
  <2>1. UNCHANGED <<hdr, aHdr, hist>> /\ pc[c] = "checkI"
    BY <1>3 DEF CheckI, shmVars, commitVars
  <2>2. \/ HdrUnchanged(c) /\ Opened(c)
        \/ Retry(c)
    BY <1>3 DEF CheckI
  <2>3. ~Retry(c)
    BY <1>0 DEF Retry, ToScan, Goto, ControlTypes
  <2>4. /\ HdrUnchanged(c) /\ snap' = [snap EXCEPT ![c] = Len(hist)]
    BY <1>0, <2>2, <2>3 DEF Opened, Goto, ControlTypes
  <2> QED
    BY <1>0, <1>1, <2>1, <2>4 DEF HdrUnchanged, HistTypes
<1>4. CASE EndWrite(c)
  <2>1. UNCHANGED <<hdr, aHdr, hist, snap>> /\ pc[c] = "endWrite"
    BY <1>4 DEF EndWrite, shmVars, hdrVars, viewVars
  <2>2. hdr[c] = aHdr[0] /\ snap[c] = Len(hist)
    BY <1>0, <2>1 DEF WriterHdr, SnapAge, InWrite, WritePCs
  <2> QED
    BY <1>1, <2>1, <2>2
<1>5. CASE Rollback(c)
  <2>1. UNCHANGED <<aHdr, hist, snap>> /\ pc[c] \in {"write", "frames"} /\ hdr'[c] = aHdr[0]
    BY <1>0, <1>5 DEF Rollback, shmVars, viewVars, HdrTypes
  <2>2. snap[c] = Len(hist)
    BY <1>0, <2>1 DEF SnapAge, InWrite, WritePCs
  <2> QED
    BY <1>1, <2>1, <2>2
<1>6. CASE WriteCheck(c) \/ BeginWrite(c)
  <2>1. /\ UNCHANGED <<db, log, hdr, aHdr, hist, snap, readLock, minFrame>>
        /\ pc[c] \in {"read", "writeCheck"}
    BY <1>6 DEF WriteCheck, BeginWrite, fileVars, shmVars, hdrVars, readVars, viewVars, commitVars
  <2> QED
    BY <1>0, <2>1 DEF ReaderImage, OlderHdr
<1> QED
  BY <1>0, <1>2, <1>3, <1>4, <1>5, <1>6 DEF Arrives

\* A version of the past stays what it is.
LEMMA PastKept ==
    ASSUME NEW c \in Conn, Changes(c), HistTypes, NEW v \in 1..Len(hist)
    PROVE  hist'[v] = hist[v]
<1>1. CASE hist' = hist
  BY <1>1
<1>2. CASE Publish0(c)
  <2>1. hist' = Append(hist, pend)
    BY <1>2 DEF Publish0
  <2> QED
    BY <2>1 DEF HistTypes
<1> QED
  BY <1>1, <1>2 DEF Changes

\* Nobody takes it from a reader.
LEMMA OthersReader ==
    ASSUME IInv, VersionInv, CounterInv, ImageInv, NEW c \in Conn, Step(c), NEW d \in Conn \ {c}
    PROVE  ReaderImage(d)'
<1>0. /\ FileTypes /\ ShmTypes /\ ControlTypes /\ HdrTypes /\ ReadTypes /\ CkptTypes /\ HistTypes
      /\ LockExcludes /\ LogCoversHdr /\ Changes(c) /\ Kept(c, d) /\ Own(c) /\ RestartInv(c) /\ WriterHdr(c)
      /\ CopyInv(c) /\ CkptRange(c) /\ CopyImage(c) /\ TxnInv(d) /\ SlotLock(d) /\ MarkInv(d)
      /\ ReaderImage(d) /\ Limited(d, c)
  BY ImageFacts
<1>1. /\ pc'[d] = pc[d] /\ hdr'[d] = hdr[d] /\ snap'[d] = snap[d] /\ readLock'[d] = readLock[d]
      /\ minFrame'[d] = minFrame[d]
  BY <1>0 DEF Kept
<1> SUFFICES ASSUME pc[d] \in {"read", "writeCheck"} PROVE ReaderImage(d)'
  BY <1>1 DEF ReaderImage
<1>n. /\ nBackfill \in Nat /\ aHdr[0].mxFrame \in Nat /\ aHdr[0].nPage \in Nat /\ log \in Seq(FrameRec)
      /\ minFrame[d] \in Nat /\ hdr[d].mxFrame \in Nat /\ hdr[d].nPage \in Nat /\ mxSafeFrame[c] \in Nat
      /\ Len(log) \in Nat
  BY <1>0, HdrNumbers, Numbers
<1>2. hist'[snap[d]] = hist[snap[d]]
  <2>1. snap[d] \in 1..Len(hist)
    BY <1>0 DEF TxnInv, InWrite, WritePCs, HistTypes
  <2> QED
    BY <1>0, <2>1, PastKept
<1>3. log' \in Seq(FrameRec) /\ Agree(log, log', aHdr[0].mxFrame)
  BY <1>0, PrefixKept
<1>p. pc[c] = "ckptCopy" \/ ~(CkptCopy(c) \/ CkptTruncateDb(c))
  BY DEF CkptCopy, CkptTruncateDb
<1> DEFINE img == hist[snap[d]].img
           m == hdr[d].mxFrame
           n == hdr[d].nPage
<1>4. ASSUME readLock[d] > 0
      PROVE  OlderHdr(hdr[d])' /\ Shows(db', log', minFrame[d], m, n, img)
  <2>1. OlderHdr(hdr[d]) /\ Shows(db, log, minFrame[d], m, n, img)
    BY <1>0, <1>4 DEF ReaderImage
  <2>2. \/ aHdr'[0] = aHdr[0]
        \/ aHdr'[0] = hdr[c] /\ hdr[c].mxFrame > aHdr[0].mxFrame
    BY <1>4, MarkKept
  <2>3. hdr[c].mxFrame \in Nat
    BY <1>0, HdrNumbers
  <2>4. OlderHdr(hdr[d])'
    BY <1>n, <1>1, <2>1, <2>2, <2>3 DEF OlderHdr
  <2>5. m <= aHdr[0].mxFrame /\ (m = aHdr[0].mxFrame => n = aHdr[0].nPage)
    BY <2>1 DEF OlderHdr
  <2>6. Agree(log, log', m)
    <3>1. Len(log') \in Nat
      BY <1>3
    <3> HIDE DEF m
    <3> QED
      BY <1>n, <1>3, <2>5, <3>1 DEF Agree, m
  <2>7. CkptCopy(c) \/ CkptTruncateDb(c) => mxSafeFrame[c] <= m
    BY <1>0, <1>p, <1>4 DEF Limited, CopyPCs
  <2>8. CkptTruncateDb(c) /\ mxSafeFrame[c] = aHdr[0].mxFrame => n = aHdr[0].nPage
    BY <1>n, <2>5, <2>7
  <2>9. minFrame[d] <= nBackfill + 1
    BY <1>0, <1>4 DEF MarkInv
  <2>10. Shows(db', log', minFrame[d], m, n, img)
    <3>1. CkptTruncateDb(c) /\ mxSafeFrame[c] = aHdr[0].mxFrame /\ aHdr[0].nPage > 0 =>
             \A p \in Page : p > aHdr[0].nPage => (n > 0 /\ p > n) \/ HasFrame(log, p, minFrame[d], m)
      BY <2>8
    <3> HIDE DEF img, m, n
    <3>2. m \in Nat /\ n \in Nat
      BY <1>n DEF m, n
    <3> QED
      BY <1>0, <1>n, <1>3, <2>1, <2>6, <2>7, <2>9, <3>1, <3>2, ShownKept
  <2> QED
    BY <2>4, <2>10
<1>5. ASSUME readLock[d] = 0
      PROVE  Shows(db', log', 1, 0, n, img)
  <2>1. Shows(db, log, 1, 0, n, img)
    BY <1>0, <1>5 DEF ReaderImage
  <2>2. ~CkptCopy(c) /\ ~CkptTruncateDb(c)
    <3>1. lockX[WAL_READ_LOCK(0)] # c
      BY <1>0, <1>5, SlotIsShared
    <3> QED
      BY <1>0, <1>p, <3>1 DEF Own, MarkLocks
  <2>3. Agree(log, log', 0) /\ 1 <= nBackfill + 1
    <3>1. Len(log') \in Nat
      BY <1>3
    <3> QED
      BY <1>n, <3>1 DEF Agree
  <2> HIDE DEF img, n
  <2>4. n \in Nat
    BY <1>n DEF n
  <2> QED
    BY <1>0, <1>n, <1>3, <2>1, <2>2, <2>3, <2>4, ShownKept
<1> QED
  BY <1>1, <1>2, <1>4, <1>5 DEF ReaderImage


(***************************************************************************)
(* Writers                                                                 *)
(***************************************************************************)
\* A write transaction begins with no page written,
LEMMA WriterBegins ==
    ASSUME IInv, VersionInv, CounterInv, ImageInv, NEW c \in Conn, WriteCheck(c), Writing(c)'
    PROVE  WriterImage(c)'
<1>1. pc[c] = "writeCheck" /\ UNCHANGED <<log, aHdr, hdr, hist>>
  BY DEF WriteCheck, fileVars, shmVars, hdrVars
<1>0. FileTypes /\ ShmTypes /\ ControlTypes /\ HdrTypes /\ HdrCounts /\ SnapAge(c)
  BY KnownFacts DEF VersionInv
<1>2. pc'[c] # "read"
  BY DEF Writing, InWrite, WritePCs, RestartPCs, TryPCs
<1>3. hdr[c] = aHdr[0] /\ work' = hist[snap[c]].img
  BY <1>0, <1>2 DEF WriteCheck, SnapshotIsCurrent, Goto, ControlTypes
<1>4. snap[c] = Len(hist)
  BY <1>0, <1>1, <1>3 DEF SnapAge, HdrCounts
<1> DEFINE M == aHdr[0].mxFrame
<1>5. M \in Nat /\ log \in Seq(FrameRec)
  BY <1>0, HdrNumbers DEF FileTypes
<1> HIDE DEF M
<1>6. \A p \in Page : ~HasFrame(log, p, M + 1, M)
  <2>1. M < M + 1 /\ M + 1 \in Int /\ M \in Int
    BY <1>5
  <2> QED
    BY <1>5, <2>1, FrameEmpty
<1>7. \A i \in (M + 1)..M : FALSE
  BY <1>5
<1> QED
  BY <1>1, <1>3, <1>4, <1>6, <1>7 DEF WriterImage, LastImage, M

\* and a spill adds one.
LEMMA WriterSpills ==
    ASSUME IInv, VersionInv, CounterInv, ImageInv, NEW c \in Conn, Spill(c), Writing(c)
    PROVE  WriterImage(c)'
<1>0. /\ FileTypes /\ ShmTypes /\ HdrTypes /\ HistTypes /\ LogCoversHdr /\ WriterHdr(c) /\ WriterImage(c)
  BY KnownFacts, IInvByConn DEF CounterInv, ImageInv
<1> DEFINE M == aHdr[0].mxFrame
           m == hdr[c].mxFrame
<1>1. UNCHANGED <<aHdr, hist, txn>> /\ hdr'[c].mxFrame = m + 1
  BY <1>0, SpillFields DEF Spill, shmVars
<1>2. PICK q \in Page : /\ log'[m + 1].pgno = q /\ log'[m + 1].val = txn
                        /\ work' = [work EXCEPT ![q] = txn]
  BY <1>0, SpillWrites
<1>3. log' \in Seq(FrameRec) /\ Agree(log, log', m) /\ m + 1 <= Len(log')
  BY <1>0, SpillWrites
<1>4. m \in Nat /\ M \in Nat /\ m >= M /\ log \in Seq(FrameRec) /\ Len(log') \in Nat
  <2>1. m >= M
    BY <1>0 DEF WriterHdr, Spill, InFrames
  <2> QED
    BY <1>0, <1>3, <2>1, HdrNumbers DEF FileTypes
<1>5. /\ \A p \in Page : work[p] = IF HasFrame(log, p, M + 1, m) THEN txn ELSE LastImage[p]
      /\ \A i \in (M + 1)..m : log[i].val = txn
  BY <1>0 DEF WriterImage
<1> HIDE DEF M, m
<1>6. ASSUME NEW p \in Page
      PROVE  work'[p] = IF HasFrame(log', p, M + 1, m + 1) THEN txn ELSE LastImage[p]
  <2>0. M + 1 \in Int /\ m + 1 \in Int /\ m \in Int /\ m <= m /\ m <= m + 1 /\ M + 1 <= M + 1
    BY <1>4
  <2>1. CASE p = q
    <3>1. m + 1 \in 1..Len(log') /\ M + 1 <= m + 1 /\ m + 1 <= m + 1
      BY <1>3, <1>4
    <3>2. HasFrame(log', p, M + 1, m + 1)
      BY <1>2, <2>1, <3>1 DEF HasFrame
    <3>3. work'[p] = txn
      BY <1>0, <1>2, <2>1 DEF HistTypes, Image
    <3> QED
      BY <3>2, <3>3
  <2>2. CASE p # q
    <3>1. work'[p] = work[p]
      BY <1>0, <1>2, <2>2 DEF HistTypes, Image
    <3>2. HasFrame(log', p, M + 1, m + 1) => HasFrame(log', p, M + 1, m)
      <4> SUFFICES ASSUME HasFrame(log', p, M + 1, m + 1) PROVE HasFrame(log', p, M + 1, m)
        OBVIOUS
      <4>1. PICK i \in 1..Len(log') : M + 1 <= i /\ i <= m + 1 /\ log'[i].pgno = p
        BY DEF HasFrame
      <4>2. i # m + 1 /\ i \in Int
        BY <1>2, <2>2, <4>1
      <4>3. i <= m
        BY <1>4, <4>1, <4>2
      <4> QED
        BY <4>1, <4>3 DEF HasFrame
    <3>3. HasFrame(log', p, M + 1, m) => HasFrame(log', p, M + 1, m + 1)
      BY <1>3, <2>0, FrameWiden
    <3>4. HasFrame(log, p, M + 1, m) <=> HasFrame(log', p, M + 1, m)
      BY <1>3, <1>4, <2>0, FrameAgree
    <3> QED
      BY <1>5, <3>1, <3>2, <3>3, <3>4
  <2> QED
    BY <2>1, <2>2
<1>7. ASSUME NEW i \in (M + 1)..(m + 1) PROVE log'[i].val = txn
  <2>1. CASE i = m + 1
    BY <1>2, <2>1
  <2>2. CASE i # m + 1
    <3>1. i \in (M + 1)..m /\ i \in 1..m
      BY <1>4, <2>2
    <3> QED
      BY <1>3, <1>5, <3>1 DEF Agree
  <2> QED
    BY <2>1, <2>2
<1> QED
  BY <1>1, <1>6, <1>7 DEF WriterImage, LastImage, M, m

\* Who is writing after a step has begun to or was.
LEMMA WriterGoesOn ==
    ASSUME IInv, VersionInv, NEW c \in Conn, Step(c), Arrives(c), Writing(c)'
    PROVE  Writing(c) \/ WriteCheck(c)
<1>0. /\ ControlTypes /\ HistTypes /\ Own(c) /\ TxnInv(c) /\ NoRecovery(c)
  BY KnownFacts
<1>1. OwnHdr(c)'
  BY DEF Writing, OwnHdr
<1>2. OwnHdr(c) \/ WriteCheck(c) \/ RecoverScan(c)
  BY <1>0, <1>1, OwnSteps
<1>3. ~RecoverScan(c) /\ pc[c] \notin RecPCs
  BY <1>0 DEF NoRecovery, RecoverScan, RecPCs
<1>4. OwnHdr(c) => InWrite(c) /\ pc[c] # "writeCheck"
  BY <1>3 DEF OwnHdr
<1>5. pc'[c] \notin {"publish0", "endWrite", "read"}
  BY DEF Writing, InWrite, WritePCs, RestartPCs, TryPCs
<1>6. pc[c] \notin {"publish1", "publish0", "endWrite"}
  BY <1>5 DEF Arrives
<1> QED
  BY <1>2, <1>3, <1>4, <1>6 DEF Writing

\* Otherwise there are no frames to add, before and after, or the same ones.
LEMMA WriterRange ==
    ASSUME NEW c \in Conn, Changes(c), ShmTypes, ControlTypes, HdrTypes, RestartInv(c), WriterHdr(c),
           ModeControl(c), Writing(c), ~Spill(c), ~Commit(c), ~Rollback(c)
    PROVE  \/ hdr'[c].mxFrame = hdr[c].mxFrame /\ aHdr'[0].mxFrame = aHdr[0].mxFrame
           \/ /\ hdr[c].mxFrame <= aHdr[0].mxFrame
              /\ hdr'[c].mxFrame = 0 /\ aHdr'[0].mxFrame \in Nat
<1>n. hdr[c].mxFrame \in Nat /\ aHdr[0].mxFrame \in Nat
  BY HdrNumbers
<1>1. pc[c] \notin {"read", "hdr", "ckptEnd", "publish0"}
  BY DEF Writing, InWrite, WritePCs, RestartPCs, TryPCs
<1>2. hdr' = hdr \/ RestartHdr1(c) \/ WriteWalHdr(c)
  BY <1>1 DEF Changes, ReadHdr, EndRead, CkptEnd
<1>3. aHdr'[0] = aHdr[0] \/ (aHdr'[0] = hdr[c] /\ RestartHdr0(c))
  BY <1>1, FirstCopy DEF Publish0
<1>4. CASE RestartHdr1(c)
  <2>1. pc[c] = "restart1" /\ aHdr'[0] = aHdr[0]
    BY <1>4 DEF RestartHdr1, ShmTypes
  <2>2. hdr[c] = aHdr[0]
    BY <2>1 DEF WriterHdr, ModeControl, InWrite, InFullCkpt, bWriteLock, InCkpt, RestartPCs
  <2>3. hdr'[c].mxFrame = 0
    BY <1>4, RestartHdrFields
  <2> QED
    BY <1>n, <2>1, <2>2, <2>3
<1>5. CASE RestartHdr0(c)
  <2>1. hdr[c].mxFrame = 0 /\ hdr' = hdr
    BY <1>5 DEF RestartHdr0, RestartInv, hdrVars
  <2> QED
    BY <1>n, <1>3, <2>1
<1>6. CASE WriteWalHdr(c)
  <2>1. hdr'[c].mxFrame = hdr[c].mxFrame
    BY <1>6, WalHdrFields
  <2>2. aHdr' = aHdr
    BY <1>6 DEF WriteWalHdr, shmVars
  <2> QED
    BY <2>1, <2>2
<1> QED
  BY <1>2, <1>3, <1>4, <1>5, <1>6

\* The pages of a writer after its own steps
LEMMA OwnWriter ==
    ASSUME IInv, VersionInv, CounterInv, ImageInv, NEW c \in Conn, Step(c)
    PROVE  WriterImage(c)'
<1>0. /\ FileTypes /\ ShmTypes /\ ControlTypes /\ HdrTypes /\ HistTypes /\ Changes(c) /\ Arrives(c)
      /\ RestartInv(c) /\ WriterHdr(c) /\ ModeControl(c) /\ WriterImage(c)
  BY ImageFacts
<1> SUFFICES ASSUME Writing(c)' PROVE WriterImage(c)'
  BY DEF WriterImage
<1>1. CASE WriteCheck(c)
  BY <1>1, WriterBegins
<1>2. CASE Writing(c) /\ Spill(c)
  BY <1>2, WriterSpills
<1>3. CASE Writing(c) /\ ~Spill(c)
  <2>1. pc[c] \notin {"writeCheck", "endWrite", "publish0", "truncate"}
    BY <1>3 DEF Writing, InWrite, WritePCs, RestartPCs, TryPCs
  <2>2. pc'[c] \notin {"publish1", "read"}
    BY DEF Writing, InWrite, WritePCs, RestartPCs, TryPCs
  <2>3. ~Commit(c) /\ ~Rollback(c)
    BY <1>0, <2>2 DEF Commit, Rollback, Goto, ControlTypes
  <2>4. UNCHANGED <<log, work, txn, hist>>
    BY <1>0, <1>3, <2>1, <2>3 DEF Changes, CkptTruncateLog, WriteCheck, EndWrite, Publish0
  <2> DEFINE M == aHdr[0].mxFrame
             m == hdr[c].mxFrame
             N == aHdr'[0].mxFrame
             n == hdr'[c].mxFrame
  <2>5. (n = m /\ N = M) \/ (m <= M /\ n = 0 /\ N \in Nat)
    BY <1>0, <1>3, <2>3, WriterRange
  <2>6. /\ \A p \in Page : work[p] = IF HasFrame(log, p, M + 1, m) THEN txn ELSE LastImage[p]
        /\ \A i \in (M + 1)..m : log[i].val = txn
    BY <1>0, <1>3 DEF WriterImage
  <2>7. M \in Nat /\ m \in Nat /\ log \in Seq(FrameRec)
    BY <1>0, HdrNumbers DEF FileTypes
  <2> HIDE DEF M, m, N, n
  <2>8. /\ \A p \in Page : work[p] = IF HasFrame(log, p, N + 1, n) THEN txn ELSE LastImage[p]
        /\ \A i \in (N + 1)..n : log[i].val = txn
    <3>1. CASE n = m /\ N = M
      BY <2>6, <3>1
    <3>2. CASE m <= M /\ n = 0 /\ N \in Nat
      <4>1. m < M + 1 /\ M + 1 \in Int /\ m \in Int /\ n < N + 1 /\ N + 1 \in Int /\ n \in Int
        BY <2>7, <3>2
      <4>2. \A p \in Page : ~HasFrame(log, p, M + 1, m) /\ ~HasFrame(log, p, N + 1, n)
        BY <2>7, <4>1, FrameEmpty
      <4>3. \A i \in (N + 1)..n : FALSE
        BY <4>1
      <4> QED
        BY <2>6, <4>2, <4>3
    <3> QED
      BY <2>5, <3>1, <3>2
  <2> QED
    BY <2>4, <2>8 DEF WriterImage, LastImage, N, n
<1> QED
  BY <1>0, <1>1, <1>2, <1>3, WriterGoesOn

\* and after those of others, who do not have the WRITER lock.
LEMMA OthersWriter ==
    ASSUME IInv, VersionInv, CounterInv, ImageInv, NEW c \in Conn, Step(c), NEW d \in Conn \ {c}
    PROVE  WriterImage(d)'
<1>0. /\ FileTypes /\ ShmTypes /\ ControlTypes /\ HdrTypes /\ HistTypes /\ LogCoversHdr /\ Changes(c)
      /\ Own(c) /\ Own(d) /\ Kept(c, d) /\ WriterImage(d)
  BY ImageFacts
<1> SUFFICES ASSUME Writing(d)' PROVE WriterImage(d)'
  BY DEF WriterImage
<1>1. /\ pc'[d] = pc[d] /\ eMode'[d] = eMode[d] /\ hdr'[d] = hdr[d]
      /\ lockX'[WAL_WRITE_LOCK] = d <=> lockX[WAL_WRITE_LOCK] = d
  BY <1>0, LockNumbers DEF Kept
<1>2. Writing(d)
  BY <1>1 DEF Writing, InWrite
<1>3. lockX[WAL_WRITE_LOCK] = d /\ d # c
  BY <1>0, <1>2, LocksOfData DEF Writing
<1>4. aHdr' = aHdr /\ log' = log
  BY <1>0, <1>3, HdrStoreStep, LogStep
<1>5. pc[c] \notin WritePCs
  BY <1>0, <1>3, LocksOfData DEF WriterPCs
<1>6. UNCHANGED <<work, txn, hist>>
  BY <1>0, <1>5 DEF Changes, WriteCheck, Spill, InFrames, EndWrite, Rollback, Publish0, WritePCs
<1> QED
  BY <1>0, <1>1, <1>2, <1>4, <1>6 DEF WriterImage, LastImage


(***************************************************************************)
(* Commits                                                                 *)
(***************************************************************************)
\* What a commit has written adds up to its image,
LEMMA CommitImage ==
    ASSUME IInv, VersionInv, CounterInv, ImageInv, NEW c \in Conn, Commit(c)
    PROVE  /\ hdr'[c].nPage > 0
           /\ \A f \in 1..(nBackfill + 1) :
                 Shows(db, log', f, hdr'[c].mxFrame, hdr'[c].nPage, pend'.img)
           /\ aHdr[0].nPage > 0 =>
                 \A p \in Page : aHdr[0].nPage < p /\ p <= hdr'[c].nPage =>
                     HasFrame(log', p, aHdr[0].mxFrame + 1, hdr'[c].mxFrame)
<1>0. /\ FileTypes /\ ShmTypes /\ HdrTypes /\ HistTypes /\ LogCoversHdr /\ WriterHdr(c) /\ WriterImage(c)
      /\ CurrentShown /\ BackfillBounded /\ \A d \in Conn : Own(d) /\ NoRecovery(d)
  BY KnownFacts, IInvByConn DEF CounterInv, ImageInv
<1>1. pc[c] \in {"write", "frames"}
  BY DEF Commit, InFrames
<1> DEFINE M == aHdr[0].mxFrame
           N == aHdr[0].nPage
           m == hdr[c].mxFrame
           l == hdr'[c].mxFrame
           n == hdr'[c].nPage
           img == pend'.img
           old == LastImage
<1>2. PICK w \in Writes : \E k \in Nat :
              /\ log' \in Seq(FrameRec) /\ Agree(log, log', m)
              /\ l = m + k /\ m + k <= Len(log') /\ n = w.size
              /\ img = Committed(w.pages, w.size)
              /\ \A p \in 1..w.size : Committed(w.pages, w.size)[p] # 0
              /\ \A i \in (m + 1)..(m + k) : log'[i].pgno \in w.pages /\ log'[i].val = txn
              /\ \A p \in w.pages : OwnFrame(c, p) = 0 => \E i \in (m + 1)..(m + k) : log'[i].pgno = p
  BY <1>0, CommitWrites
<1>3. PICK k \in Nat :
              /\ log' \in Seq(FrameRec) /\ Agree(log, log', m)
              /\ l = m + k /\ m + k <= Len(log') /\ n = w.size
              /\ img = Committed(w.pages, w.size)
              /\ \A p \in 1..w.size : Committed(w.pages, w.size)[p] # 0
              /\ \A i \in (m + 1)..(m + k) : log'[i].pgno \in w.pages /\ log'[i].val = txn
              /\ \A p \in w.pages : OwnFrame(c, p) = 0 => \E i \in (m + 1)..(m + k) : log'[i].pgno = p
  BY <1>2
<1>4. n \in Nat /\ n > 0
  <2>1. w \in [pages : (SUBSET (1..MaxPage)) \ {{}}, size : 1..MaxPage]
    BY <1>2, BoundAssumption
  <2>2. w.size \in 1..MaxPage
    BY <2>1
  <2> QED
    BY <1>3, <2>2, BoundAssumption
<1>5. M <= m /\ nBackfill <= M
  <2>1. m >= M
    BY <1>0, <1>1 DEF WriterHdr
  <2>2. nBackfill <= M
    <3>1. lockX[WAL_WRITE_LOCK] = c
      BY <1>0, <1>1, LocksOfData DEF WriterPCs, WritePCs
    <3>2. \A d \in Conn : pc[d] \notin {"restartBackfill", "restartAttempted", "recBackfill", "recAttempted"}
      BY <1>0, <1>1, <3>1, NoStores
    <3> QED
      BY <1>0, <3>2 DEF BackfillBounded
  <2> QED
    BY <1>0, <2>1, <2>2, HdrNumbers
<1>6. /\ \A p \in Page : work[p] = IF HasFrame(log, p, M + 1, m) THEN txn ELSE old[p]
      /\ \A i \in (M + 1)..m : log[i].val = txn
  BY <1>0, <1>1 DEF WriterImage, Writing, InWrite, WritePCs
<1>7. \A p : OwnFrame(c, p) = FrameIn(log, p, M + 1, m)
  BY DEF OwnFrame, FrameIn, LastFrame
<1>8. \A f \in 1..(nBackfill + 1) : Shows(db, log, f, M, N, old)
  BY <1>0 DEF CurrentShown
<1>9. /\ M \in Nat /\ N \in Nat /\ m \in Nat /\ nBackfill \in Nat /\ log \in Seq(FrameRec)
      /\ log' \in Seq(FrameRec) /\ Len(log') \in Nat /\ Len(log) \in Nat /\ l \in Nat /\ m <= l /\ M <= l
  <2>1. M \in Nat /\ N \in Nat /\ m \in Nat /\ nBackfill \in Nat /\ log \in Seq(FrameRec)
    BY <1>0, HdrNumbers DEF FileTypes
  <2>2. log' \in Seq(FrameRec) /\ l = m + k
    BY <1>3
  <2>3. l \in Nat /\ m <= l /\ M <= l
    BY <1>5, <2>1, <2>2
  <2> QED
    BY <2>1, <2>2, <2>3
<1>10. \A p \in Page : img[p] = IF p > n THEN 0 ELSE IF p \in w.pages THEN txn ELSE work[p]
  BY <1>3 DEF Committed
<1>11. \A p \in Page : p <= n => img[p] # 0
  BY <1>3, <1>4, BoundAssumption DEF Page
<1> HIDE DEF M, N, m, l, n, img, old
<1>12. \A i \in (M + 1)..l : log'[i].val = txn
  <2> TAKE i \in (M + 1)..l
  <2>1. CASE i <= m
    <3>1. i \in (M + 1)..m /\ i \in 1..m
      BY <1>9, <2>1
    <3> QED
      BY <1>3, <1>6, <3>1 DEF Agree
  <2>2. CASE ~(i <= m)
    <3>1. i \in (m + 1)..(m + k)
      BY <1>3, <1>9, <2>2
    <3> QED
      BY <1>3, <3>1
  <2> QED
    BY <2>1, <2>2
<1>13. ASSUME NEW p \in Page, p <= n, ~HasFrame(log', p, M + 1, l) PROVE img[p] = old[p]
  <2>0. M + 1 \in Int /\ m \in Int /\ l \in Int /\ m <= m /\ M + 1 <= M + 1
    BY <1>9
  <2>1. ~HasFrame(log, p, M + 1, m)
    <3>1. ~HasFrame(log', p, M + 1, m)
      BY <1>9, <1>13, <2>0, FrameWiden
    <3> QED
      BY <1>3, <1>9, <2>0, <3>1, FrameAgree
  <2>2. p \notin w.pages
    <3> SUFFICES ASSUME p \in w.pages PROVE FALSE
      OBVIOUS
    <3>1. OwnFrame(c, p) = 0
      BY <1>7, <1>9, <2>0, <2>1, FrameFacts
    <3>2. PICK i \in (m + 1)..(m + k) : log'[i].pgno = p
      BY <1>3, <3>1
    <3>3. i \in 1..Len(log') /\ M + 1 <= i /\ i <= l
      BY <1>3, <1>5, <1>9
    <3> QED
      BY <1>13, <3>2, <3>3 DEF HasFrame
  <2>3. ~(p > n)
    BY <1>4, <1>13, BoundAssumption DEF Page
  <2> QED
    BY <1>6, <1>10, <2>1, <2>2, <2>3
<1>14. ASSUME NEW p \in Page, HasFrame(log', p, M + 1, l), p <= n PROVE img[p] = txn
  <2>0. ~(p > n)
    BY <1>4, <1>14, BoundAssumption DEF Page
  <2>1. CASE p \in w.pages
    BY <1>10, <2>0, <2>1
  <2>2. CASE p \notin w.pages
    <3>0. M + 1 \in Int /\ m \in Int /\ m <= m
      BY <1>9
    <3>1. PICK i \in 1..Len(log') : M + 1 <= i /\ i <= l /\ log'[i].pgno = p
      BY <1>14 DEF HasFrame
    <3>2. i <= m
      <4>1. ~(i \in (m + 1)..(m + k))
        BY <1>3, <2>2, <3>1
      <4> QED
        BY <1>3, <1>9, <3>1, <4>1
    <3>3. HasFrame(log', p, M + 1, m)
      BY <3>1, <3>2 DEF HasFrame
    <3>4. HasFrame(log, p, M + 1, m)
      BY <1>3, <1>9, <3>0, <3>3, FrameAgree
    <3> QED
      BY <1>6, <1>10, <2>0, <2>2, <3>4
  <2> QED
    BY <2>1, <2>2
<1>15. ASSUME NEW p \in Page, p <= n, ~HasFrame(log', p, M + 1, l) PROVE N = 0 \/ p <= N
  <2>1. 1 \in 1..(nBackfill + 1)
    BY <1>9
  <2>2. ShowsPage(db, log, p, 1, M, N, old)
    BY <1>8, <2>1 DEF Shows
  <2>3. img[p] = old[p] /\ img[p] # 0
    BY <1>11, <1>13, <1>15
  <2> QED
    BY <2>2, <2>3 DEF ShowsPage
<1>16. ASSUME NEW f \in 1..(nBackfill + 1), NEW p \in Page
       PROVE  ShowsPage(db, log', p, f, l, n, img)
  <2>0. /\ f \in Int /\ f <= M + 1 /\ M + 1 \in Int /\ M \in Int /\ l \in Int /\ p \in Nat
        /\ M <= m
    BY <1>5, <1>9, BoundAssumption DEF Page
  <2>1. CASE p > n
    <3>1. ~(n = 0 \/ p <= n)
      BY <1>4, <2>0, <2>1
    <3> QED
      BY <1>10, <2>1, <3>1 DEF ShowsPage
  <2>2. CASE ~(p > n) /\ HasFrame(log', p, M + 1, l)
    <3>0. p <= n
      BY <1>4, <2>0, <2>2
    <3> DEFINE j == FrameIn(log', p, M + 1, l)
    <3>1. FrameIn(log', p, f, l) = j
      BY <1>9, <2>0, <2>2, FrameNarrow
    <3>2. j \in 1..Len(log') /\ j > 0 /\ M + 1 <= j /\ j <= l
      BY <1>9, <2>0, <2>2, FrameFacts
    <3> HIDE DEF j
    <3>3. j # 0 /\ log'[j].val = txn
      <4>1. j \in (M + 1)..l /\ j # 0
        BY <1>9, <3>2
      <4> QED
        BY <1>12, <4>1
    <3>4. img[p] = txn
      BY <1>14, <2>2, <3>0
    <3> QED
      BY <3>0, <3>1, <3>3, <3>4 DEF ShowsPage, Content
  <2>3. CASE ~(p > n) /\ ~HasFrame(log', p, M + 1, l)
    <3>0. p <= n
      BY <1>4, <2>0, <2>3
    <3>1. FrameIn(log', p, f, l) = FrameIn(log', p, f, M)
      BY <1>9, <2>0, <2>3, FrameShorten
    <3>2. Content(db, log', p, f, l) = Content(db, log', p, f, M)
      BY <3>1 DEF Content
    <3>3. Content(db, log', p, f, M) = Content(db, log, p, f, M)
      BY <1>3, <1>9, <2>0, ContentAgree
    <3>4. ShowsPage(db, log, p, f, M, N, old)
      BY <1>8 DEF Shows
    <3>5. (N = 0 \/ p <= N) /\ img[p] = old[p]
      BY <1>13, <1>15, <2>3, <3>0
    <3> QED
      BY <3>0, <3>2, <3>3, <3>4, <3>5 DEF ShowsPage
  <2> QED
    BY <2>1, <2>2, <2>3
<1>17. ASSUME N > 0, NEW p \in Page, N < p, p <= n PROVE HasFrame(log', p, M + 1, l)
  <2>1. ~(N = 0 \/ p <= N)
    BY <1>9, <1>17, BoundAssumption DEF Page
  <2> QED
    BY <1>15, <1>17, <2>1
<1>18. \A f \in 1..(nBackfill + 1) : Shows(db, log', f, l, n, img)
  BY <1>16 DEF Shows
<1> QED
  BY <1>4, <1>17, <1>18 DEF M, N, l, n, img

\* which is what it publishes.
LEMMA OwnPending ==
    ASSUME IInv, VersionInv, CounterInv, ImageInv, NEW c \in Conn, Step(c)
    PROVE  PendingImage(c)'
<1>0. ShmTypes /\ Arrives(c) /\ PendingImage(c)
  BY ImageFacts
<1>1. CASE Commit(c)
  <2>1. UNCHANGED <<db, aHdr, nBackfill>>
    BY <1>1 DEF Commit, shmVars, infoVars
  <2> QED
    BY <1>1, <2>1, CommitImage DEF PendingImage
<1>2. CASE Publish1(c)
  <2>1. UNCHANGED <<db, log, nBackfill, hdr, pend>> /\ pc[c] = "publish1" /\ aHdr'[0] = aHdr[0]
    BY <1>0, <1>2 DEF Publish1, fileVars, infoVars, hdrVars, commitVars, ShmTypes
  <2> QED
    BY <1>0, <2>1 DEF PendingImage
<1> QED
  BY <1>0, <1>1, <1>2 DEF Arrives, PendingImage

\* A checkpoint that runs in the meantime changes nothing of it.
LEMMA OthersPending ==
    ASSUME IInv, VersionInv, CounterInv, ImageInv, NEW c \in Conn, Step(c), NEW d \in Conn \ {c}
    PROVE  PendingImage(d)'
<1>0. /\ FileTypes /\ ShmTypes /\ ControlTypes /\ HdrTypes /\ ReadTypes /\ CkptTypes /\ HistTypes
      /\ LogCoversHdr /\ Changes(c) /\ Own(c) /\ Own(d) /\ Kept(c, d) /\ CopyInv(c) /\ CkptRange(c) /\ CopyImage(c)
      /\ WriterHdr(d) /\ SizeKnown /\ PendingImage(d)
  BY ImageFacts
<1>1. pc'[d] = pc[d] /\ hdr'[d] = hdr[d]
  BY <1>0 DEF Kept
<1> SUFFICES ASSUME pc[d] \in {"publish1", "publish0"} PROVE PendingImage(d)'
  BY <1>1 DEF PendingImage
<1>2. lockX[WAL_WRITE_LOCK] = d /\ d # c
  BY <1>0, LocksOfData DEF WriterPCs, WritePCs
<1>3. aHdr' = aHdr /\ log' = log
  BY <1>0, <1>2, HdrStoreStep, LogStep
<1>4. pc[c] \notin WritePCs \cup RestartPCs
  BY <1>0, <1>2, LocksOfData DEF WriterPCs
<1>5. pend' = pend /\ (nBackfill' = nBackfill \/ CkptDone(c))
  <2>1. pc[c] \notin {"frames", "write", "restartBackfill", "restartAttempted"}
    BY <1>4 DEF WritePCs, RestartPCs
  <2>2. ~Spill(c) /\ ~Commit(c) /\ ~RestartBackfill(c)
    BY <2>1 DEF Spill, Commit, InFrames, RestartBackfill
  <2> QED
    BY <1>0, <1>4, <2>2 DEF Changes, RestartPCs
<1> DEFINE M == aHdr[0].mxFrame
           N == aHdr[0].nPage
           l == hdr[d].mxFrame
           n == hdr[d].nPage
<1>6. /\ \A f \in 1..(nBackfill + 1) : Shows(db, log, f, l, n, pend.img)
      /\ n > 0
      /\ N > 0 => \A p \in Page : N < p /\ p <= n => HasFrame(log, p, M + 1, l)
  BY <1>0 DEF PendingImage
<1>7. /\ M \in Nat /\ N \in Nat /\ l \in Nat /\ n \in Nat /\ nBackfill \in Nat /\ log \in Seq(FrameRec)
      /\ hdr[c].mxFrame \in Nat /\ hdr[c].nPage \in Nat /\ mxSafeFrame[c] \in Nat /\ Len(log) \in Nat
  BY <1>0, HdrNumbers, Numbers
<1>8. M < l /\ l <= Len(log)
  BY <1>0, <1>7 DEF WriterHdr, LogCoversHdr, OwnHdr, InWrite, WritePCs
<1>9. pc[c] \in CopyPCs =>
          nBackfill < hdr[c].mxFrame /\ hdr[c].mxFrame <= M /\ mxSafeFrame[c] <= hdr[c].mxFrame /\ N > 0
  BY <1>0, CopyHasSize DEF CkptRange
<1>10. CkptDone(c) \/ CkptCopy(c) \/ CkptTruncateDb(c) => pc[c] \in CopyPCs
  BY DEF CkptDone, CkptCopy, CkptTruncateDb, CopyPCs
<1>11. \A p \in Page : p \in Nat
  BY BoundAssumption DEF Page
<1>12. ASSUME NEW f \in 1..(nBackfill' + 1) PROVE Shows(db', log', f, l, n, pend'.img)
  <2>1. CASE CkptDone(c)
    <3>1. db' = db /\ nBackfill' = mxSafeFrame[c]
      BY <2>1 DEF CkptDone, fileVars
    <3>2. ASSUME NEW p \in Page, p <= n
          PROVE  p <= hdr[c].nPage \/ HasFrame(log, p, hdr[c].mxFrame + 1, l)
      <4>0. /\ hdr[c].mxFrame + 1 \in Int /\ l \in Int /\ M \in Int /\ M <= l /\ M + 1 \in Int
            /\ hdr[c].mxFrame + 1 <= M + 1 /\ hdr[c].mxFrame + 1 <= hdr[c].mxFrame + 1 /\ l <= l
        <5> DEFINE k == hdr[c].mxFrame
        <5>1. k \in Nat /\ l \in Nat /\ M \in Nat /\ M < l
          BY <1>7, <1>8
        <5>2. k <= M
          BY <1>9, <1>10, <2>1
        <5> HIDE DEF k, l, M
        <5>3. /\ k + 1 \in Int /\ l \in Int /\ M \in Int /\ M <= l /\ M + 1 \in Int
              /\ k + 1 <= M + 1 /\ k + 1 <= k + 1 /\ l <= l
          BY <5>1, <5>2
        <5> QED
          BY <5>3 DEF k
      <4>1. CASE p <= N
        <5>1. p <= hdr[c].nPage \/ HasFrame(log, p, hdr[c].mxFrame + 1, M)
          BY <1>0, <1>10, <2>1, <4>1, GrownPages
        <5> QED
          BY <1>7, <4>0, <5>1, FrameWiden
      <4>2. CASE ~(p <= N)
        <5>1. HasFrame(log, p, M + 1, l)
          BY <1>6, <1>7, <1>9, <1>10, <1>11, <2>1, <3>2, <4>2
        <5> QED
          BY <1>7, <4>0, <5>1, FrameWiden
      <4> QED
        BY <4>1, <4>2
    <3>3. hdr[c].mxFrame <= l
      BY <1>7, <1>8, <1>9, <1>10, <2>1
    <3>4. f \in 1..(mxSafeFrame[c] + 1)
      BY <3>1
    <3> HIDE DEF l, n
    <3>5. l \in Nat /\ n \in Nat /\ n > 0
      BY <1>6, <1>7
    <3>6. Shows(db, log, f, l, n, pend.img)
      BY <1>0, <1>6, <2>1, <3>2, <3>3, <3>4, <3>5, DoneShows
    <3> QED
      BY <1>3, <1>5, <3>1, <3>6
  <2>2. CASE nBackfill' = nBackfill
    <3>1. f \in 1..(nBackfill + 1)
      BY <2>2
    <3>2. Shows(db, log, f, l, n, pend.img)
      BY <1>6, <3>1
    <3>3. f \in Nat /\ f <= nBackfill + 1
      BY <1>7, <3>1
    <3>4. log' \in Seq(FrameRec) /\ Agree(log, log', l)
      BY <1>3, <1>7, <1>8 DEF Agree
    <3>5. CkptCopy(c) => mxSafeFrame[c] <= l
      BY <1>7, <1>8, <1>9, <1>10
    <3>6. ASSUME CkptTruncateDb(c), NEW p \in Page, p > N
          PROVE  (n > 0 /\ p > n) \/ HasFrame(log, p, f, l)
      <4>1. CASE p <= n
        <5>1. HasFrame(log, p, M + 1, l)
          BY <1>6, <1>7, <1>9, <1>10, <1>11, <3>6, <4>1
        <5>2. f <= M + 1 /\ f \in Int /\ M + 1 \in Int /\ l \in Int /\ l <= l
          BY <1>7, <1>9, <1>10, <3>3, <3>6
        <5> QED
          BY <1>7, <5>1, <5>2, FrameWiden
      <4>2. CASE ~(p <= n)
        BY <1>6, <1>7, <1>11, <4>2
      <4> QED
        BY <4>1, <4>2
    <3>7. CkptTruncateDb(c) /\ mxSafeFrame[c] = aHdr[0].mxFrame /\ aHdr[0].nPage > 0 =>
              \A p \in Page : p > aHdr[0].nPage => (n > 0 /\ p > n) \/ HasFrame(log, p, f, l)
      BY <3>6
    <3> HIDE DEF l, n
    <3>8. l \in Nat /\ n \in Nat
      BY <1>7
    <3>9. Shows(db', log', f, l, n, pend.img)
      BY <1>0, <3>2, <3>3, <3>4, <3>5, <3>7, <3>8, ShownKept
    <3> QED
      BY <1>5, <3>9
  <2> QED
    BY <1>5, <2>1, <2>2
<1> QED
  BY <1>1, <1>3, <1>6, <1>12 DEF PendingImage

(***************************************************************************)
(* The invariant                                                           *)
(***************************************************************************)
\* A step of a connection keeps the images.
LEMMA ImageStep ==
    ASSUME IInv, VersionInv, CounterInv, ImageInv, NEW c \in Conn, Step(c), CounterInv'
    PROVE  ImageInv'
<1>1. CurrentShown' /\ SizeKnown'
  BY CurrentStep, SizeStep
<1>2. CopyImage(c)' /\ MarkInv(c)' /\ ReaderImage(c)' /\ WriterImage(c)' /\ PendingImage(c)'
  BY OwnCopy, OwnMark, OwnReader, OwnWriter, OwnPending
<1>3. ASSUME NEW d \in Conn \ {c}
      PROVE  CopyImage(d)' /\ MarkInv(d)' /\ ReaderImage(d)' /\ WriterImage(d)' /\ PendingImage(d)'
  BY OthersCopy, OthersMark, OthersReader, OthersWriter, OthersPending
<1>4. \A d \in Conn : CopyImage(d)' /\ MarkInv(d)' /\ ReaderImage(d)' /\ WriterImage(d)' /\ PendingImage(d)'
  BY <1>2, <1>3
<1>5. \A e, d \in Conn : Limited(e, d)'
  BY LimitStep
<1> QED
  BY <1>1, <1>4, <1>5 DEF ImageInv

\* ImageInv, as long as no process has been killed.
ImagesUntilCrash == ~CkptPreempt /\ nCrash = 0 => ImageInv

\* It holds at first,
LEMMA ImageInit == Init => ImagesUntilCrash
<1> SUFFICES ASSUME Init PROVE ImageInv
  BY DEF ImagesUntilCrash
<1>1. /\ nBackfill = 0 /\ aHdr[0].mxFrame = 0 /\ aHdr[0].nPage = 0 /\ log = <<>>
      /\ hist = <<[txn |-> 1, img |-> db]>>
      /\ \A c \in Conn : pc[c] = "idle" /\ readLock[c] = -1 /\ todo[c] = {}
  BY DEF Init, ZeroHdr
<1>2. LastImage = db
  <2>1. Len(hist) = 1 /\ hist[1] = [txn |-> 1, img |-> db]
    BY <1>1
  <2> QED
    BY <2>1 DEF LastImage
<1>3. log \in Seq(FrameRec)
  BY <1>1
<1>4. CurrentShown
  <2>1. ASSUME NEW f \in 1..(0 + 1), NEW p \in Page PROVE ShowsPage(db, log, p, f, 0, 0, db)
    <3>1. f \in Int /\ 0 < f
      OBVIOUS
    <3>2. Content(db, log, p, f, 0) = db[p]
      BY <1>3, <3>1, EmptyContent
    <3> QED
      BY <3>2 DEF ShowsPage
  <2> QED
    BY <1>1, <1>2, <2>1 DEF CurrentShown, Shows
<1>5. SizeKnown
  BY <1>1 DEF SizeKnown
<1>6. ASSUME NEW c \in Conn
      PROVE  CopyImage(c) /\ MarkInv(c) /\ ReaderImage(c) /\ WriterImage(c) /\ PendingImage(c)
  BY <1>1 DEF CopyImage, CopyPCs, MarkInv, TryPCs, ReaderImage, WriterImage, Writing, InWrite, WritePCs,
     RestartPCs, PendingImage
<1>7. ASSUME NEW c \in Conn, NEW d \in Conn PROVE Limited(c, d)
  BY <1>1 DEF Limited, CopyPCs
<1> QED
  BY <1>4, <1>5, <1>6, <1>7 DEF ImageInv

\* and is kept by every step.
LEMMA ImageNext ==
    ASSUME IInv, VersionsUntilCrash, CountersUntilCrash, CountersUntilCrash', ImagesUntilCrash, [Next]_vars
    PROVE  ImagesUntilCrash'
<1> SUFFICES ASSUME ~CkptPreempt, nCrash' = 0 PROVE ImageInv'
  BY DEF ImagesUntilCrash
<1>n. nCrash \in Nat
  BY BoundAssumption DEF IInv, TypeOK, HistTypes
<1>1. ASSUME NEW c \in Conn, Step(c) PROVE ImageInv'
  <2>1. nCrash' = nCrash
    BY <1>1, CrashCount
  <2>2. VersionInv /\ CounterInv /\ CounterInv' /\ ImageInv
    BY <2>1 DEF VersionsUntilCrash, CountersUntilCrash, ImagesUntilCrash
  <2> QED
    BY <1>1, <2>2, ImageStep
<1>2. ASSUME NEW c \in Conn, Crash(c) PROVE FALSE
  BY <1>2, <1>n DEF Crash
<1>3. CASE CrashAll
  BY <1>3, <1>n DEF CrashAll
<1>4. CASE UNCHANGED vars
  <2>1. ImageInv
    BY <1>4 DEF ImagesUntilCrash, vars
  <2>2. UNCHANGED <<db, log, aHdr, nBackfill, aReadMark, lockX, pc, hdr, readLock, minFrame, mxReadMark,
                    eMode, iMark, y, mxSafeFrame, todo, txn, hist, snap, work, pend>>
    BY <1>4 DEF vars, fileVars, shmVars, infoVars, lockVars, hdrVars, readVars, ckptVars, commitVars,
       viewVars
  <2>3. CurrentShown' /\ SizeKnown'
    BY <2>1, <2>2 DEF ImageInv, CurrentShown, LastImage, SizeKnown
  <2>4. ASSUME NEW c \in Conn PROVE CopyImage(c)' /\ MarkInv(c)'
    BY <2>1, <2>2 DEF ImageInv, CopyImage, OlderHdr, Grown, MarkInv
  <2>5. ASSUME NEW c \in Conn PROVE ReaderImage(c)' /\ WriterImage(c)' /\ PendingImage(c)'
    BY <2>1, <2>2 DEF ImageInv, ReaderImage, OlderHdr, WriterImage, Writing, InWrite, LastImage,
       PendingImage
  <2>6. ASSUME NEW c \in Conn, NEW d \in Conn PROVE Limited(c, d)'
    BY <2>1, <2>2 DEF ImageInv, Limited
  <2> QED
    BY <2>3, <2>4, <2>5, <2>6 DEF ImageInv
<1> QED
  BY <1>1, <1>2, <1>3, <1>4 DEF Next, Step

\* Until a process is killed, the log and the database show the versions
\* that readers, writers and checkpointers count on.
THEOREM ImageInvariant == Spec => []ImagesUntilCrash
<1> QED
  BY ImageInit, ImageNext, InductiveInvariant, VersionInvariant, CounterInvariant, PTL DEF Spec


(***************************************************************************)
(* Theorems                                                                *)
(***************************************************************************)
\* The database ends with its last page.
LEMMA DbEnds ==
    ASSUME FileTypes
    PROVE  SizeOf(db) \in 0..MaxPage /\ \A p \in Page : p > SizeOf(db) => db[p] = 0
<1> DEFINE S == {p \in Page : db[p] # 0}
<1>1. SizeOf(db) = Top(S) /\ S \in SUBSET (0..MaxPage) /\ MaxPage \in Nat
  BY BoundAssumption DEF SizeOf, Page
<1>2. CASE S = {}
  <2>1. Top(S) = 0
    BY <1>2 DEF Top
  <2> QED
    BY <1>1, <1>2, <2>1
<1>3. CASE S # {}
  <2>1. Top(S) \in S /\ \A i \in S : i <= Top(S)
    <3> HIDE DEF S
    <3> QED
      BY <1>1, <1>3, TopIsMember
  <2>2. ASSUME NEW p \in Page, p > Top(S) PROVE p \notin S
    <3>1. p \in Nat /\ Top(S) \in Nat
      BY <1>1, <2>1, BoundAssumption DEF Page
    <3> QED
      BY <2>1, <2>2, <3>1
  <2>3. Top(S) \in 0..MaxPage
    BY <1>1, <2>1
  <2> QED
    BY <1>1, <2>2, <2>3
<1> QED
  BY <1>2, <1>3

\* What is shown is what is read.
LEMMA ShownIsImage ==
    ASSUME FileTypes, NEW f \in Nat, NEW l \in Nat, f >= 1, NEW n \in Nat, n = 0 => l = 0,
           NEW img \in Image, Shows(db, log, f, l, n, img)
    PROVE  ImageOf(f, l, IF n = 0 THEN SizeOf(db) ELSE n) = img
<1> DEFINE size == IF n = 0 THEN SizeOf(db) ELSE n
<1>0. log \in Seq(FrameRec)
  BY DEF FileTypes
<1>1. ImageOf(f, l, size) = [p \in Page |-> IF p > size THEN 0 ELSE Content(db, log, p, f, l)]
  BY DEF ImageOf, Content, FrameIn, LastFrame
<1>2. ASSUME NEW p \in Page
      PROVE  (IF p > size THEN 0 ELSE Content(db, log, p, f, l)) = img[p]
  <2>0. ShowsPage(db, log, p, f, l, n, img) /\ p \in Nat
    BY BoundAssumption DEF Shows, Page
  <2>1. CASE n = 0
    <3>1. Content(db, log, p, f, l) = img[p]
      BY <2>0, <2>1 DEF ShowsPage
    <3>2. Content(db, log, p, f, l) = db[p]
      <4>1. l < f
        BY <2>1
      <4> QED
        BY <1>0, <4>1, EmptyContent
    <3>3. p > size => db[p] = 0
      BY <2>1, DbEnds
    <3> QED
      BY <3>1, <3>2, <3>3
  <2>2. CASE n # 0
    <3>1. size = n
      BY <2>2
    <3>2. CASE p > n
      <4>1. ~(n = 0 \/ p <= n)
        BY <2>0, <2>2, <3>2
      <4> QED
        BY <2>0, <3>1, <3>2, <4>1 DEF ShowsPage
    <3>3. CASE ~(p > n)
      <4>1. p <= n
        BY <2>0, <3>3
      <4> QED
        BY <2>0, <3>1, <3>3, <4>1 DEF ShowsPage
    <3> QED
      BY <3>2, <3>3
  <2> QED
    BY <2>1, <2>2
<1> HIDE DEF size
<1>3. img = [p \in Page |-> img[p]]
  BY DEF Image
<1>4. ImageOf(f, l, size) = img
  BY <1>1, <1>2, <1>3
<1> QED
  BY <1>4 DEF size

\* A connection reads what its header shows.
LEMMA ShownIsRead ==
    ASSUME FileTypes, HdrTypes, NEW c \in Conn, NEW f \in Nat, NEW l \in Nat, f >= 1,
           hdr[c].nPage = 0 => l = 0, NEW img \in Image, Shows(db, log, f, l, hdr[c].nPage, img)
    PROVE  ImageOf(f, l, DbSize(c)) = img
<1>1. hdr[c].nPage \in Nat
  BY BoundAssumption DEF HdrTypes, Header
<1>2. ImageOf(f, l, IF hdr[c].nPage = 0 THEN SizeOf(db) ELSE hdr[c].nPage) = img
  BY <1>1, ShownIsImage
<1> QED
  BY <1>2 DEF DbSize

\* A reader reads the version it began with,
LEMMA ReaderReads ==
    ASSUME IInv, VersionInv, CounterInv, ImageInv, NEW c \in Conn, pc[c] \in {"read", "writeCheck"}
    PROVE  ReadImage(c) = hist[snap[c]].img
<1>0. /\ FileTypes /\ ShmTypes /\ HdrTypes /\ ReadTypes /\ CkptTypes /\ HistTypes /\ TxnInv(c)
      /\ SlotControl(c) /\ MarkInv(c) /\ ReaderImage(c)
  BY KnownFacts DEF CounterInv, ImageInv
<1>n. /\ minFrame[c] \in Nat /\ readLock[c] \in Int /\ hdr[c].mxFrame \in Nat /\ hdr[c].nPage \in Nat
  BY <1>0, HdrNumbers, Numbers
<1>1. hist[snap[c]].img \in Image
  <2>1. snap[c] \in 1..Len(hist)
    BY <1>0 DEF TxnInv, InWrite, WritePCs, HistTypes
  <2>2. hist[snap[c]] \in Version
    BY <1>0, <2>1 DEF HistTypes
  <2> QED
    BY <2>2 DEF Version
<1>2. readLock[c] = 0 \/ readLock[c] > 0
  BY <1>0, <1>n DEF SlotControl, WritePCs
<1>3. CASE readLock[c] = 0
  <2>1. Shows(db, log, 1, 0, hdr[c].nPage, hist[snap[c]].img)
    BY <1>0, <1>3 DEF ReaderImage
  <2>2. ImageOf(1, 0, DbSize(c)) = hist[snap[c]].img
    BY <1>0, <1>1, <2>1, ShownIsRead
  <2> QED
    BY <1>3, <2>2 DEF ReadImage
<1>4. CASE readLock[c] > 0
  <2>1. /\ Shows(db, log, minFrame[c], hdr[c].mxFrame, hdr[c].nPage, hist[snap[c]].img)
        /\ OlderHdr(hdr[c])
    BY <1>0, <1>4 DEF ReaderImage
  <2>2. minFrame[c] >= 1
    BY <1>0, <1>n, <1>4 DEF MarkInv
  <2>3. hdr[c].nPage = 0 => hdr[c].mxFrame = 0
    BY <1>n, <2>1 DEF OlderHdr
  <2>4. ImageOf(minFrame[c], hdr[c].mxFrame, DbSize(c)) = hist[snap[c]].img
    BY <1>0, <1>n, <1>1, <2>1, <2>2, <2>3, ShownIsRead
  <2>5. readLock[c] # 0
    BY <1>n, <1>4
  <2> QED
    BY <2>4, <2>5 DEF ReadImage
<1> QED
  BY <1>2, <1>3, <1>4

\* and a writer the last one with its own pages.
LEMMA WriterReads ==
    ASSUME IInv, VersionInv, CounterInv, ImageInv, NEW c \in Conn, pc[c] \in {"write", "frames"},
           NEW p \in 1..DbSize(c)
    PROVE  ReadImage(c)[p] = work[p]
<1>0. /\ FileTypes /\ ShmTypes /\ HdrTypes /\ ReadTypes /\ CkptTypes /\ HistTypes
      /\ SlotControl(c) /\ WriterHdr(c) /\ AllCopied(c) /\ MarkInv(c) /\ WriterImage(c)
      /\ CurrentShown /\ BackfillBounded /\ \A d \in Conn : Own(d) /\ NoRecovery(d)
  BY KnownFacts DEF CounterInv, ImageInv
<1> DEFINE M == aHdr[0].mxFrame
           N == aHdr[0].nPage
           m == hdr[c].mxFrame
           f == minFrame[c]
<1>n. /\ nBackfill \in Nat /\ M \in Nat /\ N \in Nat /\ m \in Nat /\ f \in Nat /\ readLock[c] \in Int
      /\ log \in Seq(FrameRec)
  BY <1>0, HdrNumbers, Numbers
<1>1. m >= M /\ hdr[c].nPage = N
  BY <1>0 DEF WriterHdr
<1>2. DbSize(c) \in 0..MaxPage /\ (N # 0 => DbSize(c) = N)
  <2>1. hdr[c].nPage \in 0..MaxPage
    BY <1>0 DEF HdrTypes, Header
  <2> QED
    BY <1>0, <1>1, <2>1, DbEnds DEF DbSize
<1>3. p \in Page /\ (N = 0 \/ p <= N) /\ ~(p > DbSize(c))
  <2>1. MaxPage \in Nat /\ DbSize(c) \in Nat
    BY <1>2, BoundAssumption
  <2>2. p \in Nat /\ p <= DbSize(c) /\ 1 <= p
    BY <2>1
  <2>3. p \in Page /\ ~(p > DbSize(c))
    BY <1>2, <2>1, <2>2 DEF Page
  <2> QED
    BY <1>2, <2>2, <2>3
<1>4. \A a, b : ImageOf(a, b, DbSize(c))[p] = Content(db, log, p, a, b)
  BY <1>3 DEF ImageOf, Content, FrameIn, LastFrame
<1>5. /\ work[p] = IF HasFrame(log, p, M + 1, m) THEN txn ELSE LastImage[p]
      /\ \A i \in (M + 1)..m : log[i].val = txn
  BY <1>0, <1>3 DEF WriterImage, Writing, InWrite, WritePCs
<1>6. \A g \in 1..(nBackfill + 1) : Content(db, log, p, g, M) = LastImage[p]
  BY <1>0, <1>3 DEF CurrentShown, Shows, ShowsPage
<1>7. readLock[c] = 0 \/ readLock[c] > 0
  BY <1>0, <1>n DEF SlotControl, WritePCs
<1>8. CASE readLock[c] = 0
  <2>1. pc[c] = "write"
    BY <1>0, <1>8 DEF SlotControl
  <2>2. hdr[c] = aHdr[0] /\ nBackfill = M
    BY <1>0, <1>8, <2>1 DEF WriterHdr, AllCopied
  <2>3. ReadImage(c)[p] = Content(db, log, p, 1, 0)
    BY <1>4, <1>8 DEF ReadImage
  <2>4. Content(db, log, p, 1, 0) = db[p]
    BY <1>n, EmptyContent
  <2>5. /\ nBackfill + 1 \in 1..(nBackfill + 1) /\ nBackfill + 1 \in Int /\ M < nBackfill + 1
        /\ M + 1 \in Int /\ m \in Int /\ m < M + 1
    BY <1>n, <2>2
  <2>6. Content(db, log, p, nBackfill + 1, M) = db[p]
    BY <1>n, <2>5, EmptyContent
  <2>7. Content(db, log, p, nBackfill + 1, M) = LastImage[p]
    BY <1>6, <2>5
  <2>8. ~HasFrame(log, p, M + 1, m)
    BY <1>n, <2>5, FrameEmpty
  <2> QED
    BY <1>5, <2>3, <2>4, <2>6, <2>7, <2>8
<1>9. CASE readLock[c] > 0
  <2>1. ReadImage(c)[p] = Content(db, log, p, f, m)
    <3>1. readLock[c] # 0
      BY <1>n, <1>9
    <3> QED
      BY <1>4, <3>1 DEF ReadImage
  <2>2. nBackfill <= M
    <3>1. lockX[WAL_WRITE_LOCK] = c
      BY <1>0, LocksOfData DEF WriterPCs, WritePCs
    <3>2. \A d \in Conn : pc[d] \notin {"restartBackfill", "restartAttempted", "recBackfill", "recAttempted"}
      BY <1>0, <3>1, NoStores
    <3> QED
      BY <1>0, <3>2 DEF BackfillBounded
  <2>3. f \in 1..(nBackfill + 1)
    BY <1>0, <1>n, <1>9 DEF MarkInv
  <2> HIDE DEF M, N, m, f
  <2>4. f \in Int /\ M + 1 \in Int /\ m \in Int /\ M \in Int /\ f <= M + 1 /\ M <= m
    BY <1>n, <1>1, <2>2, <2>3
  <2>5. CASE HasFrame(log, p, M + 1, m)
    <3> DEFINE g == M + 1
               j == FrameIn(log, p, M + 1, m)
    <3>1. FrameIn(log, p, f, m) = j
      <4>1. g \in Int /\ f <= g /\ HasFrame(log, p, g, m)
        BY <2>4, <2>5
      <4> HIDE DEF g
      <4>2. FrameIn(log, p, f, m) = FrameIn(log, p, g, m)
        BY <1>n, <1>3, <2>4, <4>1, NarrowLog
      <4> QED
        BY <4>2 DEF g
    <3>2. j \in 1..Len(log) /\ j > 0 /\ M + 1 <= j /\ j <= m
      BY <1>n, <2>4, <2>5, FrameFacts
    <3> HIDE DEF j
    <3>3. j # 0 /\ j \in (M + 1)..m
      BY <1>n, <3>2
    <3>4. log[j].val = txn
      BY <1>5, <3>3
    <3> QED
      BY <1>5, <2>1, <2>5, <3>1, <3>3, <3>4 DEF Content
  <2>6. CASE ~HasFrame(log, p, M + 1, m)
    <3>1. FrameIn(log, p, f, m) = FrameIn(log, p, f, M)
      BY <1>n, <2>4, <2>6, FrameShorten
    <3>2. Content(db, log, p, f, m) = Content(db, log, p, f, M)
      BY <3>1 DEF Content
    <3> QED
      BY <1>5, <1>6, <2>1, <2>3, <2>6, <3>2
  <2> QED
    BY <2>5, <2>6
<1> QED
  BY <1>7, <1>8, <1>9

\* A transaction reads the database as it was when it began, through every
\* commit, checkpoint and restart of the log by the others, and a writer
\* reads its own pages (sqlite3WalFindFrame with the slot and the minFrame of
\* walTryBeginRead): until a process is killed, and if nobody restarts the
\* log between a checkpointer's read of the header and its load of nBackfill.
THEOREM SnapshotIsolationUntilCrash == Spec => [](~CkptPreempt /\ nCrash = 0 => SnapshotIsolation)
<1>1. IInv /\ VersionsUntilCrash /\ CountersUntilCrash /\ ImagesUntilCrash =>
          (~CkptPreempt /\ nCrash = 0 => SnapshotIsolation)
  BY ReaderReads, WriterReads DEF VersionsUntilCrash, CountersUntilCrash, ImagesUntilCrash, SnapshotIsolation
<1> QED
  BY <1>1, InductiveInvariant, VersionInvariant, CounterInvariant, ImageInvariant, PTL
=============================================================================
