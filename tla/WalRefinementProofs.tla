------------------------ MODULE WalRefinementProofs -------------------------
(***************************************************************************)
(* Until a process is killed, and unless a checkpointer is overtaken       *)
(* between the header and nBackfill: the two files alone, without the      *)
(* shared memory, hold the last commit whenever that death comes, and      *)
(* every step until then is one of the atomic store of WalAbstract.        *)
(***************************************************************************)
EXTENDS WalSnapshotProofs, WalRefinement

USE DEF WAL_WRITE_LOCK, WAL_CKPT_LOCK, WAL_RECOVER_LOCK, WAL_READ_LOCK, RetryFrom

(***************************************************************************)
(* The log as recovery reads it                                            *)
(***************************************************************************)
\* Frames of a valid chain stay one where they are kept,
LEMMA ChainKept ==
    ASSUME NEW a \in Seq(FrameRec), NEW b \in Seq(FrameRec), NEW m \in Nat, Agree(a, b, m), NEW s,
           ChainTo(a, s, m)
    PROVE  ChainTo(b, s, m)
<1> SUFFICES ASSUME NEW i \in 1..m
             PROVE  b[i].aSalt = s /\ b[i].prev = IF i = 1 THEN 0 ELSE b[i - 1].val
  BY DEF ChainTo
<1>1. a[i].aSalt = s /\ a[i].prev = IF i = 1 THEN 0 ELSE a[i - 1].val
  BY DEF ChainTo
<1>2. b[i] = a[i] /\ (i # 1 => b[i - 1] = a[i - 1])
  <2>1. i # 1 => i - 1 \in 1..m
    OBVIOUS
  <2> QED
    BY <2>1 DEF Agree
<1> QED
  BY <1>1, <1>2

\* and are continued by the frames of a transaction, behind checksum x.
Continues(b, m, k, s, t, x) ==
    \A i \in (m + 1)..(m + k) : /\ b[i].aSalt = s /\ b[i].val = t
                                /\ b[i].prev = IF i = m + 1 THEN x ELSE t

LEMMA ChainExtends ==
    ASSUME NEW a \in Seq(FrameRec), NEW b \in Seq(FrameRec), NEW m \in Nat, Agree(a, b, m), NEW s,
           ChainTo(a, s, m), NEW k \in Nat, NEW t, NEW x, x = IF m = 0 THEN 0 ELSE a[m].val,
           Continues(b, m, k, s, t, x)
    PROVE  ChainTo(b, s, m + k)
<1> USE DEF Continues
<1>1. ChainTo(b, s, m)
  BY ChainKept
<1>2. ASSUME NEW i \in 1..(m + k)
      PROVE  b[i].aSalt = s /\ b[i].prev = IF i = 1 THEN 0 ELSE b[i - 1].val
  <2>1. CASE i \in 1..m
    BY <1>1, <2>1 DEF ChainTo
  <2>2. CASE i = m + 1
    <3>1. i \in (m + 1)..(m + k)
      BY <2>2
    <3>2. b[i].aSalt = s /\ b[i].prev = x
      BY <2>2, <3>1
    <3>3. CASE m = 0
      BY <2>2, <3>2, <3>3
    <3>4. CASE m # 0
      <4>1. i # 1 /\ i - 1 = m /\ m \in 1..m
        BY <2>2, <3>4
      <4>2. b[m] = a[m]
        BY <4>1 DEF Agree
      <4> QED
        BY <3>2, <3>4, <4>1, <4>2
    <3> QED
      BY <3>3, <3>4
  <2>3. CASE i \notin 1..m /\ i # m + 1
    <3>1. i \in (m + 1)..(m + k) /\ i - 1 \in (m + 1)..(m + k) /\ i # 1
      BY <2>3
    <3>2. b[i].aSalt = s /\ b[i].prev = t /\ b[i - 1].val = t
      BY <2>3, <3>1
    <3> QED
      BY <3>1, <3>2
  <2> QED
    BY <2>1, <2>2, <2>3
<1> QED
  BY <1>2 DEF ChainTo

\* The scan of walIndexRecover ends with the last commit.
LEMMA RecoveredIs ==
    ASSUME FileTypes, NEW m \in 0..Len(log), ChainTo(log, logHdr.aSalt, m),
           m > 0 => log[m].nTruncate # 0, NoCommitBehind(log, logHdr.aSalt, m)
    PROVE  RecoveredFrame = m
<1> DEFINE S == {n \in 1..Len(log) : log[n].nTruncate # 0 /\ \A i \in 1..n : walDecodeFrame(i)}
<1>0. Len(log) \in Nat /\ S \in SUBSET (0..Len(log)) /\ RecoveredFrame = Top(S)
  BY DEF FileTypes, RecoveredFrame
<1>1. ASSUME NEW n \in S PROVE n <= m
  <2>1. n \in 1..Len(log) /\ log[n].nTruncate # 0 /\ \A i \in 1..n : walDecodeFrame(i)
    OBVIOUS
  <2>2. n \in 1..n
    BY <2>1
  <2>3. log[n].aSalt = logHdr.aSalt
    BY <2>1, <2>2 DEF walDecodeFrame
  <2>4. ~ (n > m)
    BY <2>1, <2>3 DEF NoCommitBehind
  <2> QED
    BY <1>0, <2>1, <2>4
<1>2. m > 0 => m \in S
  <2> SUFFICES ASSUME m > 0 PROVE m \in S
    OBVIOUS
  <2>1. m \in 1..Len(log)
    BY <1>0
  <2>2. \A i \in 1..m : walDecodeFrame(i)
    BY DEF ChainTo, walDecodeFrame
  <2> QED
    BY <2>1, <2>2
<1> HIDE DEF S
<1>3. CASE S = {}
  <2>1. Top(S) = 0
    BY <1>3 DEF Top
  <2> QED
    BY <1>0, <1>2, <1>3, <2>1
<1>4. CASE S # {}
  <2>1. Top(S) \in S /\ \A i \in S : i <= Top(S)
    BY <1>0, <1>4, TopIsMember
  <2>2. Top(S) <= m /\ Top(S) \in 0..Len(log)
    BY <1>0, <1>1, <2>1
  <2>3. m > 0 => m <= Top(S)
    BY <1>2, <2>1
  <2> QED
    BY <1>0, <2>2, <2>3
<1> QED
  BY <1>3, <1>4

\* An image of a known size that is shown from the first frame on is read.
LEMMA ShownFromFirst ==
    ASSUME FileTypes, NEW m \in Nat, NEW n \in Nat, n > 0, NEW img \in Image, Shows(db, log, 1, m, n, img)
    PROVE  ImageOf(1, m, n) = img
<1>1. ImageOf(1, m, IF n = 0 THEN SizeOf(db) ELSE n) = img
  BY ShownIsImage
<1>2. n # 0
  OBVIOUS
<1> QED
  BY <1>1, <1>2

\* Without the log the database is read.
LEMMA DbIsImage ==
    ASSUME FileTypes
    PROVE  ImageOf(1, 0, SizeOf(db)) = db
<1>0. log \in Seq(FrameRec) /\ db = [p \in Page |-> db[p]]
  BY DEF FileTypes, Image
<1>1. ImageOf(1, 0, SizeOf(db)) = [p \in Page |-> IF p > SizeOf(db) THEN 0 ELSE Content(db, log, p, 1, 0)]
  BY DEF ImageOf, Content, FrameIn, LastFrame
<1>2. ASSUME NEW p \in Page PROVE (IF p > SizeOf(db) THEN 0 ELSE Content(db, log, p, 1, 0)) = db[p]
  <2>1. Content(db, log, p, 1, 0) = db[p]
    BY <1>0, EmptyContent
  <2>2. p > SizeOf(db) => db[p] = 0
    BY DbEnds
  <2> QED
    BY <2>1, <2>2
<1> QED
  BY <1>0, <1>1, <1>2

\* The last version is an image.
LEMMA LastIsImage ==
    ASSUME HistTypes
    PROVE  LastImage \in Image
<1>1. hist[Len(hist)] \in Version
  BY DEF HistTypes
<1> QED
  BY <1>1 DEF Version, LastImage

\* A database into which the whole log is copied is the last version.
LEMMA DbIsLast ==
    ASSUME FileTypes, ShmTypes, HistTypes, CurrentShown, DbCut, nBackfill >= aHdr[0].mxFrame
    PROVE  db = LastImage
<1>0. /\ log \in Seq(FrameRec) /\ db \in Image /\ LastImage \in Image /\ nBackfill \in Nat
      /\ aHdr[0].mxFrame \in Nat /\ aHdr[0].nPage \in Nat
  BY LastIsImage DEF FileTypes, ShmTypes, Header, Frame
<1>1. ASSUME NEW p \in Page PROVE db[p] = LastImage[p]
  <2>0. p \in Nat
    BY BoundAssumption DEF Page
  <2>1. nBackfill + 1 \in 1..(nBackfill + 1) /\ nBackfill + 1 \in Int /\ aHdr[0].mxFrame < nBackfill + 1
    BY <1>0
  <2>2. ShowsPage(db, log, p, nBackfill + 1, aHdr[0].mxFrame, aHdr[0].nPage, LastImage)
    BY <2>1 DEF CurrentShown, Shows
  <2>3. Content(db, log, p, nBackfill + 1, aHdr[0].mxFrame) = db[p]
    BY <1>0, <2>1, EmptyContent
  <2>4. CASE aHdr[0].nPage = 0 \/ p <= aHdr[0].nPage
    BY <2>2, <2>3, <2>4 DEF ShowsPage
  <2>5. CASE ~(aHdr[0].nPage = 0 \/ p <= aHdr[0].nPage)
    <3>1. 0 < aHdr[0].nPage /\ aHdr[0].nPage < p
      BY <1>0, <2>0, <2>5
    <3>2. db[p] = 0
      BY <3>1 DEF DbCut
    <3> QED
      BY <2>2, <2>5, <3>2 DEF ShowsPage
  <2> QED
    BY <2>4, <2>5
<1> QED
  BY <1>0, <1>1 DEF Image

\* Unless a commit is being published the files have the last version.
LEMMA FilesHaveLast ==
    ASSUME FileTypes, ShmTypes, HistTypes, LogCoversHdr, CurrentShown, SizeKnown, LogCurrent, LogTail, OldLog,
           ~Publishing
    PROVE  RecoveredImage = LastImage
<1> DEFINE M == aHdr[0].mxFrame
<1>0. M \in Nat /\ M <= Len(log) /\ Len(log) \in Nat /\ nBackfill \in Nat /\ aHdr[0].nPage \in Nat
  BY DEF FileTypes, ShmTypes, Header, Frame, LogCoversHdr
<1>1. CASE M = 0
  BY <1>1 DEF OldLog
<1>2. CASE M # 0
  <2>1. /\ M > 0 /\ M \in 0..Len(log) /\ Describes(aHdr[0], log, logHdr.aSalt)
        /\ log[M].nTruncate = aHdr[0].nPage /\ aHdr[0].nPage > 0
    BY <1>0, <1>2 DEF LogCurrent, SizeKnown
  <2>2. aHdr[0].aSalt = logHdr.aSalt /\ ChainTo(log, logHdr.aSalt, M)
    BY <2>1 DEF Describes
  <2>3. NoCommitBehind(log, logHdr.aSalt, M)
    BY <2>2 DEF LogTail
  <2>4. log[M].nTruncate # 0
    BY <1>0, <2>1
  <2>5. RecoveredFrame = M
    BY <2>1, <2>2, <2>3, <2>4, RecoveredIs
  <2>6. Shows(db, log, 1, M, aHdr[0].nPage, LastImage)
    <3>1. 1 \in 1..(nBackfill + 1)
      BY <1>0
    <3> QED
      BY <3>1 DEF CurrentShown
  <2>7. ImageOf(1, M, aHdr[0].nPage) = LastImage
    BY <1>0, <2>1, <2>6, LastIsImage, ShownFromFirst
  <2> QED
    BY <1>2, <2>1, <2>5, <2>7 DEF RecoveredImage
<1> QED
  BY <1>1, <1>2

\* A log without a commit leaves the database.
LEMMA NoCommitInLog ==
    ASSUME FileTypes, NoCommitBehind(log, logHdr.aSalt, 0)
    PROVE  RecoveredImage = db
<1>1. 0 \in 0..Len(log) /\ ChainTo(log, logHdr.aSalt, 0)
  BY DEF FileTypes, ChainTo
<1>2. RecoveredFrame = 0
  BY <1>1, RecoveredIs
<1> QED
  BY <1>2, DbIsImage DEF RecoveredImage

(***************************************************************************)
(* What a step does to the log                                             *)
(***************************************************************************)
\* The header of the file is written before the first frame, and cut off.
LEMMA LogHdrStep ==
    ASSUME NEW c \in Conn, LiveStep(c)
    PROVE  logHdr' = logHdr \/ WriteWalHdr(c) \/ CkptTruncateLog(c)
  BY Zenon DEF LiveStep, fileVars, ReadHdr, CkptHdrBusy, CheckBackfill, Lock0, Check0, ScanMark,
      RaiseLock, RaiseBusy, RaiseSet, LockI, LoadMinFrame, CheckI, WriteCheck, RestartLog,
      RestartLogEnd, RestartHdr1, RestartHdr0, RestartInfo, RestartBackfill, RestartAttempted, RestartMarks, Publish1, Publish0,
      EndWrite, CkptWriter, CkptInfo, CkptMark, CkptMarkBusy, CkptMarkLock, CkptMarkSet, CkptLock0,
      CkptCopy, CkptTruncateDb, CkptDone, CkptUnlock0, CkptRestart, CkptNoRestart, CkptUnlock, CkptEnd,
      BeginRead, ReadFails, EndRead, BeginWrite, Spill, Commit, Rollback, BeginCkpt, CkptInterrupt

\* Frames behind those that are written stay.
LEMMA RestOfLog ==
    ASSUME NEW c \in Conn, FileTypes, HdrTypes, hdr[c].mxFrame <= Len(log),
           NEW fs \in Seq(FrameRec), hdr[c].mxFrame + Len(fs) <= MaxFrame
    PROVE  \A i \in 1..Len(WriteFrames(c, fs)) : i > hdr[c].mxFrame + Len(fs) =>
               i \in 1..Len(log) /\ WriteFrames(c, fs)[i] = log[i]
<1> DEFINE m == hdr[c].mxFrame
           n == m + Len(fs)
           k == IF n > Len(log) THEN n ELSE Len(log)
<1>1. m \in Nat /\ Len(fs) \in Nat /\ Len(log) \in Nat
  <2>1. m \in Frame
    BY DEF HdrTypes, Header
  <2> QED
    BY <2>1, Zeros DEF FileTypes
<1>2. n \in Nat /\ k \in Nat /\ (k > n => k = Len(log))
  BY <1>1
<1>3. WriteFrames(c, fs) = [i \in 1..k |-> IF i > m /\ i <= n THEN fs[i - m] ELSE log[i]]
  BY DEF WriteFrames
<1>4. WriteFrames(c, fs) \in Seq(FrameRec)
  BY WriteFramesType
<1> HIDE DEF n, k
<1>5. Len(WriteFrames(c, fs)) = k
  BY <1>2, <1>3, <1>4
<1>6. ASSUME NEW i \in 1..k, i > n PROVE i \in 1..Len(log) /\ WriteFrames(c, fs)[i] = log[i]
  <2>1. k = Len(log) /\ ~(i <= n)
    BY <1>2, <1>6
  <2> QED
    BY <1>3, <2>1
<1> QED
  BY <1>5, <1>6 DEF n

\* Writer c adds k frames, the last of them with the size n.
AddsFrames(c, k, n) ==
    /\ k \in Nat /\ k > 0
    /\ log' \in Seq(FrameRec) /\ Agree(log, log', hdr[c].mxFrame)
    /\ hdr[c].mxFrame + k <= Len(log')
    /\ hdr'[c].mxFrame = hdr[c].mxFrame + k /\ hdr'[c].aSalt = hdr[c].aSalt /\ hdr'[c].aFrameCksum = txn
    /\ \A i \in (hdr[c].mxFrame + 1)..(hdr[c].mxFrame + k) :
          /\ log'[i].aSalt = hdr[c].aSalt /\ log'[i].val = txn
          /\ log'[i].prev = IF i = hdr[c].mxFrame + 1 THEN hdr[c].aFrameCksum ELSE txn
          /\ log'[i].nTruncate = IF i = hdr[c].mxFrame + k THEN n ELSE 0
    /\ \A i \in 1..Len(log') : i > hdr[c].mxFrame + k => i \in 1..Len(log) /\ log'[i] = log[i]

\* A spill adds one, without a size,
LEMMA SpillAdds ==
    ASSUME NEW c \in Conn, FileTypes, HdrTypes, HistTypes, LogCoversHdr, Spill(c)
    PROVE  AddsFrames(c, 1, 0)
<1>1. PICK p \in Spills : log' = WriteFrames(c, <<FrameOf(c, p, TRUE, 0)>>)
  BY DEF Spill
<1>2. p \in Page /\ 0 \in 0..MaxPage
  BY BoundAssumption DEF Page
<1> DEFINE fs == <<FrameOf(c, p, TRUE, 0)>>
           m == hdr[c].mxFrame
<1>3. fs \in Seq(FrameRec) /\ Len(fs) = 1 /\ fs[1] = FrameOf(c, p, TRUE, 0)
  <2>1. FrameOf(c, p, TRUE, 0) \in FrameRec
    BY <1>2, FrameType
  <2>2. ASSUME NEW S, NEW x \in S PROVE <<x>> \in Seq(S) /\ Len(<<x>>) = 1 /\ <<x>>[1] = x
    OBVIOUS
  <2> QED
    BY <2>1, <2>2
<1>4. m \in Frame /\ m < MaxFrame /\ m <= Len(log)
  BY WriterHdrInLog DEF HdrTypes, Header, Spill
<1>5. m + 1 <= MaxFrame /\ m \in Nat
  BY <1>4, BoundAssumption DEF Frame
<1>6. /\ fs[1].aSalt = hdr[c].aSalt /\ fs[1].val = txn /\ fs[1].prev = hdr[c].aFrameCksum
      /\ fs[1].nTruncate = 0
  BY <1>3 DEF FrameOf
<1> HIDE DEF fs
<1>7. log' = WriteFrames(c, fs) /\ 1 \in 1..Len(fs)
  BY <1>1, <1>3 DEF fs
<1>8. log' \in Seq(FrameRec) /\ Agree(log, log', m) /\ m + 1 <= Len(log') /\ log'[m + 1] = fs[1]
  BY <1>3, <1>4, <1>5, <1>7, WrittenFrames
<1>9. \A i \in 1..Len(log') : i > m + 1 => i \in 1..Len(log) /\ log'[i] = log[i]
  BY <1>3, <1>4, <1>5, <1>7, RestOfLog
<1>10. \A i \in (m + 1)..(m + 1) : i = m + 1
  BY <1>5
<1>11. hdr'[c].mxFrame = m + 1 /\ hdr'[c].aSalt = hdr[c].aSalt /\ hdr'[c].aFrameCksum = txn
  BY SpillFields
<1> QED
  BY <1>6, <1>8, <1>9, <1>10, <1>11 DEF AddsFrames

\* a commit one or more, and the last has the size of the database.
LEMMA CommitAdds ==
    ASSUME NEW c \in Conn, FileTypes, ShmTypes, HdrTypes, HistTypes, LogCoversHdr, Commit(c)
    PROVE  \E k \in Nat : AddsFrames(c, k, hdr'[c].nPage)
<1>1. PICK w \in Writes : \E q \in Ascending(NewPages(c, w.pages)) :
          /\ hdr[c].mxFrame + Len(q) <= MaxFrame
          /\ log' = WriteFrames(c, CommitFrames(c, q, w.size))
          /\ hdr'[c].mxFrame = hdr[c].mxFrame + Len(q) /\ hdr'[c].aSalt = hdr[c].aSalt
          /\ hdr'[c].nPage = w.size /\ hdr'[c].aFrameCksum = txn
  BY CommitFields
<1>2. PICK q \in Ascending(NewPages(c, w.pages)) :
          /\ hdr[c].mxFrame + Len(q) <= MaxFrame
          /\ log' = WriteFrames(c, CommitFrames(c, q, w.size))
          /\ hdr'[c].mxFrame = hdr[c].mxFrame + Len(q) /\ hdr'[c].aSalt = hdr[c].aSalt
          /\ hdr'[c].nPage = w.size /\ hdr'[c].aFrameCksum = txn
  BY <1>1
<1> DEFINE fs == CommitFrames(c, q, w.size)
           m == hdr[c].mxFrame
           k == Len(q)
<1>3. fs \in Seq(FrameRec) /\ Len(fs) = k /\ k \in Nat
  BY CommitFramesType
<1>4. m \in Nat /\ m <= Len(log)
  BY WriterHdrInLog, HdrNumbers DEF Commit
<1>5. k > 0
  BY <1>2, <1>3, <1>4, CommitGrows
<1>6. \A i \in 1..k : /\ fs[i].aSalt = hdr[c].aSalt /\ fs[i].val = txn
                      /\ fs[i].prev = IF i = 1 THEN hdr[c].aFrameCksum ELSE txn
                      /\ fs[i].nTruncate = IF i = k THEN w.size ELSE 0
  BY DEF CommitFrames, FrameOf
<1> HIDE DEF fs, m, k
<1>7. log' = WriteFrames(c, fs) /\ m + Len(fs) <= MaxFrame
  BY <1>2, <1>3 DEF fs, m, k
<1>8. /\ log' \in Seq(FrameRec) /\ Agree(log, log', m) /\ m + k <= Len(log')
      /\ \A i \in 1..k : log'[m + i] = fs[i]
  BY <1>3, <1>4, <1>7, WrittenFrames DEF m
<1>9. \A i \in 1..Len(log') : i > m + k => i \in 1..Len(log) /\ log'[i] = log[i]
  BY <1>3, <1>4, <1>7, RestOfLog DEF m
<1>10. ASSUME NEW i \in (m + 1)..(m + k)
       PROVE  /\ log'[i].aSalt = hdr[c].aSalt /\ log'[i].val = txn
              /\ log'[i].prev = IF i = m + 1 THEN hdr[c].aFrameCksum ELSE txn
              /\ log'[i].nTruncate = IF i = m + k THEN w.size ELSE 0
  <2>1. /\ i - m \in 1..k /\ m + (i - m) = i /\ (i - m = 1 <=> i = m + 1)
        /\ (i - m = k <=> i = m + k)
    BY <1>3, <1>4
  <2>2. log'[i] = fs[i - m]
    BY <1>8, <2>1
  <2> QED
    BY <1>6, <2>1, <2>2
<1>11. hdr'[c].mxFrame = m + k /\ hdr'[c].aSalt = hdr[c].aSalt /\ hdr'[c].aFrameCksum = txn
  BY <1>2 DEF m, k
<1>12. AddsFrames(c, k, w.size)
  BY <1>3, <1>5, <1>8, <1>9, <1>10, <1>11 DEF AddsFrames, m
<1> QED
  BY <1>2, <1>3, <1>12

\* The header of the writer describes the log with the new frames,
LEMMA AddedDescribed ==
    ASSUME NEW c \in Conn, FileTypes, ShmTypes, HdrTypes, NEW k, NEW n, AddsFrames(c, k, n), NEW s,
           Describes(hdr[c], log, s)
    PROVE  Describes(hdr'[c], log', s) /\ log'[hdr'[c].mxFrame].nTruncate = n
<1> DEFINE m == hdr[c].mxFrame
<1>1. m \in Nat /\ log \in Seq(FrameRec)
  BY HdrNumbers DEF FileTypes
<1>2. /\ k \in Nat /\ k > 0 /\ log' \in Seq(FrameRec) /\ Agree(log, log', m)
      /\ hdr'[c].mxFrame = m + k /\ hdr'[c].aSalt = hdr[c].aSalt /\ hdr'[c].aFrameCksum = txn
      /\ \A i \in (m + 1)..(m + k) :
            /\ log'[i].aSalt = hdr[c].aSalt /\ log'[i].val = txn
            /\ log'[i].prev = IF i = m + 1 THEN hdr[c].aFrameCksum ELSE txn
            /\ log'[i].nTruncate = IF i = m + k THEN n ELSE 0
  BY DEF AddsFrames
<1>3. /\ hdr[c].aSalt = s /\ ChainTo(log, s, m)
      /\ hdr[c].aFrameCksum = IF m = 0 THEN 0 ELSE log[m].val
  BY DEF Describes
<1> HIDE DEF m
<1>4. ChainTo(log', s, m + k)
  <2> DEFINE x == hdr[c].aFrameCksum
  <2>1. x = IF m = 0 THEN 0 ELSE log[m].val
    BY <1>3
  <2>2. Continues(log', m, k, s, txn, x)
    BY <1>2, <1>3 DEF Continues
  <2> HIDE DEF x
  <2> QED
    BY <1>1, <1>2, <1>3, <2>1, <2>2, ChainExtends
<1>5. m + k \in (m + 1)..(m + k) /\ m + k # 0
  BY <1>1, <1>2
<1>6. log'[m + k].val = txn /\ log'[m + k].nTruncate = n
  BY <1>2, <1>5
<1> QED
  BY <1>2, <1>3, <1>4, <1>5, <1>6 DEF Describes

\* behind which there is no commit,
LEMMA BehindAdded ==
    ASSUME NEW c \in Conn, FileTypes, ShmTypes, HdrTypes, NEW k, NEW n, AddsFrames(c, k, n), NEW s,
           NEW m \in Nat, m <= hdr[c].mxFrame, NoCommitBehind(log, s, m)
    PROVE  NoCommitBehind(log', s, hdr'[c].mxFrame)
<1>1. /\ hdr'[c].mxFrame = hdr[c].mxFrame + k /\ k \in Nat /\ hdr[c].mxFrame \in Nat
      /\ \A i \in 1..Len(log') : i > hdr[c].mxFrame + k => i \in 1..Len(log) /\ log'[i] = log[i]
  BY HdrNumbers DEF AddsFrames
<1>2. ASSUME NEW i \in 1..Len(log'), i > hdr'[c].mxFrame, log'[i].aSalt = s PROVE log'[i].nTruncate = 0
  <2>1. i \in 1..Len(log) /\ log'[i] = log[i]
    BY <1>1, <1>2
  <2>2. i > m
    BY <1>1, <1>2
  <2> QED
    BY <1>2, <2>1, <2>2 DEF NoCommitBehind
<1> QED
  BY <1>2 DEF NoCommitBehind

\* and none behind the last commit if the new frames are none.
LEMMA NoneAdded ==
    ASSUME NEW c \in Conn, FileTypes, ShmTypes, HdrTypes, NEW k, AddsFrames(c, k, 0), NEW s,
           NEW m \in Nat, m <= hdr[c].mxFrame, NoCommitBehind(log, s, m)
    PROVE  NoCommitBehind(log', s, m)
<1> DEFINE h == hdr[c].mxFrame
<1>1. /\ k \in Nat /\ h \in Nat /\ Agree(log, log', h)
      /\ \A i \in (h + 1)..(h + k) : log'[i].nTruncate = 0
      /\ \A i \in 1..Len(log') : i > h + k => i \in 1..Len(log) /\ log'[i] = log[i]
  BY HdrNumbers DEF AddsFrames
<1> HIDE DEF h
<1>2. ASSUME NEW i \in 1..Len(log'), i > m, log'[i].aSalt = s PROVE log'[i].nTruncate = 0
  <2>1. CASE i \in (h + 1)..(h + k)
    BY <1>1, <2>1
  <2>2. CASE i > h + k
    BY <1>1, <1>2, <2>2 DEF NoCommitBehind
  <2>3. CASE i <= h
    <3>1. i \in 1..h /\ i \in 1..Len(log)
      BY <1>1, <2>3 DEF Agree, FileTypes
    <3>2. log'[i] = log[i]
      BY <1>1, <3>1 DEF Agree
    <3> QED
      BY <1>2, <3>1, <3>2 DEF NoCommitBehind
  <2> QED
    BY <1>1, <2>1, <2>2, <2>3
<1> QED
  BY <1>2 DEF NoCommitBehind

(***************************************************************************)
(* The files after a step                                                  *)
(***************************************************************************)
\* Nobody else holds the WRITER lock of c.
LEMMA NotPublishing ==
    ASSUME NEW c \in Conn, lockX[WAL_WRITE_LOCK] = c, pc[c] \notin PublishPCs, \A d \in Conn : Own(d)
    PROVE  ~Publishing
<1> SUFFICES ASSUME NEW d \in Conn, pc[d] \in PublishPCs PROVE FALSE
  BY DEF Publishing
<1>1. lockX[WAL_WRITE_LOCK] = d
  BY LocksOfData DEF PublishPCs, WriterPCs, WritePCs
<1> QED
  BY <1>1

\* A commit is published once it is in the header.
LEMMA PublishEnds ==
    ASSUME NEW c \in Conn, ControlTypes, Arrives(c), \A d \in Conn \ {c} : Kept(c, d), ~Publish0(c), ~Publishing'
    PROVE  ~Publishing
<1> SUFFICES ASSUME NEW d \in Conn, pc[d] \in PublishPCs PROVE FALSE
  BY DEF Publishing
<1>1. pc'[d] \notin PublishPCs
  BY DEF Publishing
<1>2. d = c
  BY <1>1 DEF Kept
<1>3. pc[c] \in {"publish1", "publish0"} /\ pc'[c] \in {"endWrite", "read"}
  BY <1>1, <1>2 DEF PublishPCs, Arrives
<1>4. pc'[c] = "endWrite" => Publish0(c)
  BY DEF Arrives
<1>5. pc'[c] = "read" => pc[c] \in {"check0", "checkI", "writeCheck", "endWrite", "write", "frames"}
  BY DEF Arrives, Check0, CheckI, WriteCheck, EndWrite, Rollback
<1> QED
  BY <1>3, <1>4, <1>5

\* What recovery needs to know of a state: what is assumed below of every one.
LEMMA FileFacts ==
    ASSUME IInv, VersionInv, CounterInv, ImageInv, FileInv, NEW c \in Conn, Step(c)
    PROVE  /\ LogCurrent /\ LogTail /\ DbCut /\ OldLog /\ \A d \in Conn : WriterLog(d)
           /\ FileTypes' /\ ShmTypes' /\ HdrTypes' /\ HistTypes'
           /\ logHdr' = logHdr \/ WriteWalHdr(c) \/ CkptTruncateLog(c)
<1>1. IInv'
  BY ConnStep
<1>2. LiveStep(c)
  BY ImageFacts
<1> QED
  BY <1>1, <1>2, LogHdrStep DEF FileInv, IInv, TypeOK

\* A step of c keeps what the header in shared memory says of the log,
LEMMA LogCurrentStep ==
    ASSUME IInv, VersionInv, CounterInv, ImageInv, FileInv, NEW c \in Conn, Step(c)
    PROVE  LogCurrent'
<1>0. /\ FileTypes /\ ShmTypes /\ HdrTypes /\ HistTypes /\ LogCoversHdr /\ Changes(c) /\ RestartInv(c)
      /\ WriterHdr(c) /\ LogCurrent /\ WriterLog(c)
      /\ logHdr' = logHdr \/ WriteWalHdr(c) \/ CkptTruncateLog(c)
  BY ImageFacts, FileFacts
<1> SUFFICES ASSUME aHdr'[0].mxFrame > 0
             PROVE  /\ Describes(aHdr'[0], log', logHdr'.aSalt)
                    /\ log'[aHdr'[0].mxFrame].nTruncate = aHdr'[0].nPage
  BY DEF LogCurrent
<1>n. aHdr[0].mxFrame \in Nat /\ hdr[c].mxFrame \in Nat /\ log \in Seq(FrameRec)
  BY <1>0, HdrNumbers DEF FileTypes
<1>1. CASE aHdr'[0] = aHdr[0]
  <2> DEFINE M == aHdr[0].mxFrame
  <2>1. M > 0 /\ Describes(aHdr[0], log, logHdr.aSalt) /\ log[M].nTruncate = aHdr[0].nPage
    BY <1>0, <1>1 DEF LogCurrent
  <2>2. logHdr' = logHdr
    <3>1. ~CkptTruncateLog(c)
      BY <1>0, <1>n, <2>1 DEF CkptTruncateLog, RestartInv
    <3>2. ~WriteWalHdr(c)
      BY <1>0, <1>n, <2>1 DEF WriteWalHdr, WriterHdr
    <3> QED
      BY <1>0, <3>1, <3>2
  <2>3. log' \in Seq(FrameRec) /\ Agree(log, log', M)
    BY <1>0, PrefixKept
  <2>4. M \in 1..M
    BY <1>n, <2>1
  <2>5. log'[M] = log[M]
    BY <2>3, <2>4 DEF Agree
  <2>6. ChainTo(log', logHdr.aSalt, M)
    BY <1>n, <2>1, <2>3, ChainKept DEF Describes
  <2> QED
    BY <1>1, <2>1, <2>2, <2>5, <2>6 DEF Describes
<1>2. CASE RestartHdr0(c) /\ aHdr'[0] = hdr[c]
  BY <1>0, <1>2 DEF RestartHdr0, RestartInv
<1>3. CASE Publish0(c) /\ aHdr'[0] = hdr[c]
  BY <1>0, <1>3 DEF Publish0, WriterLog, PublishPCs, fileVars
<1> QED
  BY <1>0, <1>1, <1>2, <1>3, FirstCopy

\* and what lies behind its last frame.
LEMMA LogTailStep ==
    ASSUME IInv, VersionInv, CounterInv, ImageInv, FileInv, NEW c \in Conn, Step(c)
    PROVE  LogTail'
<1>0. /\ FileTypes /\ ShmTypes /\ ControlTypes /\ HdrTypes /\ HistTypes /\ LogCoversHdr /\ Changes(c)
      /\ Arrives(c) /\ WriterHdr(c) /\ LogTail /\ WriterLog(c)
      /\ \A d \in Conn \ {c} : Kept(c, d)
  BY ImageFacts, FileFacts
<1> SUFFICES ASSUME ~Publishing'
             PROVE  NoCommitBehind(log', aHdr'[0].aSalt, aHdr'[0].mxFrame)
  BY DEF LogTail
<1>1. CASE Publish0(c)
  <2>1. log' = log /\ aHdr'[0] = hdr[c] /\ pc[c] \in PublishPCs
    BY <1>0, <1>1 DEF Publish0, fileVars, ShmTypes, PublishPCs
  <2> QED
    BY <1>0, <2>1 DEF WriterLog
<1>2. CASE RestartHdr0(c)
  <2>1. log' = log /\ aHdr'[0] = hdr[c] /\ pc[c] = "restart0"
    BY <1>0, <1>2 DEF RestartHdr0, fileVars, ShmTypes
  <2> QED
    BY <1>0, <2>1 DEF WriterLog, NoCommitBehind
<1>3. CASE ~Publish0(c) /\ ~RestartHdr0(c)
  <2>1. aHdr'[0] = aHdr[0]
    BY <1>0, <1>3, FirstCopy
  <2>2. NoCommitBehind(log, aHdr[0].aSalt, aHdr[0].mxFrame)
    BY <1>0, <1>3, PublishEnds DEF LogTail
  <2>3. CASE log' = log
    BY <2>1, <2>2, <2>3
  <2>4. CASE CkptTruncateLog(c)
    <3>1. Len(log') = 0
      BY <2>4 DEF CkptTruncateLog
    <3> QED
      BY <3>1 DEF NoCommitBehind
  <2>5. CASE Commit(c)
    <3>1. pc'[c] = "publish1"
      BY <1>0, <2>5 DEF Commit, Goto, ControlTypes
    <3> QED
      BY <3>1 DEF Publishing, PublishPCs
  <2>6. CASE Spill(c)
    <3>1. AddsFrames(c, 1, 0)
      BY <1>0, <2>6, SpillAdds
    <3>2. aHdr[0].mxFrame \in Nat /\ hdr[c].mxFrame \in Nat
      BY <1>0, HdrNumbers
    <3>3. hdr[c].mxFrame >= aHdr[0].mxFrame
      BY <1>0, <2>6 DEF Spill, InFrames, WriterHdr
    <3>4. aHdr[0].mxFrame <= hdr[c].mxFrame
      BY <3>2, <3>3
    <3> QED
      BY <1>0, <2>1, <2>2, <3>1, <3>2, <3>4, NoneAdded
  <2> QED
    BY <1>0, <2>3, <2>4, <2>5, <2>6 DEF Changes
<1> QED
  BY <1>1, <1>2, <1>3

\* A new salt, and that of a log that was restarted, are of no commit.
LEMMA NewHeader ==
    ASSUME NEW c \in Conn, WriteWalHdr(c), FileTypes, ShmTypes, HdrTypes, LogTail, WriterHdr(c), WriterLog(c),
           \A d \in Conn : Own(d)
    PROVE  /\ aHdr[0].mxFrame = 0
           /\ logHdr'.aSalt = hdr'[c].aSalt /\ hdr'[c].mxFrame = 0 /\ hdr'[c].aFrameCksum = 0
           /\ NoCommitBehind(log, hdr'[c].aSalt, 0)
<1>1. PICK s \in NewSalts \cup {hdr[c].aSalt} :
          /\ hdr'[c].mxFrame = hdr[c].mxFrame /\ hdr'[c].aSalt = s /\ hdr'[c].aFrameCksum = 0
          /\ logHdr' = [aSalt |-> s, nCkpt |-> nCkpt[c]]
  BY WalHdrFields
<1>2. logHdr'.aSalt = s
  BY <1>1
<1>3. pc[c] = "write" /\ hdr[c].mxFrame = 0
  BY DEF WriteWalHdr
<1>4. aHdr[0].mxFrame = 0
  BY <1>3, HdrNumbers DEF WriterHdr
<1>5. CASE s = hdr[c].aSalt
  <2>1. lockX[WAL_WRITE_LOCK] = c
    BY <1>3, LocksOfData DEF WriterPCs, WritePCs
  <2>2. ~Publishing
    BY <1>3, <2>1, NotPublishing DEF PublishPCs
  <2>3. s = aHdr[0].aSalt
    BY <1>3, <1>5 DEF WriterLog
  <2> QED
    BY <1>1, <1>2, <1>3, <1>4, <2>2, <2>3 DEF LogTail
<1>6. CASE s \in NewSalts
  <2>1. \A i \in 1..Len(log) : log[i].aSalt # s
    BY <1>6 DEF NewSalts, UsedSalts
  <2> QED
    BY <1>1, <1>2, <1>3, <1>4, <2>1 DEF NoCommitBehind
<1> QED
  BY <1>5, <1>6

\* The writer's own steps
LEMMA OwnLog ==
    ASSUME IInv, VersionInv, CounterInv, ImageInv, FileInv, NEW c \in Conn, Step(c)
    PROVE  WriterLog(c)'
<1>0. /\ FileTypes /\ ShmTypes /\ ControlTypes /\ HdrTypes /\ HistTypes /\ LogCoversHdr /\ Changes(c)
      /\ Arrives(c) /\ WriterHdr(c) /\ LogCurrent /\ LogTail /\ WriterLog(c) /\ TxnInv(c)
      /\ \A d \in Conn : Own(d)
  BY ImageFacts, FileFacts
<1>n. aHdr[0].mxFrame \in Nat /\ hdr[c].mxFrame \in Nat
  BY <1>0, HdrNumbers
<1>1. CASE pc'[c] = "publish1"
  <2>1. Commit(c) /\ logHdr' = logHdr /\ aHdr' = aHdr /\ pc[c] \in {"write", "frames"} /\ InFrames(c)
    BY <1>0, <1>1 DEF Arrives, Commit, shmVars, InFrames
  <2>2. PICK k \in Nat : AddsFrames(c, k, hdr'[c].nPage)
    BY <1>0, <2>1, CommitAdds
  <2>3. /\ Describes(hdr[c], log, logHdr.aSalt)
        /\ aHdr[0].mxFrame > 0 => hdr[c].aSalt = aHdr[0].aSalt
        /\ NoCommitBehind(log, hdr[c].aSalt, aHdr[0].mxFrame)
    BY <1>0, <2>1 DEF WriterLog, InFrames
  <2>4. aHdr[0].mxFrame <= hdr[c].mxFrame
    BY <1>0, <1>n, <2>1 DEF WriterHdr
  <2>5. Describes(hdr'[c], log', logHdr.aSalt) /\ log'[hdr'[c].mxFrame].nTruncate = hdr'[c].nPage
    BY <1>0, <2>2, <2>3, AddedDescribed
  <2>6. NoCommitBehind(log', hdr[c].aSalt, hdr'[c].mxFrame)
    BY <1>0, <1>n, <2>2, <2>3, <2>4, BehindAdded
  <2>7. hdr'[c].aSalt = hdr[c].aSalt
    BY <2>2 DEF AddsFrames
  <2>8. pend'.txn # 0
    <3>1. \E w \in Writes : pend' = [txn |-> txn, img |-> Committed(w.pages, w.size)]
      BY <2>1 DEF Commit
    <3>2. pend'.txn = txn
      BY <3>1
    <3> QED
      BY <1>0, <3>2, BoundAssumption DEF HistTypes
  <2> QED
    BY <1>1, <2>1, <2>3, <2>5, <2>6, <2>7, <2>8 DEF WriterLog
<1>2. CASE pc'[c] = "publish0"
  <2>1. Publish1(c)
    BY <1>0, <1>2 DEF Arrives
  <2>2. UNCHANGED <<log, logHdr, hdr, pend>> /\ aHdr'[0] = aHdr[0] /\ pc[c] \in PublishPCs
    BY <1>0, <2>1 DEF Publish1, fileVars, hdrVars, commitVars, ShmTypes, PublishPCs
  <2> QED
    BY <1>0, <1>2, <2>2 DEF WriterLog, PublishPCs
<1>3. CASE pc'[c] = "frames"
  <2>1. WriteWalHdr(c) /\ log' = log /\ aHdr' = aHdr
    BY <1>0, <1>3 DEF Arrives, WriteWalHdr, shmVars
  <2>2. /\ aHdr[0].mxFrame = 0
        /\ logHdr'.aSalt = hdr'[c].aSalt /\ hdr'[c].mxFrame = 0 /\ hdr'[c].aFrameCksum = 0
        /\ NoCommitBehind(log, hdr'[c].aSalt, 0)
    BY <1>0, <2>1, NewHeader
  <2>3. Describes(hdr'[c], log', logHdr'.aSalt)
    BY <2>2 DEF Describes, ChainTo
  <2> QED
    BY <1>3, <2>1, <2>2, <2>3 DEF WriterLog, PublishPCs
<1>4. CASE pc'[c] = "write"
  <2>1. CASE Spill(c)
    <3>1. logHdr' = logHdr /\ aHdr' = aHdr /\ pc[c] \in {"write", "frames"} /\ InFrames(c)
      BY <2>1 DEF Spill, shmVars, InFrames
    <3>2. AddsFrames(c, 1, 0)
      BY <1>0, <2>1, SpillAdds
    <3>3. /\ Describes(hdr[c], log, logHdr.aSalt)
          /\ aHdr[0].mxFrame > 0 => hdr[c].aSalt = aHdr[0].aSalt
          /\ NoCommitBehind(log, hdr[c].aSalt, aHdr[0].mxFrame)
      BY <1>0, <3>1 DEF WriterLog, InFrames
    <3>4. aHdr[0].mxFrame <= hdr[c].mxFrame
      BY <1>0, <1>n, <3>1 DEF WriterHdr
    <3>5. Describes(hdr'[c], log', logHdr.aSalt)
      BY <1>0, <3>2, <3>3, AddedDescribed
    <3>6. NoCommitBehind(log', hdr[c].aSalt, aHdr[0].mxFrame)
      BY <1>0, <1>n, <3>2, <3>3, <3>4, NoneAdded
    <3>7. hdr'[c].aSalt = hdr[c].aSalt /\ hdr'[c].mxFrame = hdr[c].mxFrame + 1
      BY <3>2 DEF AddsFrames
    <3>8. hdr'[c].mxFrame # 0
      BY <1>n, <3>7
    <3> QED
      BY <1>4, <3>1, <3>3, <3>5, <3>6, <3>7, <3>8 DEF WriterLog, PublishPCs
  <2>2. CASE WriteCheck(c) \/ Check0(c) \/ CheckI(c)
    <3>1. /\ UNCHANGED <<log, logHdr, aHdr>> /\ hdr'[c] = aHdr[0]
          /\ pc[c] \notin PublishPCs
      BY <1>0, <1>4, <2>2 DEF WriteCheck, SnapshotIsCurrent, Check0, CheckI, HdrUnchanged, fileVars, shmVars,
         hdrVars, ControlTypes, Goto, Retry, ToScan, useWal, PublishPCs
    <3>2. lockX[WAL_WRITE_LOCK] = c
      <4>1. CASE WriteCheck(c)
        BY <1>0, <4>1, LocksOfData DEF WriteCheck, WriterPCs, WritePCs
      <4>2. CASE Check0(c) \/ CheckI(c)
        BY <1>0, <1>4, <4>2 DEF Check0, CheckI, Opened, useWal, Goto, ControlTypes, Retry, ToScan
      <4> QED
        BY <2>2, <4>1, <4>2
    <3>3. NoCommitBehind(log, aHdr[0].aSalt, aHdr[0].mxFrame)
      BY <1>0, <3>1, <3>2, NotPublishing DEF LogTail
    <3> QED
      BY <1>0, <1>4, <3>1, <3>3 DEF WriterLog, LogCurrent, PublishPCs
  <2> QED
    BY <1>0, <1>4, <2>1, <2>2 DEF Arrives
<1>5. CASE pc'[c] = "restart0"
  <2>1. RestartHdr1(c) /\ log' = log
    BY <1>0, <1>5 DEF Arrives, RestartHdr1, fileVars
  <2>2. PICK s \in NewSalts : hdr'[c].aSalt = s
    BY <1>0, <2>1, RestartHdrFields
  <2>3. \A i \in 1..Len(log) : log[i].aSalt # s
    BY DEF NewSalts, UsedSalts
  <2> QED
    BY <1>5, <2>1, <2>2, <2>3 DEF WriterLog, PublishPCs
<1> QED
  BY <1>1, <1>2, <1>3, <1>4, <1>5 DEF WriterLog, PublishPCs

\* and those of the others.
LEMMA OthersLog ==
    ASSUME IInv, VersionInv, CounterInv, ImageInv, FileInv, NEW c \in Conn, Step(c), NEW d \in Conn \ {c}
    PROVE  WriterLog(d)'
<1>0. /\ FileTypes /\ ShmTypes /\ ControlTypes /\ HdrTypes /\ HistTypes /\ LogCoversHdr /\ Changes(c)
      /\ Own(c) /\ Own(d) /\ Kept(c, d) /\ WriterLog(d)
      /\ logHdr' = logHdr \/ WriteWalHdr(c) \/ CkptTruncateLog(c)
  BY ImageFacts, FileFacts
<1>1. pc'[d] = pc[d] /\ hdr'[d] = hdr[d]
  BY <1>0 DEF Kept
<1>2. CASE pc[d] \in PublishPCs \cup {"write", "frames", "restart0"}
  <2>1. lockX[WAL_WRITE_LOCK] = d /\ d # c
    BY <1>0, <1>2, LocksOfData DEF PublishPCs, WriterPCs, WritePCs, RestartPCs
  <2>2. aHdr' = aHdr /\ log' = log
    BY <1>0, <2>1, HdrStoreStep, LogStep
  <2>3. pc[c] \notin WriterPCs
    BY <1>0, <2>1, LocksOfData
  <2>4. pc[c] # "write" /\ pc[c] # "frames" /\ pc[c] # "truncate"
    BY <2>3 DEF WriterPCs, WritePCs
  <2>5. logHdr' = logHdr
    <3>1. WriteWalHdr(c) => pc[c] = "write"
      BY Zenon DEF WriteWalHdr
    <3>2. CkptTruncateLog(c) => pc[c] = "truncate"
      BY Zenon DEF CkptTruncateLog
    <3> QED
      BY <1>0, <2>4, <3>1, <3>2
  <2>6. pend' = pend
    <3>1. pend' = pend \/ Spill(c) \/ Commit(c)
      BY <1>0, Zenon DEF Changes
    <3>2. Spill(c) \/ Commit(c) => InFrames(c)
      BY Zenon DEF Spill, Commit
    <3>3. ~InFrames(c)
      BY <2>4 DEF InFrames
    <3> QED
      BY <3>1, <3>2, <3>3
  <2> QED
    BY <1>0, <1>1, <2>2, <2>5, <2>6 DEF WriterLog
<1>3. CASE pc[d] \notin PublishPCs \cup {"write", "frames", "restart0"}
  BY <1>1, <1>3 DEF WriterLog
<1> QED
  BY <1>2, <1>3

\* Only one connection copies.
LEMMA OneCopies ==
    ASSUME NEW c \in Conn, pc[c] \in CkptPCs, NEW d \in Conn, pc[d] \in CkptPCs, Own(c), Own(d)
    PROVE  d = c
<1>1. lockX[WAL_CKPT_LOCK] = c /\ lockX[WAL_CKPT_LOCK] = d
  BY LocksOfData
<1> QED
  BY <1>1

\* A step of c cuts the database to its size before it says that the log is
\* copied.
LEMMA DbCutStep ==
    ASSUME IInv, VersionInv, CounterInv, ImageInv, FileInv, NEW c \in Conn, Step(c)
    PROVE  DbCut'
<1>0. /\ FileTypes /\ ShmTypes /\ ControlTypes /\ HdrTypes /\ CkptTypes /\ HistTypes /\ LogCoversHdr
      /\ Changes(c) /\ Arrives(c) /\ RestartInv(c) /\ WriterHdr(c) /\ AllCopied(c) /\ SizeKnown /\ DbCut
      /\ BackfillBounded /\ \A d \in Conn : Own(d) /\ CkptRange(d) /\ CopyImage(d) /\ NoRecovery(d)
      /\ \A d \in Conn \ {c} : Kept(c, d)
  BY ImageFacts, FileFacts
<1>n. /\ nBackfill \in Nat /\ aHdr[0].mxFrame \in Nat /\ aHdr[0].nPage \in Nat
      /\ \A d \in Conn : mxSafeFrame[d] \in Nat /\ hdr[d].mxFrame \in Nat /\ hdr[d].nPage \in Nat
  BY <1>0, HdrNumbers, Numbers DEF CkptTypes, Frame
<1>r. \A d \in Conn : pc[d] \in CopyPCs =>
          /\ nBackfill < hdr[d].mxFrame /\ hdr[d].mxFrame <= aHdr[0].mxFrame
          /\ mxSafeFrame[d] <= hdr[d].mxFrame
  BY <1>0 DEF CkptRange
<1>d. ASSUME NEW d \in Conn, pc'[d] = "ckptDone"
      PROVE  (d # c /\ pc[d] = "ckptDone" /\ mxSafeFrame'[d] = mxSafeFrame[d]) \/ (d = c /\ CkptTruncateDb(c))
  <2>1. CASE d # c
    BY <1>0, <1>d, <2>1 DEF Kept
  <2>2. CASE d = c
    <3>1. CkptLock0(c) \/ CkptCopy(c) \/ CkptTruncateDb(c)
      BY <1>0, <1>d, <2>2 DEF Arrives
    <3>2. ~CkptCopy(c)
      BY <1>d, <2>2 DEF CkptCopy
    <3>3. ~CkptLock0(c)
      BY <1>0, <1>d, <2>2 DEF CkptLock0, AfterCopy, Goto, ControlTypes
    <3> QED
      BY <2>2, <3>1, <3>2, <3>3
  <2> QED
    BY <2>1, <2>2
<1>1. CASE CkptCopy(c)
  <2>1. UNCHANGED <<aHdr, nBackfill>> /\ pc[c] = "ckptCopy"
    BY <1>1 DEF CkptCopy, shmVars, infoVars
  <2>2. ~(nBackfill >= aHdr[0].mxFrame)
    BY <1>n, <1>r, <2>1 DEF CopyPCs
  <2>3. \A d \in Conn : pc'[d] # "ckptDone"
    <3>1. \A d \in Conn : pc[d] = "ckptDone" => d = c
      BY <1>0, <2>1, OneCopies DEF CkptPCs
    <3>2. ~CkptTruncateDb(c)
      BY <1>1 DEF CkptCopy, CkptTruncateDb
    <3> QED
      BY <1>d, <3>1, <3>2
  <2> QED
    BY <2>1, <2>2, <2>3 DEF DbCut
<1>2. CASE CkptTruncateDb(c)
  <2>1. /\ UNCHANGED <<aHdr, nBackfill, mxSafeFrame>> /\ pc[c] = "ckptCopy"
        /\ db' = IF mxSafeFrame[c] = aHdr[0].mxFrame
                 THEN [p \in Page |-> IF p <= hdr[c].nPage THEN db[p] ELSE 0]
                 ELSE db
    BY <1>2 DEF CkptTruncateDb, shmVars, infoVars, ckptVars
  <2>2. ~(nBackfill >= aHdr[0].mxFrame)
    BY <1>n, <1>r, <2>1 DEF CopyPCs
  <2>3. \A d \in Conn : pc[d] = "ckptDone" => d = c
    BY <1>0, <2>1, OneCopies DEF CkptPCs
  <2>4. ASSUME mxSafeFrame[c] = aHdr[0].mxFrame, NEW p \in Page, aHdr[0].nPage < p PROVE db'[p] = 0
    <3>1. hdr[c].mxFrame = aHdr[0].mxFrame
      BY <1>n, <1>r, <2>1, <2>4 DEF CopyPCs
    <3>2. hdr[c].nPage = aHdr[0].nPage
      BY <1>0, <2>1, <3>1 DEF CopyImage, CopyPCs, OlderHdr
    <3>3. p \in Nat
      BY BoundAssumption DEF Page
    <3>4. ~(p <= hdr[c].nPage)
      BY <1>n, <2>4, <3>2, <3>3
    <3> QED
      BY <2>1, <2>4, <3>4
  <2>5. ASSUME NEW d \in Conn, pc'[d] = "ckptDone" PROVE d = c
    BY <1>d, <2>3, <2>5
  <2> QED
    BY <2>1, <2>2, <2>4, <2>5 DEF DbCut
<1>3. CASE CkptDone(c)
  <2>1. UNCHANGED <<aHdr, db>> /\ nBackfill' = mxSafeFrame[c] /\ pc[c] = "ckptDone"
    BY <1>3 DEF CkptDone, fileVars
  <2>2. \A d \in Conn : pc'[d] # "ckptDone"
    <3>1. \A d \in Conn : pc[d] = "ckptDone" => d = c
      BY <1>0, <2>1, OneCopies DEF CkptPCs
    <3>2. ~CkptTruncateDb(c)
      BY <2>1 DEF CkptTruncateDb
    <3> QED
      BY <1>d, <3>1, <3>2
  <2>3. mxSafeFrame[c] >= aHdr[0].mxFrame => mxSafeFrame[c] = aHdr[0].mxFrame
    BY <1>n, <1>r, <2>1 DEF CopyPCs
  <2> QED
    BY <1>0, <2>1, <2>2, <2>3 DEF DbCut
<1>4. CASE RestartBackfill(c)
  <2>1. UNCHANGED <<aHdr, db>> /\ aHdr[0].mxFrame = 0
    BY <1>0, <1>4 DEF RestartBackfill, fileVars, RestartInv
  <2>2. nBackfill >= aHdr[0].mxFrame
    BY <1>n, <2>1
  <2> QED
    BY <1>0, <2>1, <2>2 DEF DbCut
<1>5. CASE RestartHdr0(c)
  <2>1. db' = db /\ aHdr'[0] = hdr[c] /\ hdr[c].nPage = aHdr[0].nPage /\ nBackfill = aHdr[0].mxFrame
    BY <1>0, <1>5 DEF RestartHdr0, fileVars, ShmTypes, SizeKnown, AllCopied
  <2>2. nBackfill >= aHdr[0].mxFrame
    BY <1>n, <2>1
  <2> QED
    BY <1>0, <2>1, <2>2 DEF DbCut
<1>6. CASE Publish0(c)
  <2>1. nBackfill' = nBackfill /\ aHdr'[0] = hdr[c] /\ pc[c] = "publish0"
    BY <1>0, <1>6 DEF Publish0, infoVars, ShmTypes
  <2>2. hdr[c].mxFrame > aHdr[0].mxFrame
    BY <1>0, <2>1 DEF WriterHdr
  <2>3. lockX[WAL_WRITE_LOCK] = c
    BY <1>0, <2>1, LocksOfData DEF WriterPCs, WritePCs
  <2>4. nBackfill <= aHdr[0].mxFrame
    BY <1>0, <2>1, <2>3, NoStores DEF BackfillBounded
  <2>5. ~(nBackfill >= hdr[c].mxFrame)
    BY <1>n, <2>2, <2>4
  <2>6. ASSUME NEW d \in Conn, pc'[d] = "ckptDone" PROVE mxSafeFrame'[d] # hdr[c].mxFrame
    <3>1. ~CkptTruncateDb(c)
      BY <2>1 DEF CkptTruncateDb
    <3>2. pc[d] \in CopyPCs /\ mxSafeFrame'[d] = mxSafeFrame[d]
      BY <1>d, <2>6, <3>1 DEF CopyPCs
    <3> QED
      BY <1>n, <1>r, <2>2, <3>2
  <2> QED
    BY <2>1, <2>5, <2>6 DEF DbCut
<1>7. CASE /\ UNCHANGED <<db, nBackfill>> /\ aHdr'[0] = aHdr[0]
           /\ ~CkptTruncateDb(c)
  <2>1. ASSUME NEW d \in Conn, pc'[d] = "ckptDone" PROVE pc[d] = "ckptDone" /\ mxSafeFrame'[d] = mxSafeFrame[d]
    BY <1>7, <1>d, <2>1
  <2> QED
    BY <1>0, <1>7, <2>1 DEF DbCut
<1>8. CASE ~CkptTruncateDb(c) /\ (Spill(c) \/ Commit(c) \/ CkptTruncateLog(c) \/ Quiet)
  <2>1. UNCHANGED <<db, nBackfill>> /\ aHdr'[0] = aHdr[0]
    BY <1>8 DEF Spill, Commit, CkptTruncateLog, Quiet, shmVars, infoVars
  <2> QED
    BY <1>7, <1>8, <2>1
<1> QED
  BY <1>0, <1>1, <1>2, <1>3, <1>4, <1>5, <1>6, <1>8, DataSteps

\* A log without a commit leaves the database, after a step as before.
EmptyLog == FileTypes /\ NoCommitBehind(log, logHdr.aSalt, 0)
DbIsRead == RecoveredImage = db

LEMMA EmptyLogRead == EmptyLog => DbIsRead
  BY NoCommitInLog DEF EmptyLog, DbIsRead

LEMMA EmptyLogNext == EmptyLog' => DbIsRead'
  BY EmptyLogRead, PTL

\* A step of c after a restart of the log leaves the last version in the
\* files, whether the old log is still there or not.
LEMMA OldLogStep ==
    ASSUME IInv, VersionInv, CounterInv, ImageInv, FileInv, NEW c \in Conn, Step(c)
    PROVE  OldLog'
<1>0. /\ FileTypes /\ ShmTypes /\ ControlTypes /\ HdrTypes /\ CkptTypes /\ HistTypes /\ LogCoversHdr
      /\ Changes(c) /\ Arrives(c) /\ RestartInv(c) /\ WriterHdr(c) /\ CurrentShown /\ SizeKnown
      /\ CkptRange(c) /\ \A d \in Conn : Own(d)
      /\ \A d \in Conn \ {c} : Kept(c, d)
      /\ LogCurrent /\ LogTail /\ DbCut /\ OldLog /\ WriterLog(c) /\ FileTypes'
      /\ logHdr' = logHdr \/ WriteWalHdr(c) \/ CkptTruncateLog(c)
  BY ImageFacts, FileFacts
<1>n. nBackfill \in Nat /\ aHdr[0].mxFrame \in Nat /\ \A d \in Conn : hdr[d].mxFrame \in Nat
  BY <1>0, HdrNumbers
<1> SUFFICES ASSUME aHdr'[0].mxFrame = 0, ~Publishing' PROVE RecoveredImage' = LastImage'
  BY DEF OldLog
<1>1. ~Publish0(c)
  <2> SUFFICES ASSUME Publish0(c) PROVE FALSE
    OBVIOUS
  <2>1. aHdr'[0] = hdr[c] /\ hdr[c].mxFrame > aHdr[0].mxFrame
    BY <1>0 DEF Publish0, ShmTypes, WriterHdr
  <2> QED
    BY <1>n, <2>1
<1>2. LastImage' = LastImage /\ ~Publishing
  BY <1>0, <1>1, PublishEnds DEF Changes, LastImage
<1>3. RecoveredImage = LastImage
  BY <1>0, <1>2, FilesHaveLast
<1>4. db' = db
  <2> SUFFICES ASSUME CkptCopy(c) \/ CkptTruncateDb(c) PROVE FALSE
    BY <1>0 DEF Changes
  <2>1. pc[c] = "ckptCopy" /\ aHdr' = aHdr
    BY DEF CkptCopy, CkptTruncateDb, shmVars
  <2>2. nBackfill < hdr[c].mxFrame /\ hdr[c].mxFrame <= aHdr[0].mxFrame
    BY <1>0, <2>1 DEF CkptRange, CopyPCs
  <2> QED
    BY <1>n, <2>1, <2>2
<1>5. CASE log' = log /\ logHdr' = logHdr
  <2>1. RecoveredImage' = RecoveredImage
    BY <1>4, <1>5 DEF RecoveredImage, RecoveredFrame, walDecodeFrame, ImageOf, LastFrame, SizeOf
  <2> QED
    BY <1>2, <1>3, <2>1
<1>6. CASE WriteWalHdr(c) \/ CkptTruncateLog(c) \/ Spill(c)
  <2>1. aHdr[0].mxFrame = 0
    BY <1>0, <1>6 DEF WriteWalHdr, CkptTruncateLog, Spill, shmVars
  <2>2. nBackfill >= aHdr[0].mxFrame
    BY <1>n, <2>1
  <2>3. db = LastImage
    BY <1>0, <2>2, DbIsLast
  <2>4. NoCommitBehind(log', logHdr'.aSalt, 0)
    <3>1. CASE WriteWalHdr(c)
      <4>1. log' = log
        BY <3>1 DEF WriteWalHdr
      <4> QED
        BY <1>0, <3>1, <4>1, NewHeader
    <3>2. CASE CkptTruncateLog(c)
      <4>1. Len(log') = 0
        BY <3>2 DEF CkptTruncateLog
      <4> QED
        BY <4>1 DEF NoCommitBehind
    <3>3. CASE Spill(c)
      <4>1. logHdr' = logHdr /\ InFrames(c) /\ pc[c] \in {"write", "frames"}
        BY <3>3 DEF Spill, InFrames
      <4>2. AddsFrames(c, 1, 0)
        BY <1>0, <3>3, SpillAdds
      <4>3. hdr[c].aSalt = logHdr.aSalt /\ NoCommitBehind(log, hdr[c].aSalt, 0)
        BY <1>0, <2>1, <4>1 DEF WriterLog, InFrames, Describes
      <4>4. 0 \in Nat /\ 0 <= hdr[c].mxFrame
        BY <1>n
      <4>5. NoCommitBehind(log', hdr[c].aSalt, 0)
        BY <1>0, <4>2, <4>3, <4>4, NoneAdded
      <4> QED
        BY <4>1, <4>3, <4>5
    <3> QED
      BY <1>6, <3>1, <3>2, <3>3
  <2>5. RecoveredImage' = db'
    BY <1>0, <2>4, EmptyLogNext DEF EmptyLog, DbIsRead
  <2> QED
    BY <1>2, <1>4, <2>3, <2>5
<1>7. CASE Commit(c)
  <2>1. pc'[c] = "publish1"
    BY <1>0, <1>7 DEF Commit, Goto, ControlTypes
  <2> QED
    BY <2>1 DEF Publishing, PublishPCs
<1> QED
  BY <1>0, <1>5, <1>6, <1>7 DEF Changes

\* A step of c keeps the invariant of the files.
LEMMA FileStep ==
    ASSUME IInv, VersionInv, CounterInv, ImageInv, FileInv, NEW c \in Conn, Step(c)
    PROVE  FileInv'
<1>1. ASSUME NEW d \in Conn PROVE WriterLog(d)'
  BY OwnLog, OthersLog
<1> QED
  BY <1>1, LogCurrentStep, LogTailStep, DbCutStep, OldLogStep DEF FileInv

(***************************************************************************)
(* The invariant of the files                                              *)
(***************************************************************************)
FilesUntilCrash == ~CkptPreempt /\ nCrash = 0 => FileInv

\* It holds at first,
LEMMA FileInit == Init => FilesUntilCrash
<1> SUFFICES ASSUME Init PROVE FileInv
  BY DEF FilesUntilCrash
<1>1. /\ aHdr[0].mxFrame = 0 /\ aHdr[0].nPage = 0 /\ log = <<>> /\ logHdr = NoLogHdr
      /\ db = [p \in Page |-> 1] /\ hist = <<[txn |-> 1, img |-> db]>>
      /\ \A c \in Conn : pc[c] = "idle"
  BY DEF Init, ZeroHdr
<1>2. Len(log) = 0
  BY <1>1
<1>3. LogCurrent /\ LogTail
  BY <1>1, <1>2 DEF LogCurrent, LogTail, NoCommitBehind
<1>4. \A c \in Conn : WriterLog(c)
  BY <1>1 DEF WriterLog, PublishPCs
<1>5. DbCut
  BY <1>1 DEF DbCut
<1>6. FileTypes
  BY InitInv DEF IInv, TypeOK
<1>7. RecoveredImage = db
  BY <1>2, <1>6, NoCommitInLog DEF NoCommitBehind
<1>8. LastImage = db
  <2>1. Len(hist) = 1 /\ hist[1] = [txn |-> 1, img |-> db]
    BY <1>1
  <2> QED
    BY <2>1 DEF LastImage
<1> QED
  BY <1>3, <1>4, <1>5, <1>7, <1>8 DEF FileInv, OldLog

\* and is kept by every step.
LEMMA FileNext ==
    ASSUME IInv, VersionsUntilCrash, CountersUntilCrash, ImagesUntilCrash, FilesUntilCrash, [Next]_vars
    PROVE  FilesUntilCrash'
<1> SUFFICES ASSUME ~CkptPreempt, nCrash' = 0 PROVE FileInv'
  BY DEF FilesUntilCrash
<1>n. nCrash \in Nat
  BY BoundAssumption DEF IInv, TypeOK, HistTypes
<1>1. ASSUME NEW c \in Conn, Step(c) PROVE FileInv'
  <2>1. nCrash' = nCrash
    BY <1>1, CrashCount
  <2>2. VersionInv /\ CounterInv /\ ImageInv /\ FileInv
    BY <2>1 DEF VersionsUntilCrash, CountersUntilCrash, ImagesUntilCrash, FilesUntilCrash
  <2> QED
    BY <1>1, <2>2, FileStep
<1>2. ASSUME NEW c \in Conn, Crash(c) PROVE FALSE
  BY <1>2, <1>n DEF Crash
<1>3. CASE CrashAll
  BY <1>3, <1>n DEF CrashAll
<1>4. CASE UNCHANGED vars
  <2>1. FileInv
    BY <1>4 DEF FilesUntilCrash, vars
  <2>2. UNCHANGED <<db, log, logHdr, aHdr, nBackfill, pc, hdr, mxSafeFrame, hist, pend>>
    BY <1>4 DEF vars, fileVars, shmVars, infoVars, hdrVars, ckptVars, commitVars
  <2>3. LogCurrent' /\ LogTail' /\ DbCut'
    BY <2>1, <2>2 DEF FileInv, LogCurrent, LogTail, DbCut, Publishing
  <2>4. OldLog'
    BY <2>1, <2>2 DEF FileInv, OldLog, Publishing, RecoveredImage, RecoveredFrame, walDecodeFrame, ImageOf,
       LastFrame, SizeOf, LastImage
  <2>5. ASSUME NEW c \in Conn PROVE WriterLog(c)'
    BY <2>1, <2>2 DEF FileInv, WriterLog
  <2> QED
    BY <2>3, <2>4, <2>5 DEF FileInv
<1> QED
  BY <1>1, <1>2, <1>3, <1>4 DEF Next, Step

\* Until a process is killed, the log file is what its headers say.
THEOREM FileInvariant == Spec => []FilesUntilCrash
<1> QED
  BY FileInit, FileNext, InductiveInvariant, VersionInvariant, CounterInvariant, ImageInvariant, PTL DEF Spec

\* A commit that is being published is in the files.
LEMMA FilesHavePending ==
    ASSUME FileTypes, ShmTypes, HdrTypes, HistTypes, LogCoversHdr, NEW c \in Conn, pc[c] \in PublishPCs,
           WriterHdr(c), PendingImage(c), WriterLog(c)
    PROVE  RecoveredImage = pend.img /\ pend.txn # 0
<1> DEFINE m == hdr[c].mxFrame
           n == hdr[c].nPage
<1>0. /\ m \in Nat /\ n \in Nat /\ aHdr[0].mxFrame \in Nat /\ nBackfill \in Nat /\ Len(log) \in Nat
      /\ pend.img \in Image
  BY HdrNumbers DEF FileTypes, HistTypes, Version
<1>1. m <= Len(log) /\ m > aHdr[0].mxFrame
  BY DEF LogCoversHdr, OwnHdr, InWrite, WritePCs, PublishPCs, WriterHdr
<1>2. /\ Describes(hdr[c], log, logHdr.aSalt) /\ NoCommitBehind(log, hdr[c].aSalt, m)
      /\ log[m].nTruncate = n /\ pend.txn # 0
  BY DEF WriterLog
<1>3. n > 0 /\ \A f \in 1..(nBackfill + 1) : Shows(db, log, f, m, n, pend.img)
  BY DEF PendingImage, PublishPCs
<1>4. ChainTo(log, logHdr.aSalt, m) /\ NoCommitBehind(log, logHdr.aSalt, m)
  BY <1>2 DEF Describes
<1> HIDE DEF m, n
<1>5. m \in 0..Len(log) /\ m # 0 /\ log[m].nTruncate # 0 /\ 1 \in 1..(nBackfill + 1)
  BY <1>0, <1>1, <1>2, <1>3
<1>6. RecoveredFrame = m
  BY <1>4, <1>5, RecoveredIs
<1>7. ImageOf(1, m, n) = pend.img
  BY <1>0, <1>3, <1>5, ShownFromFirst
<1> QED
  BY <1>2, <1>5, <1>6, <1>7 DEF RecoveredImage

\* Whenever the first process is killed, the database and the WAL file alone
\* hold the last commit, or the one that was about to be published: what
\* walIndexRecover finds then is what had been committed, through spills,
\* rollbacks, checkpoints and restarts that left the frames of an older log
\* behind (if nobody restarts the log between a checkpointer's read of the
\* header and its load of nBackfill).
THEOREM RecoverableUntilCrash == Spec => [](~CkptPreempt /\ nCrash = 0 => Recoverable)
<1>1. ASSUME IInv, VersionInv, CounterInv, ImageInv, FileInv PROVE Recoverable
  <2>0. /\ FileTypes /\ ShmTypes /\ HdrTypes /\ HistTypes /\ LogCoversHdr /\ CurrentShown /\ SizeKnown
        /\ LogCurrent /\ LogTail /\ OldLog
        /\ \A c \in Conn : WriterHdr(c) /\ PendingImage(c) /\ WriterLog(c)
    BY <1>1, KnownFacts DEF IInv, CounterInv, ImageInv, FileInv
  <2>1. CASE ~Publishing
    <3>1. RecoveredImage = LastImage
      BY <2>0, <2>1, FilesHaveLast
    <3> QED
      BY <3>1 DEF Recoverable, RecoveredImage, LastImage
  <2>2. CASE Publishing
    <3>1. PICK c \in Conn : pc[c] \in PublishPCs
      BY <2>2 DEF Publishing
    <3>2. RecoveredImage = pend.img /\ pend.txn # 0
      BY <2>0, <3>1, FilesHavePending
    <3> QED
      BY <3>2 DEF Recoverable, RecoveredImage
  <2> QED
    BY <2>1, <2>2
<1>2. IInv /\ VersionsUntilCrash /\ CountersUntilCrash /\ ImagesUntilCrash /\ FilesUntilCrash =>
          (~CkptPreempt /\ nCrash = 0 => Recoverable)
  BY <1>1 DEF VersionsUntilCrash, CountersUntilCrash, ImagesUntilCrash, FilesUntilCrash
<1> QED
  BY <1>2, InductiveInvariant, VersionInvariant, CounterInvariant, ImageInvariant, FileInvariant, PTL

(***************************************************************************)
(* Transactions                                                            *)
(***************************************************************************)
\* A transaction is begun and ended by a few steps.
TxnMoves(c) ==
    /\ InTxn(c) => InTxn(c)' \/ EndRead(c)
    /\ ~(WriteCheck(c) \/ Publish0(c) \/ Rollback(c)) => (IsWriting(c)' <=> IsWriting(c))

LEMMA StepMoves ==
    ASSUME NEW c \in Conn, LiveStep(c), ControlTypes, Own(c)
    PROVE  TxnMoves(c)
<1> USE LockNumbers, ConnAssumption DEF ControlTypes, Own, CkptControl, MarkControl,
    WriterLock, bWriteLock, InCkpt, RestartPCs, WritePCs, TryPCs, CkptPCs,
    WriterPCs, OneMarkPCs, RecPCs, lockVars, ckptVars, TxnMoves, InTxn, IsWriting, InWrite
<1>1. CASE ReadHdr(c)
  BY <1>1 DEF ReadHdr, AfterHdr, walIndexTryHdr, Goto
<1>2. CASE CkptHdrBusy(c)
  BY <1>2 DEF CkptHdrBusy, CanLock, Goto
<1>3. CASE CheckBackfill(c)
  BY <1>3 DEF CheckBackfill, ToScan, Goto
<1>4. CASE Lock0(c)
  BY <1>4 DEF Lock0, Share, CanShare, ToScan, Goto
<1>5. CASE Check0(c)
  BY <1>5 DEF Check0, HdrUnchanged, Unshare, Opened, useWal, Goto
<1>6. CASE ScanMark(c)
  BY <1>6 DEF ScanMark, Goto
<1>7. CASE RaiseLock(c)
  BY <1>7 DEF RaiseLock, Lock, CanRaise, CanLock, Goto
<1>8. CASE RaiseBusy(c)
  BY <1>8 DEF RaiseBusy, Retry, ToScan, Goto, useWal
<1>9. CASE RaiseSet(c)
  BY <1>9 DEF RaiseSet, Unlock, Goto
<1>10. CASE LockI(c)
  BY <1>10 DEF LockI, Share, CanShare, Retry, ToScan, Goto, useWal
<1>11. CASE LoadMinFrame(c)
  BY <1>11 DEF LoadMinFrame, FirstFrame, Goto
<1>12. CASE CheckI(c)
  BY <1>12 DEF CheckI, Unshare, Retry, ToScan, Goto, useWal, Opened
<1>13. CASE WriteCheck(c)
  BY <1>13 DEF WriteCheck, SnapshotIsCurrent, Unlock, Goto
<1>14. CASE RestartLog(c)
  BY <1>14 DEF RestartLog, Lock, LogReadLocks, CanRestart, CanLock, Goto
<1>15. CASE RestartLogEnd(c)
  BY <1>15 DEF RestartLogEnd, Unlock, Unshare, LogReadLocks, ToScan, Goto, CanRestart, CanLock
<1>16. CASE RestartHdr1(c)
  BY <1>16 DEF RestartHdr1, Goto
<1>17. CASE RestartHdr0(c)
  BY <1>17 DEF RestartHdr0, Goto
<1>18. CASE RestartInfo(c)
  BY <1>18 DEF RestartInfo, RestartBackfill, RestartAttempted, Reset, Goto
<1>19. CASE RestartMarks(c)
  BY <1>19 DEF RestartMarks, Goto
<1>20. CASE Publish1(c)
  BY <1>20 DEF Publish1, Goto
<1>21. CASE Publish0(c)
  BY <1>21 DEF Publish0, Goto
<1>22. CASE EndWrite(c)
  BY <1>22 DEF EndWrite, Unlock, Goto
<1>23. CASE CkptWriter(c)
  BY <1>23 DEF CkptWriter, Lock, CanLock, Goto
<1>24. CASE CkptInfo(c)
  BY <1>24 DEF CkptInfo, AfterCopy, Goto
<1>25. CASE CkptMark(c)
  BY <1>25 DEF CkptMark, Goto
<1>26. CASE CkptMarkBusy(c)
  BY <1>26 DEF CkptMarkBusy, SafeWithReader, CanLock, Goto
<1>27. CASE CkptMarkLock(c)
  BY <1>27 DEF CkptMarkLock, Lock, CanLock, Goto
<1>28. CASE CkptMarkSet(c)
  BY <1>28 DEF CkptMarkSet, Unlock, Goto
<1>29. CASE CkptLock0(c)
  BY <1>29 DEF CkptLock0, Goto, AfterCopy
<1>30. CASE CkptCopy(c)
  BY <1>30 DEF CkptCopy
<1>31. CASE CkptTruncateDb(c)
  BY <1>31 DEF CkptTruncateDb, Goto
<1>32. CASE CkptDone(c)
  BY <1>32 DEF CkptDone, Goto
<1>33. CASE CkptUnlock0(c)
  BY <1>33 DEF CkptUnlock0, Unlock, AfterCopy, Goto
<1>34. CASE CkptRestart(c)
  BY <1>34 DEF CkptRestart, Lock, CanLock, LogReadLocks, WantsRestart, AfterDrain, Goto
<1>35. CASE CkptNoRestart(c)
  BY <1>35 DEF CkptNoRestart, CanLock, LogReadLocks, WantsRestart, Goto
<1>36. CASE CkptTruncateLog(c)
  BY <1>36 DEF CkptTruncateLog, Goto
<1>37. CASE CkptUnlock(c)
  BY <1>37 DEF CkptUnlock, Unlock, LogReadLocks, Goto
<1>38. CASE CkptEnd(c)
  BY <1>38 DEF CkptEnd, HdrAfterCkpt, Unlock, Goto
<1>39. CASE BeginRead(c)
  BY <1>39 DEF BeginRead, Goto
<1>40. CASE ReadFails(c)
  BY <1>40 DEF ReadFails, Goto
<1>41. CASE EndRead(c)
  BY <1>41 DEF EndRead, Unshare, Goto
<1>42. CASE BeginWrite(c)
  BY <1>42 DEF BeginWrite, Lock, CanLock, Goto
<1>43. CASE WriteWalHdr(c)
  BY <1>43 DEF WriteWalHdr, Goto
<1>44. CASE Spill(c)
  BY <1>44 DEF Spill, InFrames, Goto
<1>45. CASE Commit(c)
  BY <1>45 DEF Commit, InFrames, Goto
<1>46. CASE Rollback(c)
  BY <1>46 DEF Rollback, TxnUsed, Unlock, Goto
<1>47. CASE BeginCkpt(c)
  BY <1>47 DEF BeginCkpt, Lock, CanLock, Goto
<1>48. CASE CkptInterrupt(c)
  BY <1>48 DEF CkptInterrupt, Unlock, Goto
<1> QED
  BY <1>1, <1>2, <1>3, <1>4, <1>5, <1>6, <1>7, <1>8, <1>9, <1>10, <1>11, <1>12, <1>13, <1>14, <1>15,
      <1>16, <1>17, <1>18, <1>19, <1>20, <1>21, <1>22, <1>23, <1>24, <1>25, <1>26, <1>27, <1>28,
      <1>29, <1>30, <1>31, <1>32, <1>33, <1>34, <1>35, <1>36, <1>37, <1>38, <1>39, <1>40, <1>41,
      <1>42, <1>43, <1>44, <1>45, <1>46, <1>47, <1>48, Zenon DEF LiveStep

\* Only one connection writes.
LEMMA OneWrites ==
    ASSUME IInv, NEW c \in Conn, NEW d \in Conn, lockX[WAL_WRITE_LOCK] = c, c # d
    PROVE  ~InWrite(d) /\ ~IsWriting(d) /\ pc[d] \notin PublishPCs
<1>1. Own(d)
  BY IInvByConn DEF ConnInv
<1>2. ~InWrite(d)
  BY <1>1, LocksOfData
<1> QED
  BY <1>2 DEF IsWriting, InWrite, WritePCs, PublishPCs

\* A step of c leaves the transactions of the others alone.
LEMMA OthersTxn ==
    ASSUME NEW c \in Conn, NEW d \in Conn \ {c}, Kept(c, d)
    PROVE  /\ IsWriting(d)' <=> IsWriting(d)
           /\ InTxn(d)' <=> InTxn(d)
           /\ pc'[d] = pc[d] /\ snap'[d] = snap[d]
  BY LockNumbers DEF Kept, IsWriting, InTxn, InWrite

\* A version is that of a transaction.
LEMMA OwnSnap ==
    ASSUME IInv, NEW c \in Conn, Changes(c), Arrives(c), TxnMoves(c), snap[c] # 0 => InTxn(c)
    PROVE  snap'[c] # 0 => InTxn(c)'
<1>0. ControlTypes /\ HistTypes
  BY DEF IInv, TypeOK
<1>1. CASE Publish0(c)
  <2>1. pc'[c] = "endWrite"
    BY <1>0, <1>1 DEF ControlTypes, Publish0, Goto
  <2> QED
    BY <2>1 DEF InTxn, InWrite, WritePCs
<1>2. CASE EndRead(c)
  BY <1>0, <1>2 DEF HistTypes, EndRead
<1>3. CASE snap' = snap /\ ~EndRead(c)
  BY <1>3 DEF TxnMoves
<1>4. CASE (Check0(c) \/ CheckI(c)) /\ snap' # snap
  <2>1. pc'[c] = "read"
    BY <1>0, <1>4 DEF ControlTypes, Check0, CheckI, Opened, Goto, viewVars
  <2> QED
    BY <2>1 DEF InTxn
<1> QED
  BY <1>1, <1>2, <1>3, <1>4 DEF Changes

\* The numbers stay in order.
LEMMA NumbersStep ==
    ASSUME IInv, VersionInv, TxnNumbers, NEW c \in Conn, Step(c)
    PROVE  TxnNumbers'
<1> DEFINE last == hist[Len(hist)].txn
<1>0. /\ ControlTypes /\ HistTypes /\ Own(c) /\ TxnInv(c)
  BY KnownFacts
<1>1. LiveStep(c) /\ Changes(c) /\ Arrives(c) /\ \A d \in Conn \ {c} : Kept(c, d)
  BY StepFacts
<1>2. TxnMoves(c)
  BY <1>0, <1>1, StepMoves
<1>3. \A d \in Conn : snap'[d] # 0 => InTxn(d)'
  BY <1>1, <1>2, OwnSnap, OthersTxn DEF TxnNumbers
<1>4. last \in Nat /\ txn \in Nat /\ last <= txn /\ Len(hist) \in Nat /\ pend \in Version
  <2>1. hist[Len(hist)] \in Version
    BY <1>0 DEF HistTypes
  <2> QED
    BY <1>0, <2>1, BoundAssumption DEF HistTypes, Version, Txn, TxnNumbers
<1>5. \A d \in Conn \ {c} : lockX[WAL_WRITE_LOCK] = c => ~IsWriting(d)' /\ pc'[d] \notin PublishPCs
  BY <1>1, OneWrites, OthersTxn
<1>6. pc[c] \in WritePCs => lockX[WAL_WRITE_LOCK] = c
  BY <1>0 DEF Own, WriterLock, WriterPCs
<1>7. CASE Publish0(c)
  <2>1. /\ pc[c] = "publish0" /\ pc'[c] = "endWrite" /\ hist' = Append(hist, pend)
        /\ pend' = pend /\ txn' = txn
    BY <1>0, <1>7 DEF ControlTypes, Publish0, Goto
  <2>2. hist'[Len(hist')] = pend /\ pend.txn = txn
    BY <1>0, <2>1 DEF HistTypes, TxnNumbers
  <2>3. \A d \in Conn : ~IsWriting(d)' /\ pc'[d] \notin PublishPCs
    BY <1>5, <1>6, <2>1 DEF WritePCs, IsWriting, PublishPCs
  <2> QED
    BY <1>3, <1>4, <2>1, <2>2, <2>3 DEF TxnNumbers, PublishPCs
<1>8. CASE WriteCheck(c)
  <2>1. /\ pc[c] = "writeCheck" /\ hist' = hist
        /\ (txn' = txn /\ pc'[c] = "read") \/ (txn' = txn + 1 /\ pc'[c] = "write")
    BY <1>0, <1>8 DEF ControlTypes, WriteCheck, Goto
  <2>2. \A d \in Conn \ {c} : ~IsWriting(d)' /\ pc'[d] \notin PublishPCs
    BY <1>5, <1>6, <2>1 DEF WritePCs
  <2>3. IsWriting(c)' => pc'[c] # "read"
    BY DEF IsWriting, InWrite, WritePCs, RestartPCs, TryPCs
  <2> QED
    BY <1>3, <1>4, <2>1, <2>2, <2>3 DEF TxnNumbers, PublishPCs
<1>9. CASE Rollback(c)
  <2>1. /\ pc[c] \in {"write", "frames"} /\ hist' = hist
        /\ (txn' = txn \/ txn' = txn - 1) /\ pc'[c] = "read"
    BY <1>0, <1>9 DEF ControlTypes, Rollback, Goto
  <2>2. \A d \in Conn : ~IsWriting(d)' /\ pc'[d] \notin PublishPCs
    BY <1>5, <1>6, <2>1 DEF WritePCs, PublishPCs, IsWriting, InWrite, RestartPCs, TryPCs
  <2>3. last < txn
    BY <2>1 DEF TxnNumbers, IsWriting, InWrite, WritePCs
  <2>4. last <= txn'
    BY <1>4, <2>1, <2>3
  <2> QED
    BY <1>3, <2>1, <2>2, <2>4 DEF TxnNumbers, PublishPCs
<1>10. CASE ~(Publish0(c) \/ WriteCheck(c) \/ Rollback(c))
  <2>1. hist' = hist /\ txn' = txn
    BY <1>1, <1>10 DEF Changes
  <2>2. \A d \in Conn : IsWriting(d)' => IsWriting(d)
    BY <1>1, <1>2, <1>10, OthersTxn DEF TxnMoves
  <2>3. ASSUME NEW d \in Conn, pc'[d] \in PublishPCs PROVE pend'.txn = txn
    <3>1. CASE Commit(c)
      <4>1. pend'.txn = txn
        BY <3>1 DEF Commit
      <4> QED
        BY <4>1
    <3>2. CASE Spill(c)
      <4>1. pc[c] \in WritePCs /\ pc'[c] = "write"
        BY <1>0, <3>2 DEF ControlTypes, Spill, InFrames, Goto, WritePCs
      <4> QED
        BY <1>5, <1>6, <2>3, <4>1 DEF PublishPCs
    <3>3. CASE ~Commit(c) /\ ~Spill(c)
      <4>1. pend' = pend
        BY <1>1, <3>3 DEF Changes
      <4>2. pc[d] \in PublishPCs
        <5>1. CASE d = c
          BY <1>1, <2>3, <3>3, <5>1 DEF Arrives, PublishPCs, Publish1
        <5>2. CASE d # c
          BY <1>1, <2>3, <5>2, OthersTxn
        <5> QED
          BY <5>1, <5>2
      <4> QED
        BY <4>1, <4>2 DEF TxnNumbers, PublishPCs
    <3> QED
      BY <3>1, <3>2, <3>3
  <2> QED
    BY <1>3, <2>1, <2>2, <2>3 DEF TxnNumbers, PublishPCs
<1> QED
  BY <1>7, <1>8, <1>9, <1>10

NumbersUntilCrash == nCrash = 0 => TxnNumbers

LEMMA NumbersInit == Init => NumbersUntilCrash
<1> SUFFICES ASSUME Init PROVE TxnNumbers
  BY DEF NumbersUntilCrash
<1>1. hist[Len(hist)].txn = 1 /\ txn = 1 /\ \A c \in Conn : pc[c] = "idle" /\ snap[c] = 0
  BY DEF Init
<1> QED
  BY <1>1 DEF TxnNumbers, IsWriting, InWrite, WritePCs, RestartPCs, TryPCs

LEMMA NumbersNext ==
    ASSUME IInv, VersionsUntilCrash, NumbersUntilCrash, [Next]_vars
    PROVE  NumbersUntilCrash'
<1> SUFFICES ASSUME nCrash' = 0 PROVE TxnNumbers'
  BY DEF NumbersUntilCrash
<1>n. nCrash \in Nat
  BY BoundAssumption DEF IInv, TypeOK, HistTypes
<1>1. CASE Next
  <2>1. CASE CrashAll \/ \E c \in Conn : Crash(c)
    <3>1. nCrash' = nCrash + 1
      BY <2>1 DEF CrashAll, Crash
    <3> QED
      BY <1>n, <3>1
  <2>2. ASSUME NEW c \in Conn, Step(c) PROVE TxnNumbers'
    <3>1. nCrash = 0
      BY <2>2, CrashCount
    <3> QED
      BY <2>2, <3>1, NumbersStep DEF VersionsUntilCrash, NumbersUntilCrash
  <2> QED
    BY <1>1, <2>1, <2>2 DEF Next, Step
<1>2. CASE UNCHANGED vars
  <2>1. /\ hist' = hist /\ txn' = txn /\ pend' = pend /\ pc' = pc /\ eMode' = eMode /\ lockX' = lockX
        /\ snap' = snap /\ nCrash' = nCrash
    BY <1>2 DEF vars, lockVars, ckptVars, commitVars, viewVars
  <2> QED
    BY <2>1 DEF NumbersUntilCrash, TxnNumbers, IsWriting, InTxn, InWrite
<1> QED
  BY <1>1, <1>2

(***************************************************************************)
(* The mapping                                                             *)
(***************************************************************************)
\* What the header shows is the last version,
LEMMA CurrentIsLast ==
    ASSUME IInv, ImageInv
    PROVE  CurrentImage = LastImage
<1>0. FileTypes /\ ShmTypes /\ HdrTypes /\ HistTypes /\ CurrentShown /\ SizeKnown
  BY DEF IInv, TypeOK, ImageInv
<1>1. /\ nBackfill \in Nat /\ aHdr[0].mxFrame \in Nat /\ aHdr[0].nPage \in Nat /\ LastImage \in Image
  BY <1>0, HdrNumbers, LastIsImage
<1>2. /\ nBackfill + 1 \in 1..(nBackfill + 1) /\ nBackfill + 1 \in Nat /\ nBackfill + 1 >= 1
      /\ aHdr[0].nPage = 0 => aHdr[0].mxFrame = 0
  BY <1>0, <1>1 DEF SizeKnown
<1>3. Shows(db, log, nBackfill + 1, aHdr[0].mxFrame, aHdr[0].nPage, LastImage)
  BY <1>0, <1>2 DEF CurrentShown
<1>4. ImageOf(nBackfill + 1, aHdr[0].mxFrame, IF aHdr[0].nPage = 0 THEN SizeOf(db) ELSE aHdr[0].nPage)
        = LastImage
  BY <1>0, <1>1, <1>2, <1>3, ShownIsImage
<1> QED
  BY <1>4 DEF CurrentImage, LastImage

\* and the files show what the history says.
LEMMA FilesMapped ==
    ASSUME IInv, VersionInv, CounterInv, ImageInv, TxnNumbers
    PROVE  Mapped
<1>1. CurrentImage = hist[Len(hist)].img
  BY CurrentIsLast DEF LastImage
<1>2. ASSUME NEW c \in Conn
      PROVE  ViewOf(c) = IF snap[c] # 0 THEN hist[snap[c]].img ELSE None
  <2>1. CASE pc[c] \in {"read", "writeCheck"}
    <3>1. snap[c] # 0
      BY <2>1, KnownFacts DEF TxnInv, InWrite, WritePCs, HistTypes
    <3>2. ReadImage(c) = hist[snap[c]].img
      BY <2>1, ReaderReads
    <3> QED
      BY <2>1, <3>1, <3>2 DEF ViewOf
  <2> QED
    BY <2>1 DEF ViewOf
<1>3. ASSUME NEW c \in Conn, IsWriting(c) PROVE TheWriter = c
  <2>1. InWrite(c) /\ Own(c)
    BY <1>3, KnownFacts DEF IsWriting
  <2>2. lockX[WAL_WRITE_LOCK] = c
    BY <2>1, LocksOfData
  <2>3. \A d \in Conn : IsWriting(d) => d = c
    BY <2>2, OneWrites
  <2> QED
    BY <1>3, <2>3 DEF TheWriter
<1>4. ASSUME NEW c \in Conn, IsWriting(c)
      PROVE  DraftOf(c) = IF pc[c] \in {"publish1", "publish0"} THEN pend.img ELSE work
  <2>1. CASE pc[c] \in {"write", "frames"}
    <3>0. work \in Image /\ FileTypes /\ HdrTypes
      BY KnownFacts DEF HistTypes
    <3>1. \A p \in Page : p <= DbSize(c) => ReadImage(c)[p] = work[p]
      <4>1. DbSize(c) \in Nat
        BY <3>0, DbEnds, BoundAssumption DEF DbSize, HdrTypes, Header
      <4>2. \A p \in Page : p <= DbSize(c) => p \in 1..DbSize(c)
        BY <4>1, BoundAssumption DEF Page
      <4> QED
        BY <2>1, <4>2, WriterReads
    <3>2. DraftOf(c) = [p \in Page |-> work[p]]
      BY <2>1, <3>1 DEF DraftOf
    <3> QED
      BY <2>1, <3>0, <3>2 DEF Image
  <2> QED
    BY <2>1 DEF DraftOf
<1> QED
  BY <1>1, <1>2, <1>3, <1>4 DEF Mapped

MappedUntilCrash == ~CkptPreempt /\ nCrash = 0 => Mapped

LEMMA MappedInvariant == Spec => [](NumbersUntilCrash /\ MappedUntilCrash)
<1>1. Spec => []NumbersUntilCrash
  BY NumbersInit, NumbersNext, InductiveInvariant, VersionInvariant, PTL DEF Spec
<1>2. IInv /\ VersionsUntilCrash /\ CountersUntilCrash /\ ImagesUntilCrash /\ NumbersUntilCrash =>
          MappedUntilCrash
  BY FilesMapped DEF VersionsUntilCrash, CountersUntilCrash, ImagesUntilCrash, NumbersUntilCrash,
     MappedUntilCrash
<1> QED
  BY <1>1, <1>2, InductiveInvariant, VersionInvariant, CounterInvariant, ImageInvariant, PTL

(***************************************************************************)
(* The steps                                                               *)
(***************************************************************************)
\* The variables of WalAbstract, as the history has them.
MappedView == [c \in Conn |-> IF snap[c] # 0 THEN hist[snap[c]].img ELSE None]
MappedDraft ==
    IF TheWriter = None THEN None
    ELSE IF pc[TheWriter] \in {"publish1", "publish0"} THEN pend.img ELSE work
MappedLimbo == IF pend.txn = 0 \/ pend = hist[Len(hist)] THEN None ELSE pend.img

\* The writer is the connection that writes, if one does.
WriterIs ==
    /\ TheWriter = None \/ (TheWriter \in Conn /\ IsWriting(TheWriter))
    /\ (\A c \in Conn : ~IsWriting(c)) => TheWriter = None
    /\ \A c \in Conn : IsWriting(c) => TheWriter # None

LEMMA WriterFacts == WriterIs
<1>1. CASE \E c \in Conn : IsWriting(c)
  <2>1. TheWriter \in Conn /\ IsWriting(TheWriter)
    BY <1>1 DEF TheWriter
  <2> QED
    BY <1>1, <2>1, ConnAssumption DEF WriterIs
<1>2. CASE \A c \in Conn : ~IsWriting(c)
  BY <1>2 DEF TheWriter, WriterIs
<1> QED
  BY <1>1, <1>2

\* What the mapping reads from the files is what the history has.
MappingIs ==
    /\ CurrentImage = LastImage
    /\ [c \in Conn |-> ViewOf(c)] = MappedView
    /\ (IF TheWriter = None THEN None ELSE DraftOf(TheWriter)) = MappedDraft
    /\ \A c \in Conn : IsWriting(c) => TheWriter = c

LEMMA MappingFacts == Mapped => MappingIs
<1> SUFFICES ASSUME Mapped PROVE MappingIs
  OBVIOUS
<1>1. TheWriter # None => TheWriter \in Conn /\ IsWriting(TheWriter)
  BY WriterFacts DEF WriterIs
<1>2. (IF TheWriter = None THEN None ELSE DraftOf(TheWriter)) = MappedDraft
  BY <1>1 DEF Mapped, MappedDraft
<1>3. [c \in Conn |-> ViewOf(c)] = MappedView
  BY DEF Mapped, MappedView
<1> QED
  BY <1>2, <1>3 DEF Mapped, MappingIs, LastImage

\* The same after a step.
LEMMA FactsNext == WriterIs' /\ (Mapped' => MappingIs')
  BY WriterFacts, MappingFacts, PTL

\* A step that no transaction notices.
Unnoticed ==
    /\ LastImage' = LastImage /\ MappedView' = MappedView /\ TheWriter' = TheWriter
    /\ MappedDraft' = MappedDraft /\ MappedLimbo' = MappedLimbo

LEMMA UnnoticedStutters ==
    ASSUME MappingIs, MappingIs', Unnoticed
    PROVE  UNCHANGED Abstract!vars
  BY DEF MappingIs, Unnoticed, MappedLimbo, Abstract!vars

LEMMA SameWriter ==
    ASSUME MappingIs, MappingIs', \A d \in Conn : IsWriting(d)' <=> IsWriting(d)
    PROVE  TheWriter' = TheWriter
<1>1. CASE \E d \in Conn : IsWriting(d)
  BY <1>1 DEF MappingIs
<1>2. CASE \A d \in Conn : ~IsWriting(d)
  BY <1>2, WriterFacts, FactsNext DEF WriterIs
<1> QED
  BY <1>1, <1>2

\* The steps that matter.
ViewStep(c) ==
    \/ WriteCheck(c) \/ Publish0(c) \/ Rollback(c) \/ Commit(c) \/ Spill(c) \/ Check0(c)
    \/ CheckI(c) \/ EndRead(c)

\* The draft stays if nobody starts or ends a commit.
LEMMA SameDraft ==
    ASSUME MappingIs, MappingIs', \A d \in Conn : IsWriting(d)' <=> IsWriting(d),
           work' = work \/ \A d \in Conn : ~IsWriting(d), pend' = pend,
           \A d \in Conn : pc'[d] \in PublishPCs <=> pc[d] \in PublishPCs
    PROVE  MappedDraft' = MappedDraft
<1>1. TheWriter' = TheWriter
  BY SameWriter
<1>2. CASE TheWriter = None
  BY <1>1, <1>2 DEF MappedDraft
<1>3. CASE TheWriter \in Conn /\ IsWriting(TheWriter)
  BY <1>1, <1>3 DEF MappedDraft, PublishPCs
<1> QED
  BY <1>2, <1>3, WriterFacts DEF WriterIs

\* Other steps are not noticed.
LEMMA OtherSteps ==
    ASSUME IInv, VersionInv, MappingIs, MappingIs', NEW c \in Conn, Step(c), ~ViewStep(c)
    PROVE  Unnoticed
<1>0. /\ ControlTypes /\ HistTypes /\ Own(c)
  BY KnownFacts
<1>1. LiveStep(c) /\ Changes(c) /\ Arrives(c) /\ \A d \in Conn \ {c} : Kept(c, d)
  BY StepFacts
<1>2. TxnMoves(c)
  BY <1>0, <1>1, StepMoves
<1>3. \A d \in Conn : IsWriting(d)' <=> IsWriting(d)
  BY <1>1, <1>2, OthersTxn DEF TxnMoves, ViewStep
<1>4. hist' = hist /\ snap' = snap /\ pend' = pend /\ (work' = work \/ EndWrite(c))
  BY <1>1 DEF Changes, ViewStep
<1>5. ASSUME EndWrite(c), NEW d \in Conn PROVE ~IsWriting(d)
  <2>1. pc[c] = "endWrite"
    BY <1>5 DEF EndWrite
  <2>2. lockX[WAL_WRITE_LOCK] = c
    BY <1>0, <2>1 DEF Own, WriterLock, WriterPCs, WritePCs
  <2> QED
    BY <2>1, <2>2, OneWrites DEF IsWriting
<1>6. \A d \in Conn : pc'[d] \in PublishPCs <=> pc[d] \in PublishPCs
  <2>1. pc'[c] \in PublishPCs => pc[c] \in PublishPCs
    BY <1>1 DEF Arrives, PublishPCs, ViewStep, Publish1
  <2>2. pc[c] \in PublishPCs => pc'[c] \in PublishPCs
    BY <1>1 DEF Arrives, PublishPCs, ViewStep, EndWrite
  <2> QED
    BY <1>1, <2>1, <2>2, OthersTxn
<1>7. TheWriter' = TheWriter
  BY <1>3, SameWriter
<1>8. MappedDraft' = MappedDraft
  BY <1>3, <1>4, <1>5, <1>6, SameDraft
<1> QED
  BY <1>4, <1>7, <1>8 DEF Unnoticed, LastImage, MappedView, MappedLimbo

\* A transaction begins with the last version.
LEMMA OpenStep ==
    ASSUME IInv, VersionInv, TxnNumbers, MappingIs, MappingIs', NEW c \in Conn, Step(c),
           Check0(c) \/ CheckI(c)
    PROVE  Unnoticed \/ Abstract!Begin(c)
<1>0. /\ ControlTypes /\ HistTypes /\ Own(c)
  BY KnownFacts
<1>1. LiveStep(c) /\ Arrives(c) /\ \A d \in Conn \ {c} : Kept(c, d)
  BY StepFacts
<1>2. TxnMoves(c)
  BY <1>0, <1>1, StepMoves
<1>3. pc[c] \in {"check0", "checkI"} /\ hist' = hist /\ work' = work /\ pend' = pend
  BY DEF Check0, CheckI, commitVars
<1>4. \A d \in Conn : IsWriting(d)' <=> IsWriting(d)
  BY <1>1, <1>2, <1>3, OthersTxn DEF TxnMoves, WriteCheck, Publish0, Rollback
<1>5. \A d \in Conn : pc'[d] \in PublishPCs <=> pc[d] \in PublishPCs
  BY <1>1, <1>3, OthersTxn DEF Arrives, PublishPCs, Publish1, Commit, InFrames
<1>6. /\ TheWriter' = TheWriter /\ MappedDraft' = MappedDraft /\ MappedLimbo' = MappedLimbo
      /\ LastImage' = LastImage
  BY <1>3, <1>4, <1>5, SameWriter, SameDraft DEF MappedLimbo, LastImage
<1>7. snap' = snap \/ (snap' = [snap EXCEPT ![c] = Len(hist)] /\ ~useWal(c))
  BY DEF Check0, CheckI, Opened, viewVars
<1>8. CASE snap' = snap
  BY <1>3, <1>6, <1>8 DEF Unnoticed, MappedView
<1>9. CASE snap' = [snap EXCEPT ![c] = Len(hist)] /\ ~useWal(c)
  <2>1. snap[c] = 0
    BY <1>3, <1>9 DEF TxnNumbers, InTxn, InWrite, useWal, WritePCs, RestartPCs
  <2>2. MappedView[c] = None /\ MappedView' = [MappedView EXCEPT ![c] = LastImage]
    <3>1. snap'[c] = Len(hist) /\ Len(hist) # 0 /\ \A d \in Conn \ {c} : snap'[d] = snap[d]
      BY <1>0, <1>9 DEF HistTypes
    <3>2. MappedView' = [d \in Conn |-> IF d = c THEN LastImage ELSE MappedView[d]]
      BY <1>3, <3>1 DEF MappedView, LastImage
    <3> QED
      BY <2>1, <3>2 DEF MappedView
  <2> QED
    BY <1>6, <2>2 DEF Abstract!Begin, MappingIs, MappedLimbo
<1> QED
  BY <1>7, <1>8, <1>9

\* A transaction that does not write ends.
LEMMA EndStep ==
    ASSUME IInv, VersionInv, MappingIs, MappingIs', NEW c \in Conn, Step(c), EndRead(c)
    PROVE  Unnoticed \/ Abstract!End(c)
<1>0. /\ ControlTypes /\ HistTypes /\ Own(c)
  BY KnownFacts
<1>1. LiveStep(c) /\ Arrives(c) /\ \A d \in Conn \ {c} : Kept(c, d)
  BY StepFacts
<1>2. TxnMoves(c)
  BY <1>0, <1>1, StepMoves
<1>3. /\ pc[c] = "read" /\ hist' = hist /\ work' = work /\ pend' = pend
      /\ snap' = [snap EXCEPT ![c] = 0]
  BY DEF EndRead, commitVars
<1>4. \A d \in Conn : IsWriting(d)' <=> IsWriting(d)
  BY <1>1, <1>2, <1>3, OthersTxn DEF TxnMoves, WriteCheck, Publish0, Rollback
<1>5. \A d \in Conn : pc'[d] \in PublishPCs <=> pc[d] \in PublishPCs
  BY <1>1, <1>3, OthersTxn DEF Arrives, PublishPCs, Publish1, Commit, InFrames
<1>6. /\ TheWriter' = TheWriter /\ MappedDraft' = MappedDraft /\ MappedLimbo' = MappedLimbo
      /\ LastImage' = LastImage
  BY <1>3, <1>4, <1>5, SameWriter, SameDraft DEF MappedLimbo, LastImage
<1>7. MappedView' = [MappedView EXCEPT ![c] = None]
  BY <1>0, <1>3 DEF MappedView, HistTypes
<1>8. TheWriter # c
  BY <1>3, WriterFacts, ConnAssumption DEF WriterIs, IsWriting, InWrite, WritePCs, RestartPCs, TryPCs
<1>9. CASE MappedView[c] = None
  <2>1. MappedView' = MappedView
    BY <1>7, <1>9 DEF MappedView
  <2> QED
    BY <1>6, <2>1 DEF Unnoticed
<1>10. CASE MappedView[c] # None
  BY <1>6, <1>7, <1>8, <1>10 DEF Abstract!End, MappingIs, MappedLimbo
<1> QED
  BY <1>9, <1>10

\* A transaction that reads the last version is made to write.
LEMMA WriteCheckStep ==
    ASSUME IInv, VersionInv, MappingIs, MappingIs', NEW c \in Conn, Step(c), WriteCheck(c)
    PROVE  Unnoticed \/ Abstract!BeginWrite(c)
<1>0. /\ ControlTypes /\ ShmTypes /\ HdrTypes /\ HistTypes /\ Own(c) /\ TxnInv(c)
  BY KnownFacts
<1>1. \A d \in Conn \ {c} : Kept(c, d)
  BY StepFacts
<1>2. /\ pc[c] = "writeCheck" /\ hist' = hist /\ pend' = pend /\ snap' = snap
      /\ lockX[WAL_WRITE_LOCK] = c
  BY <1>0 DEF WriteCheck, viewVars, Own, WriterLock, WriterPCs, WritePCs
<1>3. /\ \A d \in Conn : ~IsWriting(d)
      /\ \A d \in Conn \ {c} : ~IsWriting(d)'
  BY <1>1, <1>2, OneWrites, OthersTxn DEF IsWriting
<1>4. TheWriter = None
  BY <1>3, WriterFacts DEF WriterIs
<1>5. LastImage' = LastImage /\ MappedView' = MappedView /\ MappedLimbo' = MappedLimbo
  BY <1>2 DEF LastImage, MappedView, MappedLimbo
<1>6. CASE pc'[c] = "read"
  <2>1. \A d \in Conn : ~IsWriting(d)'
    BY <1>3, <1>6 DEF IsWriting, InWrite, WritePCs, RestartPCs, TryPCs
  <2>2. TheWriter' = None
    BY <2>1, FactsNext DEF WriterIs
  <2> QED
    BY <1>4, <1>5, <2>2 DEF Unnoticed, MappedDraft
<1>7. CASE pc'[c] = "write" /\ SnapshotIsCurrent(c) /\ work' = hist[snap[c]].img
  <2>1. IsWriting(c)'
    BY <1>7 DEF IsWriting, InWrite, WritePCs
  <2>2. TheWriter' = c
    BY <2>1 DEF MappingIs
  <2>3. snap[c] = Len(hist)
    BY <1>0, <1>2, <1>7 DEF VersionInv, SnapAge, HdrCounts, SnapshotIsCurrent
  <2>4. MappedView[c] = LastImage
    BY <1>0, <2>3 DEF MappedView, LastImage, HistTypes
  <2>5. MappedDraft' = LastImage
    BY <1>7, <2>2, <2>3, ConnAssumption DEF MappedDraft, LastImage
  <2> QED
    BY <1>4, <1>5, <2>2, <2>4, <2>5 DEF Abstract!BeginWrite, MappingIs, MappedLimbo
<1> QED
  BY <1>0, <1>6, <1>7 DEF WriteCheck, Goto, ControlTypes

\* A part of the transaction is written,
LEMMA SpillStep ==
    ASSUME IInv, IInv', VersionInv, MappingIs, MappingIs', NEW c \in Conn, Step(c), Spill(c)
    PROVE  Abstract!Spill(c)
<1>0. ControlTypes /\ HistTypes' /\ Own(c)
  BY KnownFacts DEF IInv, TypeOK
<1>1. /\ hist' = hist /\ snap' = snap /\ pend'.txn = 0 /\ pc'[c] = "write"
      /\ pc[c] \in {"write", "frames"}
  BY <1>0 DEF Spill, InFrames, viewVars, Goto, ControlTypes
<1>2. IsWriting(c) /\ IsWriting(c)'
  BY <1>1 DEF IsWriting, InWrite, WritePCs
<1>3. TheWriter = c /\ TheWriter' = c
  BY <1>2 DEF MappingIs
<1>4. MappedDraft' = work' /\ work' \in Image /\ MappedLimbo' = None
  BY <1>0, <1>1, <1>3, ConnAssumption DEF MappedDraft, MappedLimbo, HistTypes
<1>5. LastImage' = LastImage /\ MappedView' = MappedView
  BY <1>1 DEF LastImage, MappedView
<1> QED
  BY <1>3, <1>4, <1>5 DEF Abstract!Spill, Abstract!Image, Image, MappingIs, MappedLimbo

\* or all of it.
LEMMA CommitStep ==
    ASSUME IInv, IInv', VersionInv, TxnNumbers, MappingIs, MappingIs', NEW c \in Conn, Step(c),
           Commit(c)
    PROVE  Abstract!Write(c)
<1>0. ControlTypes /\ HistTypes /\ HistTypes' /\ Own(c)
  BY KnownFacts DEF IInv, TypeOK
<1>1. /\ hist' = hist /\ snap' = snap /\ pend'.txn = txn /\ pc'[c] = "publish1"
      /\ pc[c] \in {"write", "frames"}
  BY <1>0 DEF Commit, InFrames, viewVars, Goto, ControlTypes
<1>2. IsWriting(c) /\ IsWriting(c)'
  BY <1>1 DEF IsWriting, InWrite, WritePCs
<1>3. TheWriter = c /\ TheWriter' = c
  BY <1>2 DEF MappingIs
<1>4. pend'.txn # 0 /\ pend' # hist'[Len(hist')]
  <2>1. hist[Len(hist)].txn < txn
    BY <1>2 DEF TxnNumbers
  <2>2. txn \in Nat /\ txn >= 1 /\ hist[Len(hist)] \in Version
    BY <1>0, BoundAssumption DEF HistTypes
  <2>3. hist[Len(hist)].txn \in Nat
    BY <2>2, BoundAssumption DEF Version, Txn
  <2> QED
    BY <1>1, <2>1, <2>2, <2>3
<1>5. MappedDraft' = pend'.img /\ pend'.img \in Image /\ MappedLimbo' = pend'.img
  BY <1>0, <1>1, <1>3, <1>4, ConnAssumption DEF MappedDraft, MappedLimbo, HistTypes, Version
<1>6. LastImage' = LastImage /\ MappedView' = MappedView
  BY <1>1 DEF LastImage, MappedView
<1> QED
  BY <1>3, <1>5, <1>6 DEF Abstract!Write, Abstract!Image, Image, MappingIs, MappedLimbo

\* It becomes the last version,
LEMMA PublishStep ==
    ASSUME IInv, VersionInv, TxnNumbers, MappingIs, MappingIs', NEW c \in Conn, Step(c), Publish0(c)
    PROVE  Abstract!Commit(c)
<1>0. ControlTypes /\ HistTypes /\ Own(c) /\ \A d \in Conn : TxnInv(d)
  BY KnownFacts
<1>1. \A d \in Conn \ {c} : Kept(c, d)
  BY StepFacts
<1>2. /\ hist' = Append(hist, pend) /\ snap' = [snap EXCEPT ![c] = Len(hist')] /\ pend' = pend
      /\ pc[c] = "publish0" /\ pc'[c] = "endWrite"
  BY <1>0 DEF Publish0, Goto, ControlTypes
<1>3. /\ hist'[Len(hist')] = pend /\ Len(hist') = Len(hist) + 1 /\ Len(hist) \in Nat
      /\ \A v \in 1..Len(hist) : hist'[v] = hist[v]
  BY <1>0, <1>2 DEF HistTypes
<1>4. IsWriting(c) /\ lockX[WAL_WRITE_LOCK] = c
  BY <1>0, <1>2 DEF IsWriting, InWrite, WritePCs, Own, WriterLock, WriterPCs
<1>5. TheWriter = c
  BY <1>4 DEF MappingIs
<1>6. TheWriter' = None
  <2>1. \A d \in Conn : ~IsWriting(d)'
    BY <1>1, <1>2, <1>4, OneWrites, OthersTxn DEF IsWriting
  <2> QED
    BY <2>1, FactsNext DEF WriterIs
<1>7. pend.txn # 0 /\ pend # hist[Len(hist)]
  <2>1. hist[Len(hist)].txn < txn /\ pend.txn = txn
    BY <1>2, <1>4 DEF TxnNumbers
  <2>2. txn \in Nat /\ txn >= 1 /\ hist[Len(hist)] \in Version
    BY <1>0, BoundAssumption DEF HistTypes
  <2>3. hist[Len(hist)].txn \in Nat
    BY <2>2, BoundAssumption DEF Version, Txn
  <2> QED
    BY <2>1, <2>2, <2>3
<1>8. MappedDraft = pend.img /\ MappedLimbo = pend.img
  BY <1>2, <1>5, <1>7, ConnAssumption DEF MappedDraft, MappedLimbo
<1>9. LastImage' = pend.img /\ MappedDraft' = None /\ MappedLimbo' = None
  BY <1>2, <1>3, <1>6 DEF LastImage, MappedDraft, MappedLimbo
<1>10. MappedView' = [MappedView EXCEPT ![c] = pend.img]
  <2>1. /\ snap'[c] = Len(hist') /\ Len(hist') # 0
        /\ \A d \in Conn \ {c} : snap'[d] = snap[d] /\ (snap[d] # 0 => snap[d] \in 1..Len(hist))
    BY <1>0, <1>2, <1>3 DEF HistTypes, TxnInv
  <2>2. MappedView' = [d \in Conn |-> IF d = c THEN pend.img ELSE MappedView[d]]
    BY <1>3, <2>1 DEF MappedView
  <2> QED
    BY <2>2 DEF MappedView
<1> QED
  BY <1>5, <1>6, <1>8, <1>9, <1>10 DEF Abstract!Commit, MappingIs, MappedLimbo

\* or is given up.
LEMMA RollbackStep ==
    ASSUME IInv, VersionInv, MappingIs, MappingIs', NEW c \in Conn, Step(c), Rollback(c)
    PROVE  Abstract!Rollback(c)
<1>0. ControlTypes /\ Own(c)
  BY KnownFacts
<1>1. \A d \in Conn \ {c} : Kept(c, d)
  BY StepFacts
<1>2. /\ hist' = hist /\ snap' = snap /\ pend' = pend /\ pc[c] \in {"write", "frames"} /\ pc'[c] = "read"
  BY <1>0 DEF Rollback, viewVars, Goto, ControlTypes
<1>3. IsWriting(c) /\ lockX[WAL_WRITE_LOCK] = c
  BY <1>0, <1>2 DEF IsWriting, InWrite, WritePCs, Own, WriterLock, WriterPCs
<1>4. TheWriter = c
  BY <1>3 DEF MappingIs
<1>5. TheWriter' = None
  <2>1. \A d \in Conn : ~IsWriting(d)'
    BY <1>1, <1>2, <1>3, OneWrites, OthersTxn DEF IsWriting, InWrite, WritePCs, RestartPCs, TryPCs
  <2> QED
    BY <2>1, FactsNext DEF WriterIs
<1>6. /\ LastImage' = LastImage /\ MappedView' = MappedView /\ MappedLimbo' = MappedLimbo
      /\ MappedDraft' = None
  BY <1>2, <1>5 DEF LastImage, MappedView, MappedLimbo, MappedDraft
<1> QED
  BY <1>4, <1>5, <1>6 DEF Abstract!Rollback, MappingIs, MappedLimbo

\* Connections die, and the others notice nothing.
LEMMA DeathMapped ==
    ASSUME MappingIs, NEW C \in SUBSET Conn, CurrentImage' = CurrentImage, pend' = pend, hist' = hist,
           \A d \in C : pc'[d] = "idle" /\ snap'[d] = 0,
           \A d \in Conn \ C : /\ ViewOf(d)' = ViewOf(d) /\ (IsWriting(d)' <=> IsWriting(d))
                               /\ IsWriting(d) => DraftOf(d)' = DraftOf(d)
    PROVE  Abstract!Crash(C)
<1>1. \A d \in C : ViewOf(d)' = None /\ ~IsWriting(d)'
  BY DEF ViewOf, IsWriting, InWrite, WritePCs, RestartPCs, TryPCs
<1>2. [c \in Conn |-> ViewOf(c)]' = [c \in Conn |-> IF c \in C THEN None ELSE [d \in Conn |-> ViewOf(d)][c]]
  BY <1>1
<1>3. (TheWriter = None \/ (TheWriter \in Conn /\ IsWriting(TheWriter)))
      /\ \A d \in Conn : IsWriting(d) => TheWriter = d
  BY WriterFacts DEF WriterIs, MappingIs
<1>4. TheWriter' = IF TheWriter \in C THEN None ELSE TheWriter
  <2>1. CASE TheWriter \in Conn \ C
    <3>1. IsWriting(TheWriter) /\ \A d \in Conn : IsWriting(d)' => d = TheWriter
      BY <1>1, <1>3, <2>1, ConnAssumption
    <3>2. \E d \in Conn : IsWriting(d)'
      BY <2>1, <3>1
    <3> QED
      BY <2>1, <3>1, <3>2 DEF TheWriter
  <2>2. CASE TheWriter \notin Conn \ C
    <3>1. \A d \in Conn : ~IsWriting(d)'
      BY <1>1, <1>3, <2>2, ConnAssumption
    <3>2. TheWriter' = None
      BY <3>1, FactsNext DEF WriterIs
    <3> QED
      BY <1>3, <2>2, <3>2, ConnAssumption
  <2> QED
    BY <2>1, <2>2
<1>5. (IF TheWriter = None THEN None ELSE DraftOf(TheWriter))'
        = IF TheWriter \in C THEN None ELSE IF TheWriter = None THEN None ELSE DraftOf(TheWriter)
  <2>1. CASE TheWriter \in C \/ TheWriter = None
    BY <1>4, <2>1
  <2>2. CASE TheWriter \in Conn \ C
    BY <1>3, <1>4, <2>2, ConnAssumption
  <2> QED
    BY <1>3, <2>1, <2>2
<1> QED
  BY <1>2, <1>4, <1>5 DEF Abstract!Crash

\* One process dies,
LEMMA DeathOfOne ==
    ASSUME IInv, MappingIs, NEW c \in Conn, Crash(c)
    PROVE  Abstract!Crash({c})
<1>0. Own(c) /\ \A d \in Conn : Own(d)
  BY IInvByConn DEF ConnInv
<1>1. /\ db' = db /\ log' = log /\ aHdr' = aHdr /\ nBackfill' = nBackfill /\ hist' = hist /\ pend' = pend
      /\ work' = IF lockX[WAL_WRITE_LOCK] = c THEN NoImage ELSE work
      /\ ResetConn({c})
  BY DEF Crash, fileVars, shmVars, infoVars
<1>2. pc'[c] = "idle" /\ snap'[c] = 0
  BY <1>1 DEF ResetConn
<1>3. ASSUME NEW d \in Conn \ {c}
      PROVE  /\ pc'[d] = pc[d] /\ eMode'[d] = eMode[d] /\ hdr'[d] = hdr[d] /\ readLock'[d] = readLock[d]
             /\ minFrame'[d] = minFrame[d] /\ snap'[d] = snap[d]
             /\ lockX'[WAL_WRITE_LOCK] = d <=> lockX[WAL_WRITE_LOCK] = d
  BY <1>1, LockNumbers, ConnAssumption DEF ResetConn
<1>4. CurrentImage' = CurrentImage
  BY <1>1 DEF CurrentImage, HdrOk, ImageOf, LastFrame, SizeOf
<1>5. ASSUME NEW d \in Conn \ {c}
      PROVE  /\ DbSize(d)' = DbSize(d) /\ ReadImage(d)' = ReadImage(d) /\ ViewOf(d)' = ViewOf(d)
             /\ IsWriting(d)' <=> IsWriting(d)
  <2>1. /\ pc'[d] = pc[d] /\ eMode'[d] = eMode[d] /\ hdr'[d] = hdr[d] /\ readLock'[d] = readLock[d]
        /\ minFrame'[d] = minFrame[d] /\ snap'[d] = snap[d]
        /\ lockX'[WAL_WRITE_LOCK] = d <=> lockX[WAL_WRITE_LOCK] = d
    BY <1>3
  <2>2. SizeOf(db)' = SizeOf(db)
    BY <1>1 DEF SizeOf
  <2>3. DbSize(d)' = DbSize(d)
    BY <2>1, <2>2 DEF DbSize
  <2>4. ReadImage(d)' = ReadImage(d)
    BY <1>1, <2>1, <2>3 DEF ReadImage, ImageOf, LastFrame
  <2>5. ViewOf(d)' = ViewOf(d)
    BY <1>1, <2>1, <2>4 DEF ViewOf
  <2>6. IsWriting(d)' <=> IsWriting(d)
    BY <2>1 DEF IsWriting, InWrite
  <2> QED
    BY <2>3, <2>4, <2>5, <2>6
<1>6. ASSUME NEW d \in Conn \ {c}, IsWriting(d) PROVE DraftOf(d)' = DraftOf(d)
  <2>1. lockX[WAL_WRITE_LOCK] = d
    BY <1>0, <1>6, LocksOfData DEF IsWriting
  <2>2. work' = work
    BY <1>1, <2>1
  <2>3. DbSize(d)' = DbSize(d) /\ ReadImage(d)' = ReadImage(d)
    BY <1>5
  <2> QED
    BY <1>1, <1>3, <2>2, <2>3 DEF DraftOf
<1> QED
  BY <1>1, <1>2, <1>4, <1>5, <1>6, DeathMapped

\* or all do.
LEMMA DeathOfAll ==
    ASSUME MappingIs, CrashAll
    PROVE  Abstract!Crash(Conn)
<1>1. /\ hist' = hist /\ pend' = pend /\ ~HdrOk'
      /\ \A d \in Conn : pc'[d] = "idle" /\ snap'[d] = 0
  BY DEF CrashAll, ResetConn, HdrOk, ZeroHdr
<1>2. CurrentImage' = CurrentImage
  BY <1>1 DEF CurrentImage, MappingIs, LastImage
<1> QED
  BY <1>1, <1>2, DeathMapped

\* The first states map to first states,
LEMMA InitMapped ==
    ASSUME Init, IInv, MappingIs
    PROVE  Abstract!Init
<1>1. LastImage \in Image
  BY LastIsImage DEF IInv, TypeOK
<1>2. pend.txn = 0 /\ \A c \in Conn : snap[c] = 0 /\ pc[c] = "idle"
  BY DEF Init
<1>3. MappedView = [c \in Conn |-> None]
  BY <1>2 DEF MappedView
<1>4. \A c \in Conn : ~IsWriting(c)
  BY <1>2 DEF IsWriting, InWrite, WritePCs, RestartPCs, TryPCs
<1>5. TheWriter = None
  BY <1>4, WriterFacts DEF WriterIs
<1> QED
  BY <1>1, <1>2, <1>3, <1>5 DEF Abstract!Init, Abstract!Image, Image, MappingIs

\* and steps to steps or to none.
LEMMA StepMapped ==
    ASSUME IInv, IInv', VersionInv, TxnNumbers, MappingIs, MappingIs', NEW c \in Conn, Step(c)
    PROVE  Abstract!Next \/ UNCHANGED Abstract!vars
<1>1. CASE ~ViewStep(c)
  BY <1>1, OtherSteps, UnnoticedStutters
<1>2. CASE Check0(c) \/ CheckI(c)
  BY <1>2, OpenStep, UnnoticedStutters DEF Abstract!Next
<1>3. CASE EndRead(c)
  BY <1>3, EndStep, UnnoticedStutters DEF Abstract!Next
<1>4. CASE WriteCheck(c)
  BY <1>4, WriteCheckStep, UnnoticedStutters DEF Abstract!Next
<1>5. CASE Spill(c)
  BY <1>5, SpillStep DEF Abstract!Next
<1>6. CASE Commit(c)
  BY <1>6, CommitStep DEF Abstract!Next
<1>7. CASE Publish0(c)
  BY <1>7, PublishStep DEF Abstract!Next
<1>8. CASE Rollback(c)
  BY <1>8, RollbackStep DEF Abstract!Next
<1> QED
  BY <1>1, <1>2, <1>3, <1>4, <1>5, <1>6, <1>7, <1>8 DEF ViewStep

\* Until the first death, and with it.
LEMMA NextMapped ==
    ASSUME IInv, IInv', VersionsUntilCrash, NumbersUntilCrash, MappedUntilCrash, MappedUntilCrash',
           [Next]_vars, ~CkptPreempt, nCrash = 0
    PROVE  [Abstract!Next]_(Abstract!vars)
<1>0. VersionInv /\ TxnNumbers /\ Mapped /\ MappingIs
  BY MappingFacts DEF VersionsUntilCrash, NumbersUntilCrash, MappedUntilCrash
<1>1. nCrash' = nCrash => MappingIs'
  BY FactsNext DEF MappedUntilCrash
<1>2. ASSUME NEW c \in Conn, Step(c) PROVE [Abstract!Next]_(Abstract!vars)
  <2>1. MappingIs'
    BY <1>1, <1>2, CrashCount
  <2> QED
    BY <1>0, <1>2, <2>1, StepMapped
<1>3. ASSUME NEW c \in Conn, Crash(c) PROVE Abstract!Next
  <2>1. Abstract!Crash({c})
    BY <1>0, <1>3, DeathOfOne
  <2> QED
    BY <2>1 DEF Abstract!Next
<1>4. CASE CrashAll
  <2>1. Abstract!Crash(Conn)
    BY <1>0, <1>4, DeathOfAll
  <2> QED
    BY <2>1 DEF Abstract!Next
<1>5. CASE UNCHANGED vars
  <2>1. /\ hist' = hist /\ snap' = snap /\ pend' = pend /\ work' = work /\ pc' = pc /\ eMode' = eMode
        /\ lockX' = lockX /\ nCrash' = nCrash
    BY <1>5 DEF vars, lockVars, ckptVars, commitVars, viewVars
  <2>2. \A d \in Conn : IsWriting(d)' <=> IsWriting(d)
    BY <2>1 DEF IsWriting, InWrite
  <2>3. MappingIs'
    BY <1>1, <2>1
  <2>4. TheWriter' = TheWriter /\ MappedDraft' = MappedDraft
    BY <1>0, <2>1, <2>2, <2>3, SameWriter, SameDraft
  <2>5. Unnoticed
    BY <2>1, <2>4 DEF Unnoticed, LastImage, MappedView, MappedLimbo
  <2> QED
    BY <1>0, <2>3, <2>5, UnnoticedStutters
<1> QED
  BY <1>2, <1>3, <1>4, <1>5 DEF Next, Step

\* Until the first process is killed, its death included, every step of a
\* reader, writer, checkpointer or restart of the log, seen through what the
\* connections can read from the files, is a step of the atomic store of
\* WalAbstract or changes nothing in it (if nobody restarts the log between a
\* checkpointer's read of the header and its load of nBackfill).
THEOREM ImplementsUntilCrash ==
    ASSUME ~CkptPreempt
    PROVE  Spec => Abstract!Init /\ [][nCrash = 0 => [Abstract!Next]_(Abstract!vars)]_vars
<1>1. Init /\ IInv /\ MappedUntilCrash => Abstract!Init
  <2>1. Init => nCrash = 0
    BY DEF Init
  <2> QED
    BY <2>1, InitMapped, MappingFacts DEF MappedUntilCrash
<1>2. IInv /\ IInv' /\ VersionsUntilCrash /\ NumbersUntilCrash /\ MappedUntilCrash /\ MappedUntilCrash'
        /\ [Next]_vars => (nCrash = 0 => [Abstract!Next]_(Abstract!vars))
  BY NextMapped
<1> QED
  BY <1>1, <1>2, InductiveInvariant, VersionInvariant, MappedInvariant, PTL DEF Spec

\* In the behaviours without a death, Wal implements WalAbstract.
THEOREM ImplementsAbstractWithoutCrash ==
    ASSUME ~CkptPreempt, MaxCrash = 0
    PROVE  Spec => ImplementsAbstract
<1>1. IInv => nCrash = 0
  BY DEF IInv, TypeOK, HistTypes
<1>2. Init /\ IInv /\ MappedUntilCrash => Abstract!Init
  BY <1>1, InitMapped, MappingFacts DEF MappedUntilCrash
<1>3. IInv /\ IInv' /\ VersionsUntilCrash /\ NumbersUntilCrash /\ MappedUntilCrash /\ MappedUntilCrash'
        /\ [Next]_vars => [Abstract!Next]_(Abstract!vars)
  BY <1>1, NextMapped
<1> QED
  BY <1>2, <1>3, InductiveInvariant, VersionInvariant, MappedInvariant, PTL
     DEF Spec, ImplementsAbstract, Abstract!Spec
=============================================================================
