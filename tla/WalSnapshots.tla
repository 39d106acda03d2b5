---------------------------- MODULE WalSnapshots ----------------------------
(***************************************************************************)
(* What the counters, the read marks and the log stand for, in the         *)
(* behaviours of Wal before the first process is killed, and unless a      *)
(* checkpointer is overtaken between the header and nBackfill              *)
(* (CkptPreempt): the images that connections see, and the one that the    *)
(* files hold.  AttemptInv alone holds in all behaviours.                  *)
(***************************************************************************)
EXTENDS WalVersions

(***************************************************************************)
(* Shared locks                                                            *)
(***************************************************************************)
\* A connection that reads or writes has the lock of its slot, and one that
\* opens a transaction that of the slot it tries.
SlotLock(c) ==
    /\ readLock[c] >= 0 => c \in lockS[WAL_READ_LOCK(readLock[c])]
    /\ pc[c] = "check0" => c \in lockS[WAL_READ_LOCK(0)]
    /\ pc[c] \in {"minFrame", "checkI"} => c \in lockS[WAL_READ_LOCK(mxI[c])]

\* A transaction that restarts the log has slot 0, one that has written
\* frames another one.
SlotControl(c) ==
    /\ pc[c] \in {"read"} \cup WritePCs => readLock[c] >= 0
    /\ pc[c] \in {"frames", "publish1", "publish0", "endWrite"} => readLock[c] > 0
    /\ pc[c] \in RestartPCs => readLock[c] = IF eMode[c] = "NONE" THEN 0 ELSE -1
    /\ pc[c] = "restarted" => readLock[c] = 0
    /\ pc[c] \in TryPCs \cup CkptPCs \cup RecPCs \cup {"idle", "hdr", "hdrLocked"} => readLock[c] = -1

(***************************************************************************)
(* Counters                                                                *)
(***************************************************************************)
\* A restart and a recovery lower nBackfill first, a checkpoint raises
\* nBackfillAttempted first.
CountersInOrder(c) ==
    /\ pc[c] \in {"restartAttempted", "recAttempted"} => nBackfill = 0
    /\ pc[c] \in {"ckptCopy", "ckptDone"} => mxSafeFrame[c] <= nBackfillAttempted

\* Neither comes between the stores of the other: a restart shares READ lock 0
\* or is a checkpoint itself, and a recovery has the CKPT lock.
AttemptInv ==
    /\ AttemptedCovers
    /\ \A c \in Conn : SlotLock(c) /\ SlotControl(c) /\ CountersInOrder(c)

\* Between the decision to copy and the store of nBackfill.
CopyPCs == {"ckptMarks", "ckptMarkLock", "ckptMarkSet", "ckptCopy", "ckptDone"}

\* A checkpoint copies frames of the log there is.
CkptRange(c) ==
    /\ pc[c] = "ckptInfo" => hdr[c] = aHdr[0]
    /\ pc[c] \in CopyPCs => /\ nBackfill < hdr[c].mxFrame /\ hdr[c].mxFrame <= aHdr[0].mxFrame
                            /\ mxSafeFrame[c] <= hdr[c].mxFrame
    /\ pc[c] = "ckptMarkLock" => y[c] < mxSafeFrame[c]

\* Whoever has the WRITER lock works on the header there is, a writer with
\* the frames it has added.
WriterHdr(c) ==
    /\ InFullCkpt(c) /\ pc[c] # "restart0" => hdr[c] = aHdr[0]
    /\ InWrite(c) /\ pc[c] \notin {"writeCheck", "write", "frames", "publish1", "publish0",
                                   "restart0"} => hdr[c] = aHdr[0]
    /\ pc[c] = "write" /\ readLock[c] = 0 => hdr[c] = aHdr[0]
    /\ pc[c] \in {"write", "frames"} => /\ hdr[c].mxFrame >= aHdr[0].mxFrame
                                        /\ hdr[c].nPage = aHdr[0].nPage
    /\ pc[c] \in {"publish1", "publish0"} => hdr[c].mxFrame > aHdr[0].mxFrame

\* The salt of a log that is being restarted is new.
FreshSalt(c) ==
    pc[c] = "restart0" => /\ hdr[c].aSalt # 0 /\ hdr[c].aSalt # aHdr[0].aSalt
                          /\ \A d \in Conn \ {c} : hdr[d].aSalt # hdr[c].aSalt

\* Whoever ignores the log or restarts it finds it copied.
AllCopied(c) ==
    /\ pc[c] \in {"lock0", "check0"} \/ (readLock[c] = 0 /\ pc[c] \in {"read", "writeCheck", "write"})
          => (hdr[c] = aHdr[0] => nBackfill = aHdr[0].mxFrame)
    /\ pc[c] \in {"restart1", "restart0"} => nBackfill = aHdr[0].mxFrame

CounterInv ==
    /\ BackfillBounded /\ AttemptedBounded
    /\ \A c \in Conn : /\ SlotLock(c) /\ SlotControl(c) /\ CkptRange(c) /\ WriterHdr(c)
                       /\ FreshSalt(c) /\ AllCopied(c)

(***************************************************************************)
(* Images                                                                  *)
(***************************************************************************)
\* Log lg has a frame for page p among frames first..last,
HasFrame(lg, p, first, last) ==
    \E i \in 1..Len(lg) : first <= i /\ i <= last /\ lg[i].pgno = p

\* and the last of them, which is LastFrame in the log there is.
FrameIn(lg, p, first, last) ==
    Top({i \in 1..Len(lg) : first <= i /\ i <= last /\ lg[i].pgno = p})

\* The content of page p in frames first..last of lg or else in database d.
Content(d, lg, p, first, last) ==
    LET i == FrameIn(lg, p, first, last) IN IF i = 0 THEN d[p] ELSE lg[i].val

\* Frames first..last and the database show image img, of n pages; without
\* a size it is the database's own.
ShowsPage(d, lg, p, first, last, n, img) ==
    IF n = 0 \/ p <= n THEN Content(d, lg, p, first, last) = img[p] ELSE img[p] = 0
Shows(d, lg, first, last, n, img) == \A p \in Page : ShowsPage(d, lg, p, first, last, n, img)

LastImage == hist[Len(hist)].img

\* The last version, for everybody who opens a transaction.
CurrentShown ==
    \A f \in 1..(nBackfill + 1) :
        Shows(db, log, f, aHdr[0].mxFrame, aHdr[0].nPage, LastImage)

\* A log that is not empty has a size, and a restarted one that of before.
SizeKnown ==
    /\ aHdr[0].mxFrame > 0 => aHdr[0].nPage > 0
    /\ \A c \in Conn : pc[c] = "restart0" => hdr[c].nPage = aHdr[0].nPage

\* A header of the log there is: it names fewer frames or as many pages.
OlderHdr(h) ==
    /\ h.mxFrame <= aHdr[0].mxFrame
    /\ h.mxFrame > 0 => h.nPage > 0
    /\ h.mxFrame = aHdr[0].mxFrame => h.nPage = aHdr[0].nPage

\* Pages that came after header h have frames.
Grown(h) ==
    \A p \in Page : h.nPage < p /\ p <= aHdr[0].nPage =>
        HasFrame(log, p, h.mxFrame + 1, aHdr[0].mxFrame)

\* A copy: what is not to do is done.
CopyImage(d) ==
    /\ pc[d] \in CopyPCs => OlderHdr(hdr[d]) /\ Grown(hdr[d])
    /\ \A i \in todo[d] : /\ nBackfill < i /\ i <= mxSafeFrame[d]
                          /\ i = FrameIn(log, log[i].pgno, nBackfill + 1, hdr[d].mxFrame)
    /\ pc[d] \in {"ckptCopy", "ckptDone"} =>
          \A p \in Page : LET j == FrameIn(log, p, nBackfill + 1, hdr[d].mxFrame)
                          IN  0 < j /\ j <= mxSafeFrame[d] /\ p <= hdr[d].nPage =>
                                 j \in todo[d] \/ db[p] = log[j].val

\* The marks that a connection looks for, and has.
MarkInv(c) ==
    /\ pc[c] \in TryPCs \ {"backfill", "lock0", "check0"} => mxReadMark[c] <= hdr[c].mxFrame
    /\ pc[c] = "checkI" \/ readLock[c] > 0 => 1 <= minFrame[c] /\ minFrame[c] <= nBackfill + 1
    /\ readLock[c] > 0 => /\ aReadMark[readLock[c]] <= hdr[c].mxFrame
                          /\ aReadMark[readLock[c]] <= aHdr[0].mxFrame

\* Checkpointer d has a limit for the sake of reader c, or will come to it.
Limited(c, d) ==
    readLock[c] > 0 /\ pc[d] \in CopyPCs =>
        \/ mxSafeFrame[d] <= hdr[c].mxFrame
        \/ pc[d] = "ckptMarks" /\ iMark[d] <= readLock[c]
        \/ pc[d] \in {"ckptMarkLock", "ckptMarkSet"} /\ iMark[d] < readLock[c]
        \/ pc[d] = "ckptMarkLock" /\ iMark[d] = readLock[c] /\ y[d] <= hdr[c].mxFrame

\* A reader sees its version,
ReaderImage(c) ==
    pc[c] \in {"read", "writeCheck"} =>
        /\ readLock[c] > 0 =>
              /\ OlderHdr(hdr[c])
              /\ Shows(db, log, minFrame[c], hdr[c].mxFrame, hdr[c].nPage, hist[snap[c]].img)
        /\ readLock[c] = 0 => Shows(db, log, 1, 0, hdr[c].nPage, hist[snap[c]].img)

\* a writer the last one with the pages it has written,
Writing(c) == InWrite(c) /\ pc[c] \notin {"writeCheck", "publish1", "publish0", "endWrite"}
WriterImage(c) ==
    Writing(c) =>
        /\ \A p \in Page :
              work[p] = IF HasFrame(log, p, aHdr[0].mxFrame + 1, hdr[c].mxFrame) THEN txn
                        ELSE LastImage[p]
        /\ \A i \in (aHdr[0].mxFrame + 1)..hdr[c].mxFrame : log[i].val = txn

\* and its commit adds up to its version.
PendingImage(c) ==
    pc[c] \in {"publish1", "publish0"} =>
        /\ \A f \in 1..(nBackfill + 1) :
              Shows(db, log, f, hdr[c].mxFrame, hdr[c].nPage, pend.img)
        /\ hdr[c].nPage > 0
        /\ aHdr[0].nPage > 0 =>
              \A p \in Page : aHdr[0].nPage < p /\ p <= hdr[c].nPage =>
                  HasFrame(log, p, aHdr[0].mxFrame + 1, hdr[c].mxFrame)

ImageInv ==
    /\ CurrentShown /\ SizeKnown
    /\ \A c \in Conn : /\ CopyImage(c) /\ MarkInv(c) /\ ReaderImage(c) /\ WriterImage(c)
                       /\ PendingImage(c)
    /\ \A c, d \in Conn : Limited(c, d)

(***************************************************************************)
(* The files                                                               *)
(***************************************************************************)
\* The frames up to frame m of log lg are valid under a salt: each has it,
\* and continues the checksum of the one before.
ChainTo(lg, salt, m) ==
    \A i \in 1..m : /\ lg[i].aSalt = salt
                    /\ lg[i].prev = IF i = 1 THEN 0 ELSE lg[i - 1].val

\* Frames behind frame m that have the salt are of no commit.
NoCommitBehind(lg, salt, m) ==
    \A i \in 1..Len(lg) : i > m /\ lg[i].aSalt = salt => lg[i].nTruncate = 0

\* Header h describes log lg: all its frames are valid, and its checksum is
\* that of the last one.
Describes(h, lg, salt) ==
    /\ h.aSalt = salt
    /\ ChainTo(lg, salt, h.mxFrame)
    /\ h.aFrameCksum = IF h.mxFrame = 0 THEN 0 ELSE lg[h.mxFrame].val

\* A commit is in the file, and not yet in the wal-index.
PublishPCs == {"publish1", "publish0"}
Publishing == \E c \in Conn : pc[c] \in PublishPCs

\* The header in shared memory describes the log, once it has frames, and
\* the last of them is that of a commit.
LogCurrent ==
    aHdr[0].mxFrame > 0 => /\ Describes(aHdr[0], log, logHdr.aSalt)
                           /\ log[aHdr[0].mxFrame].nTruncate = aHdr[0].nPage

\* No commit is behind it, unless one is being published.
LogTail == ~Publishing => NoCommitBehind(log, aHdr[0].aSalt, aHdr[0].mxFrame)

\* The header of a writer describes the log with the frames it has added.
WriterLog(c) ==
    /\ pc[c] \in PublishPCs \cup {"frames"} \/ (pc[c] = "write" /\ hdr[c].mxFrame > 0) =>
          /\ Describes(hdr[c], log, logHdr.aSalt)
          /\ aHdr[0].mxFrame > 0 => hdr[c].aSalt = aHdr[0].aSalt
    /\ pc[c] = "write" /\ hdr[c].mxFrame = 0 => hdr[c].aSalt = aHdr[0].aSalt
    /\ pc[c] \in {"write", "frames"} => NoCommitBehind(log, hdr[c].aSalt, aHdr[0].mxFrame)
    /\ pc[c] \in PublishPCs => /\ NoCommitBehind(log, hdr[c].aSalt, hdr[c].mxFrame)
                               /\ log[hdr[c].mxFrame].nTruncate = hdr[c].nPage
                               /\ pend.txn # 0
    /\ pc[c] = "restart0" => \A i \in 1..Len(log) : log[i].aSalt # hdr[c].aSalt

\* A database into which the whole log is copied has lost the pages behind
\* its last one.
DbCut ==
    nBackfill >= aHdr[0].mxFrame \/
    (\E c \in Conn : pc[c] = "ckptDone" /\ mxSafeFrame[c] = aHdr[0].mxFrame) =>
        \A p \in Page : 0 < aHdr[0].nPage /\ aHdr[0].nPage < p => db[p] = 0

\* What recovery would read from the files.
RecoveredImage ==
    LET m == RecoveredFrame
    IN  ImageOf(1, m, IF m = 0 THEN SizeOf(db) ELSE log[m].nTruncate)

\* A log that the header ignores says nothing new.
OldLog == aHdr[0].mxFrame = 0 /\ ~Publishing => RecoveredImage = LastImage

FileInv == LogCurrent /\ LogTail /\ DbCut /\ OldLog /\ \A c \in Conn : WriterLog(c)

=============================================================================
