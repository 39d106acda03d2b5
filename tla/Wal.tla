-------------------------------- MODULE Wal --------------------------------
(***************************************************************************)
(* The concurrency protocol of the write-ahead log (src/src/src/wal.c):    *)
(* connections of several processes that share one database file, one WAL  *)
(* file and one wal-index, and synchronise only through the wal-index      *)
(* locks.  One action is one access to shared state (a lock call, a load   *)
(* or a store in the wal-index header, a write to a file), except where a  *)
(* comment says that several are taken together.                           *)
(*                                                                         *)
(* A page's content is the number of the write transaction that wrote it,  *)
(* 0 for a page that does not exist, so two versions of a page are never   *)
(* confused.  A checksum is ideal: the aFrameCksum of a frame is the       *)
(* transaction of the frame, which together with the salt and the frame    *)
(* number identifies every frame before it.                                *)
(***************************************************************************)
EXTENDS Integers, Sequences, FiniteSets

CONSTANTS
    Conn,            \* the connections
    None,            \* "no connection"
    Readers,         \* the connections that may start a read transaction
    Writers,         \* the readers that may start a write transaction
    Checkpointers,   \* the connections that may run a checkpoint
    Modes,           \* the checkpoint modes they use
    Writes,          \* what transactions write: [pages, size] records
    Spills,          \* the pages the page cache may spill before the commit
    WAL_NREADER,     \* number of read locks (5 in the code)
    MaxPage,         \* bound: pages of the database
    MaxTxn,          \* bound: write transactions started
    MaxFrame,        \* bound: frames in the WAL file
    MaxSalt,         \* bound: largest salt
    MaxCrash,        \* bound: processes killed
    Reopen,          \* is every transaction run by a new connection?
    CrashInRestart,  \* may a process die inside walRestartHdr, between the
                     \* store of the header and the store of nBackfill?
    CkptPreempt      \* may others run between a checkpointer's read of the
                     \* header and its load of nBackfill?

ASSUME ConnAssumption ==
    /\ None \notin Conn
    /\ Readers \subseteq Conn /\ Writers \subseteq Readers /\ Checkpointers \subseteq Conn
    /\ Modes \subseteq {"PASSIVE", "FULL", "RESTART", "TRUNCATE"}
ASSUME BoundAssumption ==
    /\ WAL_NREADER \in Nat /\ WAL_NREADER >= 2
    /\ MaxPage \in Nat \ {0}
    /\ Writes \subseteq [pages : (SUBSET (1..MaxPage)) \ {{}}, size : 1..MaxPage]
    /\ \A w \in Writes : w.pages \subseteq 1..w.size
    /\ Spills \subseteq 2..MaxPage
    /\ MaxTxn \in Nat /\ MaxFrame \in Nat /\ MaxSalt \in Nat /\ MaxCrash \in Nat
    /\ Reopen \in BOOLEAN /\ CrashInRestart \in BOOLEAN /\ CkptPreempt \in BOOLEAN

Page == 1..MaxPage
Txn == 0..(MaxTxn + 1)
Frame == 0..MaxFrame
Image == [Page -> Txn]
NoImage == [p \in Page |-> 0]

\* The lock bytes of the wal-index.
WAL_WRITE_LOCK == 0
WAL_CKPT_LOCK == 1
WAL_RECOVER_LOCK == 2
WAL_READ_LOCK(i) == 3 + i
Locks == 0..(2 + WAL_NREADER)
ReadMarks == 1..(WAL_NREADER - 1)

\* Larger than any frame number, as 0xffffffff is in the code.
READMARK_NOT_USED == MaxFrame + 1

\* The WAL file has no header: it is empty or shorter than WAL_HDRSIZE.
NoLogHdr == [aSalt |-> 0, nCkpt |-> 0]

VARIABLES
    \* the files
    db,              \* the database file: page -> content
    log,             \* the WAL file: the sequence of its frames
    logHdr,          \* the WAL file's header: its salt and checkpoint number
    \* the wal-index
    aHdr,            \* aHdr[0], aHdr[1]: the two copies of the header
    nBackfill,
    nBackfillAttempted,
    aReadMark,
    lockX, lockS,    \* holder and holders of each lock byte
    \* struct Wal and the local variables of each connection
    pc,
    hdr,             \* pWal->hdr
    changed,         \* *pChanged: hdr is not what it was when the call began
    nCkpt,           \* pWal->nCkpt: 0, or 1 for any other value
    readLock,        \* pWal->readLock
    minFrame,        \* pWal->minFrame
    mxI, mxReadMark, \* of walTryBeginRead
    eMode,           \* eMode2 of sqlite3WalCheckpoint, "NONE" outside it
    iMark,           \* loop counter over the read marks
    y,               \* the read mark walCheckpoint loaded
    mxSafeFrame,     \* of walCheckpoint
    todo,            \* frames the checkpoint's iterator has still to return
    \* history: not part of the program
    txn,             \* write transactions started
    nCrash,          \* processes killed
    hist,            \* hist[v]: the transaction and the image of version v
    snap,            \* the version a connection's transaction reads, or 0
    cache,           \* the version its page cache holds, 0 if it is empty
    work,            \* the image the running write transaction builds
    pend             \* the last commit written to the WAL file

fileVars == <<db, log, logHdr>>
infoVars == <<nBackfill, nBackfillAttempted>>
shmVars == <<aHdr, infoVars, aReadMark>>
lockVars == <<lockX, lockS>>
hdrVars == <<hdr, changed, nCkpt>>
readVars == <<readLock, minFrame, mxI, mxReadMark>>
ckptVars == <<eMode, y, mxSafeFrame, todo>>
commitVars == <<txn, hist, work, pend>>
viewVars == <<snap, cache>>
vars == <<fileVars, shmVars, lockVars, pc, hdrVars, readVars, ckptVars, iMark,
          commitVars, viewVars, nCrash>>

(***************************************************************************)
(* Headers, frames and images                                              *)
(***************************************************************************)
Header == [isInit : BOOLEAN, iChange : Nat, mxFrame : Frame, nPage : 0..MaxPage,
           aSalt : 0..MaxSalt, aFrameCksum : Txn]
ZeroHdr == [isInit |-> FALSE, iChange |-> 0, mxFrame |-> 0, nPage |-> 0,
            aSalt |-> 0, aFrameCksum |-> 0]
FrameRec == [pgno : Page, val : Txn, nTruncate : 0..MaxPage,
             aSalt : 0..MaxSalt, prev : Txn]

\* walIndexTryHdr succeeds: the copies agree and are initialised.
HdrOk == aHdr[0] = aHdr[1] /\ aHdr[0].isInit

\* The largest member of a set of numbers, 0 for the empty set.
Top(S) == IF S = {} THEN 0 ELSE CHOOSE m \in S : \A n \in S : n <= m

\* Size of an image or of the database file, in pages.
SizeOf(img) == Top({p \in Page : img[p] # 0})

\* The newest frame for page p in a range of the WAL, 0 if there is none.
LastFrame(p, first, last) ==
    Top({i \in 1..Len(log) : first <= i /\ i <= last /\ log[i].pgno = p})

\* The image seen through frames first..last of the WAL, of n pages.
ImageOf(first, last, n) ==
    [p \in Page |-> IF p > n THEN 0
                    ELSE LET i == LastFrame(p, first, last)
                         IN  IF i = 0 THEN db[p] ELSE log[i].val]

(***************************************************************************)
(* sqlite3WalFindFrame and sqlite3WalReadFrame: what connection c reads.   *)
(* A read lock on slot 0 ignores the WAL.  If the header gives no size the *)
(* pager takes the size of the database file (pagerPagecount).             *)
(***************************************************************************)
DbSize(c) == IF hdr[c].nPage = 0 THEN SizeOf(db) ELSE hdr[c].nPage
ReadImage(c) ==
    IF readLock[c] = 0 THEN ImageOf(1, 0, DbSize(c))
    ELSE ImageOf(minFrame[c], hdr[c].mxFrame, DbSize(c))

(***************************************************************************)
(* walDecodeFrame and the scan of walIndexRecover: frame i is valid if its *)
(* salt is the one in the WAL header and its checksum continues that of    *)
(* the frame before it; the scan stops at the first invalid frame, and the *)
(* last commit frame it saw is the new mxFrame.                            *)
(***************************************************************************)
walDecodeFrame(i) ==
    /\ log[i].aSalt = logHdr.aSalt
    /\ log[i].prev = IF i = 1 THEN 0 ELSE log[i - 1].val

RecoveredFrame ==
    Top({m \in 1..Len(log) : /\ log[m].nTruncate # 0
                             /\ \A i \in 1..m : walDecodeFrame(i)})

RecoveredHdr ==
    LET m == RecoveredFrame
    IN  [isInit |-> TRUE, iChange |-> 0, mxFrame |-> m,
         nPage |-> IF m = 0 THEN 0 ELSE log[m].nTruncate,
         aSalt |-> IF Len(log) = 0 THEN 0 ELSE logHdr.aSalt,
         aFrameCksum |-> IF m = 0 THEN 0 ELSE log[m].val]

(***************************************************************************)
(* Locks (walLockShared, walLockExclusive).                                *)
(***************************************************************************)
CanShare(l) == lockX[l] = None
CanLock(ls) == \A l \in ls : lockX[l] = None /\ lockS[l] = {}

Share(c, l) == lockS' = [lockS EXCEPT ![l] = @ \cup {c}]
Unshare(c, l) == lockS' = [lockS EXCEPT ![l] = @ \ {c}]
Lock(c, ls) == lockX' = [l \in Locks |-> IF l \in ls THEN c ELSE lockX[l]]
Unlock(ls) == lockX' = [l \in Locks |-> IF l \in ls THEN None ELSE lockX[l]]

LogReadLocks == {WAL_READ_LOCK(i) : i \in ReadMarks}

Goto(c, l) == pc' = [pc EXCEPT ![c] = l]

\* A random salt: one that occurs nowhere, the least such.
UsedSalts == {log[i].aSalt : i \in 1..Len(log)} \cup {logHdr.aSalt, aHdr[0].aSalt, aHdr[1].aSalt}
                 \cup {hdr[c].aSalt : c \in Conn}
NewSalts == {s \in 1..MaxSalt : s \notin UsedSalts /\ \A t \in 1..(s - 1) : t \in UsedSalts}

\* Somebody has opened the database and recovered its empty log.
Init ==
    /\ db = [p \in Page |-> 1]
    /\ log = <<>> /\ logHdr = NoLogHdr
    /\ aHdr = [k \in 0..1 |-> [ZeroHdr EXCEPT !.isInit = TRUE]]
    /\ nBackfill = 0 /\ nBackfillAttempted = 0
    /\ aReadMark = [i \in ReadMarks |-> READMARK_NOT_USED]
    /\ lockX = [l \in Locks |-> None]
    /\ lockS = [l \in Locks |-> {}]
    /\ pc = [c \in Conn |-> "idle"]
    /\ hdr = [c \in Conn |-> ZeroHdr]
    /\ changed = [c \in Conn |-> FALSE]
    /\ nCkpt = [c \in Conn |-> 0]
    /\ readLock = [c \in Conn |-> -1]
    /\ minFrame = [c \in Conn |-> 0]
    /\ mxI = [c \in Conn |-> 0]
    /\ mxReadMark = [c \in Conn |-> 0]
    /\ eMode = [c \in Conn |-> "NONE"]
    /\ y = [c \in Conn |-> 0]
    /\ mxSafeFrame = [c \in Conn |-> 0]
    /\ todo = [c \in Conn |-> {}]
    /\ iMark = [c \in Conn |-> 0]
    /\ txn = 1
    /\ hist = <<[txn |-> 1, img |-> db]>>
    /\ work = NoImage
    /\ pend = [txn |-> 0, img |-> NoImage]
    /\ snap = [c \in Conn |-> 0]
    /\ cache = [c \in Conn |-> 0]
    /\ nCrash = 0

(***************************************************************************)
(* walIndexReadHdr and walIndexRecover, called by readers (eMode "NONE")   *)
(* and by checkpointers.                                                   *)
(***************************************************************************)
InCkpt(c) == eMode[c] # "NONE"

\* bWriteLock of walIndexReadHdr: the caller brought the WRITER lock along.
bWriteLock(c) == InCkpt(c) /\ eMode[c] # "PASSIVE"

\* Mutant: the WRITER lock is released although the caller brought it along.
AlwaysRelease(c) == {WAL_WRITE_LOCK}

\* What the call releases when it returns.
HdrLocks(c) == IF bWriteLock(c) THEN {} ELSE {WAL_WRITE_LOCK}

\* Where the caller goes on once it has a header.
AfterHdr(c) == IF InCkpt(c) THEN "ckptInfo" ELSE "backfill"

\* pagerBeginReadTransaction, sqlite3WalBeginReadTransaction.
BeginRead(c) ==
    /\ pc[c] = "idle" /\ c \in Readers
    /\ Goto(c, "hdr")
    /\ UNCHANGED <<fileVars, shmVars, lockVars, hdrVars, readVars, ckptVars, iMark,
                   commitVars, viewVars, nCrash>>

\* walIndexTryHdr: the two loads count as one, since a writer stores aHdr[1]
\* before aHdr[0] and a reader loads them in the other order.
walIndexTryHdr(c) ==
    /\ HdrOk
    /\ hdr' = [hdr EXCEPT ![c] = aHdr[0]]
    /\ changed' = [changed EXCEPT ![c] = @ \/ hdr[c] # aHdr[0]]
    /\ UNCHANGED nCkpt

ReadHdr(c) ==
    /\ pc[c] = "hdr"
    /\ walIndexTryHdr(c)
    /\ Goto(c, AfterHdr(c))
    /\ UNCHANGED <<fileVars, shmVars, lockVars, readVars, ckptVars, iMark,
                   commitVars, viewVars, nCrash>>

\* The header is bad: take the WRITER lock, unless the caller holds it.
HdrLock(c) ==
    /\ pc[c] = "hdr" /\ ~HdrOk
    /\ bWriteLock(c) \/ CanLock({WAL_WRITE_LOCK})
    /\ Lock(c, {WAL_WRITE_LOCK})
    /\ Goto(c, "hdrLocked")
    /\ UNCHANGED <<fileVars, shmVars, lockS, hdrVars, readVars, ckptVars, iMark,
                   commitVars, viewVars, nCrash>>

HdrRetry(c) ==
    /\ pc[c] = "hdrLocked"
    /\ walIndexTryHdr(c)
    /\ Unlock(HdrLocks(c))
    /\ Goto(c, AfterHdr(c))
    /\ UNCHANGED <<fileVars, shmVars, lockS, readVars, ckptVars, iMark,
                   commitVars, viewVars, nCrash>>

RecoverLocks(c) ==
    {WAL_RECOVER_LOCK} \cup (IF InCkpt(c) THEN {} ELSE {WAL_CKPT_LOCK})

\* walIndexRecover: start, or BUSY if another connection holds the locks.
RecoverLock(c) ==
    /\ pc[c] = "hdrLocked" /\ ~HdrOk
    /\ CanLock(RecoverLocks(c))
    /\ Lock(c, RecoverLocks(c))
    /\ Goto(c, "recScan")
    /\ UNCHANGED <<fileVars, shmVars, lockS, hdrVars, readVars, ckptVars, iMark,
                   commitVars, viewVars, nCrash>>

\* The walTryBeginRead of a reader turns BUSY into a retry; that of a
\* checkpointer fails the call.
RecoverBusy(c) ==
    /\ pc[c] = "hdrLocked" /\ ~HdrOk
    /\ ~CanLock(RecoverLocks(c))
    /\ Unlock(HdrLocks(c))
    /\ changed' = [changed EXCEPT ![c] = TRUE]
    /\ Goto(c, IF InCkpt(c) THEN "ckptEnd" ELSE "hdr")
    /\ UNCHANGED <<fileVars, shmVars, lockS, hdr, nCkpt, readVars, ckptVars, iMark,
                   commitVars, viewVars, nCrash>>

\* A checkpointer that cannot get the WRITER lock for a bad header fails.
CkptHdrBusy(c) ==
    /\ pc[c] = "hdr" /\ ~HdrOk /\ InCkpt(c)
    /\ ~(bWriteLock(c) \/ CanLock({WAL_WRITE_LOCK}))
    /\ Goto(c, "ckptEnd")
    /\ UNCHANGED <<fileVars, shmVars, lockVars, hdrVars, readVars, ckptVars, iMark,
                   commitVars, viewVars, nCrash>>

\* A reader gives up: SQLITE_BUSY_RECOVERY if a recovery is running,
\* SQLITE_PROTOCOL after 100 retries (which are not counted here), or an
\* error of the operating system.  The pager drops its cache.
ReadFails(c) ==
    /\ pc[c] = "hdr" /\ ~InCkpt(c)
    /\ Goto(c, "idle")
    /\ changed' = [changed EXCEPT ![c] = FALSE]
    /\ cache' = [cache EXCEPT ![c] = 0]
    /\ UNCHANGED <<fileVars, shmVars, lockVars, hdr, nCkpt, readVars, ckptVars, iMark,
                   commitVars, snap, nCrash>>

\* The WAL file is scanned and the first copy of the header stored.
RecoverScan(c) ==
    /\ pc[c] = "recScan"
    /\ hdr' = [hdr EXCEPT ![c] = RecoveredHdr]
    /\ changed' = [changed EXCEPT ![c] = TRUE]
    /\ nCkpt' = [nCkpt EXCEPT ![c] = IF Len(log) = 0 THEN @ ELSE logHdr.nCkpt]
    /\ aHdr' = [aHdr EXCEPT ![1] = RecoveredHdr]
    /\ Goto(c, "recHdr")
    /\ UNCHANGED <<fileVars, infoVars, aReadMark, lockVars, readVars, ckptVars, iMark,
                   commitVars, viewVars, nCrash>>

\* A commit whose writer died before publishing it becomes a version here.
RecoverHdr(c) ==
    /\ pc[c] = "recHdr"
    /\ aHdr' = [aHdr EXCEPT ![0] = hdr[c]]
    /\ hist' = IF /\ hdr[c].mxFrame > 0 /\ pend.txn # 0
                  /\ hdr[c].aFrameCksum = pend.txn /\ pend # hist[Len(hist)]
               THEN Append(hist, pend) ELSE hist
    /\ Goto(c, "recBackfill")
    /\ UNCHANGED <<fileVars, infoVars, aReadMark, lockVars, hdrVars, readVars, ckptVars,
                   iMark, txn, work, pend, viewVars, nCrash>>

\* The checkpoint counters, one store after the other.
RecoverBackfill(c) ==
    /\ pc[c] = "recBackfill"
    /\ nBackfill' = 0
    /\ Goto(c, "recAttempted")
    /\ UNCHANGED <<fileVars, aHdr, nBackfillAttempted, aReadMark, lockVars, hdrVars, readVars,
                   ckptVars, iMark, commitVars, viewVars, nCrash>>

RecoverAttempted(c) ==
    /\ pc[c] = "recAttempted"
    /\ nBackfillAttempted' = hdr[c].mxFrame
    /\ iMark' = [iMark EXCEPT ![c] = 1]
    /\ Goto(c, "recMarks")
    /\ UNCHANGED <<fileVars, aHdr, nBackfill, aReadMark, lockVars, hdrVars, readVars, ckptVars,
                   commitVars, viewVars, nCrash>>

RecoverInfo(c) == RecoverBackfill(c) \/ RecoverAttempted(c)

\* The read marks, one by one; a mark some connection has locked is skipped.
RecoverMarkLock(c) ==
    /\ pc[c] = "recMarks" /\ iMark[c] \in ReadMarks
    /\ LET l == WAL_READ_LOCK(iMark[c])
       IN  \/ /\ CanLock({l}) /\ Lock(c, {l})
              /\ Goto(c, "recSet")
              /\ UNCHANGED iMark
           \/ /\ ~CanLock({l})
              /\ iMark' = [iMark EXCEPT ![c] = @ + 1]
              /\ UNCHANGED <<lockX, pc>>
    /\ UNCHANGED <<fileVars, shmVars, lockS, hdrVars, readVars, ckptVars,
                   commitVars, viewVars, nCrash>>

RecoverMarkSet(c) ==
    /\ pc[c] = "recSet"
    /\ aReadMark' = [aReadMark EXCEPT ![iMark[c]] =
                        IF iMark[c] = 1 /\ hdr[c].mxFrame # 0 THEN hdr[c].mxFrame
                        ELSE READMARK_NOT_USED]
    /\ Unlock({WAL_READ_LOCK(iMark[c])})
    /\ iMark' = [iMark EXCEPT ![c] = @ + 1]
    /\ Goto(c, "recMarks")
    /\ UNCHANGED <<fileVars, aHdr, infoVars, lockS, hdrVars, readVars, ckptVars,
                   commitVars, viewVars, nCrash>>

RecoverEnd(c) ==
    /\ pc[c] = "recMarks" /\ iMark[c] \notin ReadMarks
    /\ Unlock(RecoverLocks(c) \cup HdrLocks(c))
    /\ iMark' = [iMark EXCEPT ![c] = 0]
    /\ Goto(c, AfterHdr(c))
    /\ UNCHANGED <<fileVars, shmVars, lockS, hdrVars, readVars, ckptVars,
                   commitVars, viewVars, nCrash>>

(***************************************************************************)
(* walTryBeginRead.  A writer calls it again from walRestartLog with       *)
(* useWal=1: it holds the WRITER lock then, and keeps its header.          *)
(***************************************************************************)
useWal(c) == lockX[WAL_WRITE_LOCK] = c

\* Start of the search for a read mark.
ToScan(c) ==
    /\ Goto(c, "scan")
    /\ iMark' = [iMark EXCEPT ![c] = 1]
    /\ mxI' = [mxI EXCEPT ![c] = 0]
    /\ mxReadMark' = [mxReadMark EXCEPT ![c] = 0]

\* Mutant: the next try goes on with the header it has.
RetryWithOldHdr == "backfill"

\* Where walTryBeginRead starts again: walIndexReadHdr.
RetryFrom == "hdr"

\* WAL_RETRY.
Retry(c) ==
    IF useWal(c) THEN ToScan(c)
    ELSE /\ Goto(c, RetryFrom)
         /\ mxI' = [mxI EXCEPT ![c] = 0]
         /\ mxReadMark' = [mxReadMark EXCEPT ![c] = 0]
         /\ iMark' = [iMark EXCEPT ![c] = 0]

\* The transaction is open: its view is the newest version, and the pager
\* keeps its page cache unless the header changed since it was filled.
Opened(c) ==
    IF useWal(c) THEN Goto(c, "write") /\ UNCHANGED <<snap, cache, changed>>
    ELSE /\ Goto(c, "read")
         /\ snap' = [snap EXCEPT ![c] = Len(hist)]
         /\ cache' = [cache EXCEPT ![c] = IF changed[c] \/ @ = 0 THEN Len(hist) ELSE @]
         /\ changed' = [changed EXCEPT ![c] = FALSE]

CheckBackfill(c) ==
    /\ pc[c] = "backfill"
    /\ IF nBackfill = hdr[c].mxFrame
       THEN Goto(c, "lock0") /\ UNCHANGED <<iMark, mxI, mxReadMark>>
       ELSE ToScan(c)
    /\ UNCHANGED <<fileVars, shmVars, lockVars, hdrVars, readLock, minFrame, ckptVars,
                   commitVars, viewVars, nCrash>>

Lock0(c) ==
    /\ pc[c] = "lock0"
    /\ LET l == WAL_READ_LOCK(0)
       IN  \/ /\ CanShare(l) /\ Share(c, l)
              /\ Goto(c, "check0")
              /\ UNCHANGED <<iMark, mxI, mxReadMark>>
           \/ /\ ~CanShare(l)
              /\ ToScan(c)
              /\ UNCHANGED lockS
    /\ UNCHANGED <<fileVars, shmVars, lockX, hdrVars, readLock, minFrame, ckptVars,
                   commitVars, viewVars, nCrash>>

\* Mutant: the header is not read again after the lock is taken.
HdrNotChecked(c) == TRUE

\* The header in shared memory is still the one this connection read.
HdrUnchanged(c) == aHdr[0] = hdr[c]

Check0(c) ==
    /\ pc[c] = "check0"
    /\ \/ /\ HdrUnchanged(c)
          /\ readLock' = [readLock EXCEPT ![c] = 0]
          /\ Opened(c)
          /\ UNCHANGED lockS
       \/ /\ ~HdrUnchanged(c)
          /\ Unshare(c, WAL_READ_LOCK(0))
          /\ Goto(c, RetryFrom)
          /\ UNCHANGED <<readLock, viewVars, changed>>
    /\ UNCHANGED <<fileVars, shmVars, lockX, hdr, nCkpt, minFrame, mxI, mxReadMark, ckptVars,
                   iMark, commitVars, nCrash>>

\* Mutant: no upper bound.
MarkNotBelow(c, m) == mxReadMark[c] <= m

MarkIsUsable(c, m) == mxReadMark[c] <= m /\ m <= hdr[c].mxFrame

\* One load of the loop that looks for the largest usable mark, and after
\* the last one the decision whether a mark has to be raised.
ScanMark(c) ==
    /\ pc[c] = "scan"
    /\ LET m == aReadMark[iMark[c]]
       IN  IF MarkIsUsable(c, m)
           THEN /\ mxReadMark' = [mxReadMark EXCEPT ![c] = m]
                /\ mxI' = [mxI EXCEPT ![c] = iMark[c]]
           ELSE UNCHANGED <<mxReadMark, mxI>>
    /\ IF iMark[c] + 1 \in ReadMarks
       THEN iMark' = [iMark EXCEPT ![c] = @ + 1] /\ UNCHANGED pc
       ELSE IF mxReadMark'[c] < hdr[c].mxFrame \/ mxI'[c] = 0
       THEN iMark' = [iMark EXCEPT ![c] = 1] /\ Goto(c, "raise")
       ELSE iMark' = [iMark EXCEPT ![c] = 0] /\ Goto(c, "lockI")
    /\ UNCHANGED <<fileVars, shmVars, lockVars, hdrVars, readLock, minFrame, ckptVars,
                   commitVars, viewVars, nCrash>>

\* Mutant: a shared lock is enough to raise a mark.
RaiseShared(c) == CanShare(WAL_READ_LOCK(iMark[c]))

\* Look for a mark nobody uses and raise it to mxFrame.
CanRaise(c) == CanLock({WAL_READ_LOCK(iMark[c])})

RaiseLock(c) ==
    /\ pc[c] = "raise" /\ CanRaise(c)
    /\ Lock(c, {WAL_READ_LOCK(iMark[c])})
    /\ Goto(c, "raiseSet")
    /\ UNCHANGED <<fileVars, shmVars, lockS, hdrVars, readVars, ckptVars, iMark,
                   commitVars, viewVars, nCrash>>

\* If every mark is in use, share the one found, or retry if there is none.
RaiseBusy(c) ==
    /\ pc[c] = "raise" /\ ~CanRaise(c)
    /\ \/ /\ iMark[c] + 1 \in ReadMarks
          /\ iMark' = [iMark EXCEPT ![c] = @ + 1]
          /\ UNCHANGED <<pc, mxI, mxReadMark>>
       \/ /\ iMark[c] + 1 \notin ReadMarks /\ mxI[c] # 0
          /\ iMark' = [iMark EXCEPT ![c] = 0]
          /\ Goto(c, "lockI")
          /\ UNCHANGED <<mxI, mxReadMark>>
       \/ /\ iMark[c] + 1 \notin ReadMarks /\ mxI[c] = 0
          /\ Retry(c)
    /\ UNCHANGED <<fileVars, shmVars, lockVars, hdrVars, readLock, minFrame, ckptVars,
                   commitVars, viewVars, nCrash>>

RaiseSet(c) ==
    /\ pc[c] = "raiseSet"
    /\ aReadMark' = [aReadMark EXCEPT ![iMark[c]] = hdr[c].mxFrame]
    /\ mxReadMark' = [mxReadMark EXCEPT ![c] = hdr[c].mxFrame]
    /\ mxI' = [mxI EXCEPT ![c] = iMark[c]]
    /\ Unlock({WAL_READ_LOCK(iMark[c])})
    /\ iMark' = [iMark EXCEPT ![c] = 0]
    /\ Goto(c, "lockI")
    /\ UNCHANGED <<fileVars, aHdr, infoVars, lockS, hdrVars, readLock, minFrame, ckptVars,
                   commitVars, viewVars, nCrash>>

LockI(c) ==
    /\ pc[c] = "lockI"
    /\ LET l == WAL_READ_LOCK(mxI[c])
       IN  \/ /\ CanShare(l) /\ Share(c, l)
              /\ Goto(c, "minFrame")
              /\ UNCHANGED <<iMark, mxI, mxReadMark>>
           \/ /\ ~CanShare(l)
              /\ Retry(c)
              /\ UNCHANGED lockS
    /\ UNCHANGED <<fileVars, shmVars, lockX, hdrVars, readLock, minFrame, ckptVars,
                   commitVars, viewVars, nCrash>>

\* Mutant: off by one.
SecondFrame == nBackfill + 2

\* The first frame that is not in the database.
FirstFrame == nBackfill + 1

LoadMinFrame(c) ==
    /\ pc[c] = "minFrame"
    /\ minFrame' = [minFrame EXCEPT ![c] = FirstFrame]
    /\ Goto(c, "checkI")
    /\ UNCHANGED <<fileVars, shmVars, lockVars, hdrVars, readLock, mxI, mxReadMark, ckptVars,
                   iMark, commitVars, viewVars, nCrash>>

MarkUnchanged(c) == aReadMark[mxI[c]] = mxReadMark[c]

CheckI(c) ==
    /\ pc[c] = "checkI"
    /\ \/ /\ MarkUnchanged(c) /\ HdrUnchanged(c)
          /\ readLock' = [readLock EXCEPT ![c] = mxI[c]]
          /\ mxI' = [mxI EXCEPT ![c] = 0]
          /\ mxReadMark' = [mxReadMark EXCEPT ![c] = 0]
          /\ Opened(c)
          /\ UNCHANGED <<lockS, iMark, minFrame>>
       \/ /\ ~(MarkUnchanged(c) /\ HdrUnchanged(c))
          /\ Unshare(c, WAL_READ_LOCK(mxI[c]))
          /\ minFrame' = [minFrame EXCEPT ![c] = 0]
          /\ Retry(c)
          /\ UNCHANGED <<readLock, viewVars, changed>>
    /\ UNCHANGED <<fileVars, shmVars, lockX, hdr, nCkpt, ckptVars, commitVars, nCrash>>

\* sqlite3WalEndReadTransaction.
EndRead(c) ==
    /\ pc[c] = "read"
    /\ Unshare(c, WAL_READ_LOCK(readLock[c]))
    /\ readLock' = [readLock EXCEPT ![c] = -1]
    /\ minFrame' = [minFrame EXCEPT ![c] = 0]
    /\ snap' = [snap EXCEPT ![c] = 0]
    /\ cache' = [cache EXCEPT ![c] = IF Reopen THEN 0 ELSE @]
    /\ hdr' = [hdr EXCEPT ![c] = IF Reopen THEN ZeroHdr ELSE @]
    /\ nCkpt' = [nCkpt EXCEPT ![c] = IF Reopen THEN 0 ELSE @]
    /\ Goto(c, "idle")
    /\ UNCHANGED <<fileVars, shmVars, lockX, changed, mxI, mxReadMark, ckptVars, iMark,
                   commitVars, nCrash>>

(***************************************************************************)
(* walRestartHdr: the log starts again at frame 1.  Called by a writer     *)
(* (walRestartLog) and by a TRUNCATE checkpoint, which hold the WRITER     *)
(* lock and every READ lock above 0.                                       *)
(***************************************************************************)
RestartHdr1(c) ==
    /\ pc[c] = "restart1"
    /\ \E s \in NewSalts :
          hdr' = [hdr EXCEPT ![c].mxFrame = 0, ![c].aSalt = s]
    /\ nCkpt' = [nCkpt EXCEPT ![c] = 1]
    /\ aHdr' = [aHdr EXCEPT ![1] = hdr'[c]]
    /\ Goto(c, "restart0")
    /\ UNCHANGED <<fileVars, infoVars, aReadMark, lockVars, changed, readVars, ckptVars,
                   iMark, commitVars, viewVars, nCrash>>

RestartHdr0(c) ==
    /\ pc[c] = "restart0"
    /\ aHdr' = [aHdr EXCEPT ![0] = hdr[c]]
    /\ Goto(c, "restartBackfill")
    /\ UNCHANGED <<fileVars, infoVars, aReadMark, lockVars, hdrVars, readVars, ckptVars,
                   iMark, commitVars, viewVars, nCrash>>

\* Mutant: the counter survives the restart.
NotReset(n) == n

Reset(n) == 0

\* Mutant: nBackfillAttempted is lowered before nBackfill.
AttemptedFirst(c) ==
    /\ pc[c] = "restartBackfill"
    /\ nBackfillAttempted' = 0
    /\ Goto(c, "restartAttempted")
    /\ UNCHANGED <<fileVars, aHdr, nBackfill, aReadMark, lockVars, hdrVars, readVars, ckptVars,
                   iMark, commitVars, viewVars, nCrash>>

\* The checkpoint counters, one store after the other.
RestartBackfill(c) ==
    /\ pc[c] = "restartBackfill"
    /\ nBackfill' = Reset(nBackfill)
    /\ Goto(c, "restartAttempted")
    /\ UNCHANGED <<fileVars, aHdr, nBackfillAttempted, aReadMark, lockVars, hdrVars, readVars,
                   ckptVars, iMark, commitVars, viewVars, nCrash>>

RestartAttempted(c) ==
    /\ pc[c] = "restartAttempted"
    /\ nBackfillAttempted' = Reset(nBackfillAttempted)
    /\ Goto(c, "restartMarks")
    /\ UNCHANGED <<fileVars, aHdr, nBackfill, aReadMark, lockVars, hdrVars, readVars, ckptVars,
                   iMark, commitVars, viewVars, nCrash>>

RestartInfo(c) == RestartBackfill(c) \/ RestartAttempted(c)

RestartMarks(c) ==
    /\ pc[c] = "restartMarks"
    /\ aReadMark' = [i \in ReadMarks |-> IF i = 1 THEN 0 ELSE READMARK_NOT_USED]
    /\ Goto(c, IF InCkpt(c) THEN "truncate" ELSE "restarted")
    /\ UNCHANGED <<fileVars, aHdr, infoVars, lockVars, hdrVars, readVars, ckptVars,
                   iMark, commitVars, viewVars, nCrash>>

(***************************************************************************)
(* A write transaction                                                     *)
(***************************************************************************)
\* sqlite3WalBeginWriteTransaction: the lock, then the check.
BeginWrite(c) ==
    /\ pc[c] = "read" /\ c \in Writers /\ txn <= MaxTxn
    /\ CanLock({WAL_WRITE_LOCK})
    /\ Lock(c, {WAL_WRITE_LOCK})
    /\ Goto(c, "writeCheck")
    /\ UNCHANGED <<fileVars, shmVars, lockS, hdrVars, readVars, ckptVars, iMark,
                   commitVars, viewVars, nCrash>>

\* Mutant: the check for SQLITE_BUSY_SNAPSHOT is left out.
SnapshotUnchecked(c) == TRUE

\* Nobody has committed since the read transaction began.
SnapshotIsCurrent(c) == hdr[c] = aHdr[0]

WriteCheck(c) ==
    /\ pc[c] = "writeCheck"
    /\ \/ /\ SnapshotIsCurrent(c)
          /\ txn' = txn + 1
          /\ work' = hist[snap[c]].img
          /\ Goto(c, "write")
          /\ UNCHANGED lockX
       \/ /\ ~SnapshotIsCurrent(c)         \* SQLITE_BUSY_SNAPSHOT
          /\ Unlock({WAL_WRITE_LOCK})
          /\ Goto(c, "read")
          /\ UNCHANGED <<txn, work>>
    /\ UNCHANGED <<fileVars, shmVars, lockS, hdrVars, readVars, ckptVars, iMark,
                   hist, pend, viewVars, nCrash>>

\* walRestartLog, with a read lock on slot 0: restart the log if it is all
\* in the database and nobody reads from it.
CanRestart == nBackfill > 0 /\ CanLock(LogReadLocks)

RestartLog(c) ==
    /\ pc[c] = "write" /\ readLock[c] = 0
    /\ CanRestart
    /\ Lock(c, LogReadLocks)
    /\ Goto(c, "restart1")
    /\ UNCHANGED <<fileVars, shmVars, lockS, hdrVars, readVars, ckptVars, iMark,
                   commitVars, viewVars, nCrash>>

\* Either way the writer moves from slot 0 to a slot that uses the log.
RestartLogEnd(c) ==
    /\ \/ pc[c] = "write" /\ readLock[c] = 0 /\ ~CanRestart /\ UNCHANGED lockX
       \/ pc[c] = "restarted" /\ Unlock(LogReadLocks)
    /\ Unshare(c, WAL_READ_LOCK(0))
    /\ readLock' = [readLock EXCEPT ![c] = -1]
    /\ ToScan(c)
    /\ UNCHANGED <<fileVars, shmVars, hdrVars, minFrame, ckptVars,
                   commitVars, viewVars, nCrash>>

\* The first frame of a log is preceded by its header.  A connection that
\* has never restarted or recovered a log draws a new salt.
WriteWalHdr(c) ==
    /\ pc[c] = "write" /\ readLock[c] > 0 /\ hdr[c].mxFrame = 0
    /\ \E s \in IF nCkpt[c] = 0 THEN NewSalts ELSE {hdr[c].aSalt} :
          /\ logHdr' = [aSalt |-> s, nCkpt |-> nCkpt[c]]
          /\ hdr' = [hdr EXCEPT ![c].aSalt = s, ![c].aFrameCksum = 0]
    /\ Goto(c, "frames")
    /\ UNCHANGED <<db, log, shmVars, lockVars, changed, nCkpt, readVars, ckptVars, iMark,
                   commitVars, viewVars, nCrash>>

\* The frame this transaction has already written for page p, or 0.
OwnFrame(c, p) == LastFrame(p, aHdr[0].mxFrame + 1, hdr[c].mxFrame)

\* The file after frames fs are written at position hdr.mxFrame + 1: what
\* lies beyond them stays.
WriteFrames(c, fs) ==
    LET m == hdr[c].mxFrame
        n == m + Len(fs)
    IN  [i \in 1..(IF n > Len(log) THEN n ELSE Len(log)) |->
            IF i > m /\ i <= n THEN fs[i - m] ELSE log[i]]

FrameOf(c, p, first, nTruncate) ==
    [pgno |-> p, val |-> txn, nTruncate |-> nTruncate, aSalt |-> hdr[c].aSalt,
     prev |-> IF first THEN hdr[c].aFrameCksum ELSE txn]

InFrames(c) ==
    \/ pc[c] = "frames"
    \/ pc[c] = "write" /\ readLock[c] > 0 /\ hdr[c].mxFrame > 0

\* pagerStress: a page leaves the cache before the commit.  Page 1 never
\* does.  Writing the same page again overwrites its frame, with the same
\* content as far as this model tells contents apart.
Spill(c) ==
    /\ InFrames(c)
    /\ hdr[c].mxFrame < MaxFrame
    /\ \E p \in Spills :
          /\ OwnFrame(c, p) = 0
          /\ log' = WriteFrames(c, <<FrameOf(c, p, TRUE, 0)>>)
          /\ work' = [work EXCEPT ![p] = txn]
    /\ hdr' = [hdr EXCEPT ![c].mxFrame = @ + 1, ![c].aFrameCksum = txn]
    /\ pend' = [txn |-> 0, img |-> NoImage]
    /\ Goto(c, "write")
    /\ UNCHANGED <<db, logHdr, shmVars, lockVars, changed, nCkpt, readVars, ckptVars, iMark,
                   txn, hist, viewVars, nCrash>>

\* The orders, one in fact, in which sqlite3WalFrames finds dirty pages S.
Ascending(S) == {q \in [1..Cardinality(S) -> S] :
                    \A i, j \in 1..Cardinality(S) : i < j => q[i] < q[j]}

\* The pages for which the commit of S writes a new frame.
NewPages(c, S) == {p \in S : p = Top(S) \/ OwnFrame(c, p) = 0}

\* The frames of a commit of the pages in q, the last one with the new size n.
CommitFrames(c, q, n) ==
    [i \in 1..Len(q) |-> FrameOf(c, q[i], i = 1, IF i = Len(q) THEN n ELSE 0)]

\* The image a commit of pages S leaves, with n pages.
Committed(S, n) ==
    [p \in Page |-> IF p > n THEN 0 ELSE IF p \in S THEN txn ELSE work[p]]

\* sqlite3WalFrames at a commit: the dirty pages S in order, the last of
\* them with the new size n of the database.  Pages the transaction has
\* already written are overwritten where they are, except the last.
Commit(c) ==
    /\ InFrames(c)
    /\ \E w \in Writes :
       \E q \in Ascending(NewPages(c, w.pages)) :
          /\ hdr[c].mxFrame + Len(q) <= MaxFrame
          /\ \A p \in 1..w.size : Committed(w.pages, w.size)[p] # 0
          /\ log' = WriteFrames(c, CommitFrames(c, q, w.size))
          /\ hdr' = [hdr EXCEPT ![c].mxFrame = @ + Len(q), ![c].aFrameCksum = txn,
                                ![c].iChange = @ + 1, ![c].nPage = w.size]
          /\ pend' = [txn |-> txn, img |-> Committed(w.pages, w.size)]
    /\ Goto(c, "publish1")
    /\ UNCHANGED <<db, logHdr, shmVars, lockVars, changed, nCkpt, readVars, ckptVars, iMark,
                   txn, hist, work, viewVars, nCrash>>

\* walIndexWriteHdr, copy 1 then copy 0.
Publish1(c) ==
    /\ pc[c] = "publish1"
    /\ aHdr' = [aHdr EXCEPT ![1] = hdr[c]]
    /\ Goto(c, "publish0")
    /\ UNCHANGED <<fileVars, infoVars, aReadMark, lockVars, hdrVars, readVars, ckptVars,
                   iMark, commitVars, viewVars, nCrash>>

Publish0(c) ==
    /\ pc[c] = "publish0"
    /\ aHdr' = [aHdr EXCEPT ![0] = hdr[c]]
    /\ hist' = Append(hist, pend)
    /\ snap' = [snap EXCEPT ![c] = Len(hist')]
    /\ cache' = [cache EXCEPT ![c] = Len(hist')]
    /\ Goto(c, "endWrite")
    /\ UNCHANGED <<fileVars, infoVars, aReadMark, lockVars, hdrVars, readVars, ckptVars,
                   iMark, txn, work, pend, nCrash>>

\* A transaction that has written nothing gives its number back.
TxnUsed == \E i \in 1..Len(log) : log[i].val = txn

\* sqlite3WalEndWriteTransaction after a commit; pagerRollbackWal,
\* sqlite3WalUndo and EndWriteTransaction for a rollback.
EndWrite(c) ==
    /\ pc[c] = "endWrite"
    /\ Unlock({WAL_WRITE_LOCK})
    /\ work' = NoImage
    /\ Goto(c, "read")
    /\ UNCHANGED <<fileVars, shmVars, lockS, hdrVars, readVars, ckptVars, iMark,
                   txn, hist, pend, viewVars, nCrash>>

Rollback(c) ==
    /\ pc[c] \in {"write", "frames"}
    /\ hdr' = [hdr EXCEPT ![c] = aHdr[0]]
    /\ Unlock({WAL_WRITE_LOCK})
    /\ work' = NoImage
    /\ txn' = IF TxnUsed THEN txn ELSE txn - 1
    /\ Goto(c, "read")
    /\ UNCHANGED <<fileVars, shmVars, lockS, changed, nCkpt, readVars, ckptVars, iMark,
                   hist, pend, viewVars, nCrash>>

(***************************************************************************)
(* sqlite3WalCheckpoint and walCheckpoint.  A busy handler that retries is *)
(* a wait; one that gives up is the busy branch.                           *)
(***************************************************************************)
BeginCkpt(c) ==
    /\ pc[c] = "idle" /\ c \in Checkpointers
    /\ CanLock({WAL_CKPT_LOCK})
    /\ Lock(c, {WAL_CKPT_LOCK})
    /\ \E m \in Modes :
          /\ eMode' = [eMode EXCEPT ![c] = m]
          /\ Goto(c, IF m = "PASSIVE" THEN "hdr" ELSE "ckptWriter")
    /\ UNCHANGED <<fileVars, shmVars, lockS, hdrVars, readVars, y, mxSafeFrame, todo, iMark,
                   commitVars, viewVars, nCrash>>

CkptWriter(c) ==
    /\ pc[c] = "ckptWriter"
    /\ \/ /\ CanLock({WAL_WRITE_LOCK})
          /\ Lock(c, {WAL_WRITE_LOCK})
          /\ UNCHANGED eMode
       \/ /\ ~CanLock({WAL_WRITE_LOCK})
          /\ eMode' = [eMode EXCEPT ![c] = "PASSIVE"]
          /\ UNCHANGED lockX
    /\ Goto(c, "hdr")
    /\ UNCHANGED <<fileVars, shmVars, lockS, hdrVars, readVars, y, mxSafeFrame, todo, iMark,
                   commitVars, viewVars, nCrash>>

\* Where walCheckpoint goes when the copy is over: PASSIVE returns.
AfterCopy(c) == IF eMode[c] = "PASSIVE" THEN "ckptEnd" ELSE "ckptMode"

\* Is there anything to copy?
CkptInfo(c) ==
    /\ pc[c] = "ckptInfo"
    /\ IF nBackfill < hdr[c].mxFrame
       THEN /\ mxSafeFrame' = [mxSafeFrame EXCEPT ![c] = hdr[c].mxFrame]
            /\ iMark' = [iMark EXCEPT ![c] = 1]
            /\ Goto(c, "ckptMarks")
       ELSE Goto(c, AfterCopy(c)) /\ UNCHANGED <<mxSafeFrame, iMark>>
    /\ UNCHANGED <<fileVars, shmVars, lockVars, hdrVars, readVars, eMode, y, todo,
                   commitVars, viewVars, nCrash>>

\* Lower mxSafeFrame to the marks in use; retire the others.
CkptMark(c) ==
    /\ pc[c] = "ckptMarks" /\ iMark[c] \in ReadMarks
    /\ IF mxSafeFrame[c] > aReadMark[iMark[c]]
       THEN /\ y' = [y EXCEPT ![c] = aReadMark[iMark[c]]]
            /\ Goto(c, "ckptMarkLock")
            /\ UNCHANGED iMark
       ELSE iMark' = [iMark EXCEPT ![c] = @ + 1] /\ UNCHANGED <<y, pc>>
    /\ UNCHANGED <<fileVars, shmVars, lockVars, hdrVars, readVars, eMode, mxSafeFrame, todo,
                   commitVars, viewVars, nCrash>>

\* Mutant: a reader does not limit the checkpoint.
SafeDespiteReader(c) == mxSafeFrame[c]

\* A mark that is in use limits the checkpoint.
SafeWithReader(c) == y[c]

CkptMarkBusy(c) ==
    /\ pc[c] = "ckptMarkLock"
    /\ ~CanLock({WAL_READ_LOCK(iMark[c])})
    /\ mxSafeFrame' = [mxSafeFrame EXCEPT ![c] = SafeWithReader(c)]
    /\ y' = [y EXCEPT ![c] = 0]
    /\ iMark' = [iMark EXCEPT ![c] = @ + 1]
    /\ Goto(c, "ckptMarks")
    /\ UNCHANGED <<fileVars, shmVars, lockVars, hdrVars, readVars, eMode, todo,
                   commitVars, viewVars, nCrash>>

CkptMarkLock(c) ==
    /\ pc[c] = "ckptMarkLock"
    /\ CanLock({WAL_READ_LOCK(iMark[c])})
    /\ Lock(c, {WAL_READ_LOCK(iMark[c])})
    /\ Goto(c, "ckptMarkSet")
    /\ UNCHANGED <<fileVars, shmVars, lockS, hdrVars, readVars, ckptVars, iMark,
                   commitVars, viewVars, nCrash>>

CkptMarkSet(c) ==
    /\ pc[c] = "ckptMarkSet"
    /\ aReadMark' = [aReadMark EXCEPT ![iMark[c]] =
                        IF iMark[c] = 1 THEN mxSafeFrame[c] ELSE READMARK_NOT_USED]
    /\ Unlock({WAL_READ_LOCK(iMark[c])})
    /\ y' = [y EXCEPT ![c] = 0]
    /\ iMark' = [iMark EXCEPT ![c] = @ + 1]
    /\ Goto(c, "ckptMarks")
    /\ UNCHANGED <<fileVars, aHdr, infoVars, lockS, hdrVars, readVars, eMode, mxSafeFrame,
                   todo, commitVars, viewVars, nCrash>>

\* walIteratorInit and the tests on what walIteratorNext returns: the
\* newest frame of each page, if the frame is safe to copy and the page
\* is part of the database.
CkptFrames(c) ==
    {i \in 1..Len(log) :
        /\ nBackfill < i /\ i <= mxSafeFrame[c]
        /\ log[i].pgno <= hdr[c].nPage
        /\ i = LastFrame(log[i].pgno, nBackfill + 1, hdr[c].mxFrame)}

\* Mutant: the iterator is used even when a reader left nothing to copy.
CopyAlways(c) == TRUE

MoreToCopy(c) == nBackfill < mxSafeFrame[c]

\* READ lock 0 keeps out the readers of the database file alone.
CkptLock0(c) ==
    /\ pc[c] = "ckptMarks" /\ iMark[c] \notin ReadMarks
    /\ iMark' = [iMark EXCEPT ![c] = 0]
    /\ LET l == WAL_READ_LOCK(0)
       IN  \/ /\ MoreToCopy(c)
              /\ CanLock({l}) /\ Lock(c, {l})
              /\ todo' = [todo EXCEPT ![c] = CkptFrames(c)]
              /\ nBackfillAttempted' = mxSafeFrame[c]
              /\ Goto(c, "ckptCopy")
           \/ /\ ~(MoreToCopy(c) /\ CanLock({l}))
              /\ Goto(c, AfterCopy(c))
              /\ UNCHANGED <<lockX, todo, nBackfillAttempted>>
    /\ UNCHANGED <<fileVars, aHdr, nBackfill, aReadMark, lockS, hdrVars, readVars, eMode, y,
                   mxSafeFrame, commitVars, viewVars, nCrash>>

\* One page, in the order of page numbers.
CkptCopy(c) ==
    /\ pc[c] = "ckptCopy"
    /\ \E i \in todo[c] :
          /\ \A j \in todo[c] : log[i].pgno <= log[j].pgno
          /\ db' = [db EXCEPT ![log[i].pgno] = log[i].val]
          /\ todo' = [todo EXCEPT ![c] = @ \ {i}]
    /\ UNCHANGED <<log, logHdr, shmVars, lockVars, pc, hdrVars, readVars, eMode, y,
                   mxSafeFrame, iMark, commitVars, viewVars, nCrash>>

\* The copy stops: sqlite3_interrupt or an error of the file system.
CkptInterrupt(c) ==
    /\ pc[c] = "ckptCopy" /\ todo[c] # {}
    /\ todo' = [todo EXCEPT ![c] = {}]
    /\ Unlock({WAL_READ_LOCK(0)})
    /\ Goto(c, "ckptEnd")
    /\ UNCHANGED <<fileVars, shmVars, lockS, hdrVars, readVars, eMode, y, mxSafeFrame, iMark,
                   commitVars, viewVars, nCrash>>

\* Everything in the log is copied: the file gets the size of the header.
CkptTruncateDb(c) ==
    /\ pc[c] = "ckptCopy" /\ todo[c] = {}
    /\ db' = IF mxSafeFrame[c] = aHdr[0].mxFrame
             THEN [p \in Page |-> IF p <= hdr[c].nPage THEN db[p] ELSE 0]
             ELSE db
    /\ Goto(c, "ckptDone")
    /\ UNCHANGED <<log, logHdr, shmVars, lockVars, hdrVars, readVars, ckptVars, iMark,
                   commitVars, viewVars, nCrash>>

CkptDone(c) ==
    /\ pc[c] = "ckptDone"
    /\ nBackfill' = mxSafeFrame[c]
    /\ Goto(c, "ckptUnlock0")
    /\ UNCHANGED <<fileVars, aHdr, nBackfillAttempted, aReadMark, lockVars, hdrVars,
                   readVars, ckptVars, iMark, commitVars, viewVars, nCrash>>

CkptUnlock0(c) ==
    /\ pc[c] = "ckptUnlock0"
    /\ Unlock({WAL_READ_LOCK(0)})
    /\ Goto(c, AfterCopy(c))
    /\ UNCHANGED <<fileVars, shmVars, lockS, hdrVars, readVars, ckptVars, iMark,
                   commitVars, viewVars, nCrash>>

\* Mutant: the log is restarted although some of it is not copied.
RestartAnyway(c) == eMode[c] \in {"RESTART", "TRUNCATE"}

\* RESTART waits until nobody reads from the log; TRUNCATE then restarts
\* and empties it.
WantsRestart(c) == eMode[c] \in {"RESTART", "TRUNCATE"} /\ nBackfill >= hdr[c].mxFrame

\* Mutant: the file is truncated before the header says so.
TruncateFirst(c) == IF eMode[c] = "TRUNCATE" THEN "truncate" ELSE "ckptUnlock"

\* Where the checkpoint goes once nobody reads from the log.
AfterDrain(c) == IF eMode[c] = "TRUNCATE" THEN "restart1" ELSE "ckptUnlock"

CkptRestart(c) ==
    /\ pc[c] = "ckptMode"
    /\ WantsRestart(c) /\ CanLock(LogReadLocks)
    /\ Lock(c, LogReadLocks)
    /\ Goto(c, AfterDrain(c))
    /\ UNCHANGED <<fileVars, shmVars, lockS, hdrVars, readVars, ckptVars, iMark,
                   commitVars, viewVars, nCrash>>

CkptNoRestart(c) ==
    /\ pc[c] = "ckptMode"
    /\ ~(WantsRestart(c) /\ CanLock(LogReadLocks))
    /\ Goto(c, "ckptEnd")
    /\ UNCHANGED <<fileVars, shmVars, lockVars, hdrVars, readVars, ckptVars, iMark,
                   commitVars, viewVars, nCrash>>

CkptTruncateLog(c) ==
    /\ pc[c] = "truncate"
    /\ log' = <<>> /\ logHdr' = NoLogHdr
    /\ Goto(c, "ckptUnlock")
    /\ UNCHANGED <<db, shmVars, lockVars, hdrVars, readVars, ckptVars, iMark,
                   commitVars, viewVars, nCrash>>

CkptUnlock(c) ==
    /\ pc[c] = "ckptUnlock"
    /\ Unlock(LogReadLocks)
    /\ Goto(c, "ckptEnd")
    /\ UNCHANGED <<fileVars, shmVars, lockS, hdrVars, readVars, ckptVars, iMark,
                   commitVars, viewVars, nCrash>>

\* Mutant: the header is kept.
HdrKept(c) == IF Reopen THEN ZeroHdr ELSE hdr[c]

\* A header the page cache does not know of is forgotten again.
HdrAfterCkpt(c) == IF changed[c] \/ Reopen THEN ZeroHdr ELSE hdr[c]

CkptEnd(c) ==
    /\ pc[c] = "ckptEnd"
    /\ hdr' = [hdr EXCEPT ![c] = HdrAfterCkpt(c)]
    /\ changed' = [changed EXCEPT ![c] = FALSE]
    /\ Unlock({l \in {WAL_WRITE_LOCK, WAL_CKPT_LOCK} : lockX[l] = c})
    /\ eMode' = [eMode EXCEPT ![c] = "NONE"]
    /\ mxSafeFrame' = [mxSafeFrame EXCEPT ![c] = 0]
    /\ nCkpt' = [nCkpt EXCEPT ![c] = IF Reopen THEN 0 ELSE @]
    /\ Goto(c, "idle")
    /\ UNCHANGED <<fileVars, shmVars, lockS, readVars, y, todo, iMark,
                   commitVars, viewVars, nCrash>>

(***************************************************************************)
(* The process of a connection is killed: the operating system drops its   *)
(* locks, and another process takes its place.  If every process dies the  *)
(* next one to open the wal-index finds it zeroed (unixLockSharedMemory).  *)
(***************************************************************************)
ResetConn(C) ==
    LET Put(f, v) == [c \in Conn |-> IF c \in C THEN v ELSE f[c]]
    IN  /\ lockX' = [l \in Locks |-> IF lockX[l] \in C THEN None ELSE lockX[l]]
        /\ lockS' = [l \in Locks |-> lockS[l] \ C]
        /\ pc' = Put(pc, "idle")
        /\ hdr' = Put(hdr, ZeroHdr)
        /\ changed' = Put(changed, FALSE)
        /\ nCkpt' = Put(nCkpt, 0)
        /\ readLock' = Put(readLock, -1)
        /\ minFrame' = Put(minFrame, 0)
        /\ mxI' = Put(mxI, 0)
        /\ mxReadMark' = Put(mxReadMark, 0)
        /\ eMode' = Put(eMode, "NONE")
        /\ y' = Put(y, 0)
        /\ mxSafeFrame' = Put(mxSafeFrame, 0)
        /\ todo' = Put(todo, {})
        /\ iMark' = Put(iMark, 0)
        /\ snap' = Put(snap, 0)
        /\ cache' = Put(cache, 0)

Crash(c) ==
    /\ nCrash < MaxCrash /\ nCrash' = nCrash + 1
    /\ pc[c] # "idle"
    /\ pc[c] = "restartBackfill" => CrashInRestart
    /\ ResetConn({c})
    /\ work' = IF lockX[WAL_WRITE_LOCK] = c THEN NoImage ELSE work
    /\ UNCHANGED <<fileVars, shmVars, txn, hist, pend>>

CrashAll ==
    /\ nCrash < MaxCrash /\ nCrash' = nCrash + 1
    /\ ResetConn(Conn)
    /\ aHdr' = [k \in 0..1 |-> ZeroHdr]
    /\ nBackfill' = 0 /\ nBackfillAttempted' = 0
    /\ aReadMark' = [i \in ReadMarks |-> 0]
    /\ work' = NoImage
    /\ UNCHANGED <<fileVars, txn, hist, pend>>

(***************************************************************************)
(* The specification                                                       *)
(***************************************************************************)
\* Steps a connection takes to finish a call it has begun.
HdrStep(c) ==
    \/ ReadHdr(c) \/ HdrLock(c) \/ HdrRetry(c) \/ RecoverLock(c) \/ RecoverBusy(c)
    \/ CkptHdrBusy(c) \/ RecoverScan(c) \/ RecoverHdr(c) \/ RecoverInfo(c)
    \/ RecoverMarkLock(c) \/ RecoverMarkSet(c) \/ RecoverEnd(c)
ReadStep(c) ==
    \/ CheckBackfill(c) \/ Lock0(c) \/ Check0(c) \/ ScanMark(c) 
    \/ RaiseLock(c) \/ RaiseBusy(c) \/ RaiseSet(c) \/ LockI(c) \/ LoadMinFrame(c)
    \/ CheckI(c)
WriteStep(c) ==
    \/ WriteCheck(c) \/ RestartLog(c) \/ RestartLogEnd(c) \/ RestartHdr1(c)
    \/ RestartHdr0(c) \/ RestartInfo(c) \/ RestartMarks(c)
    \/ Publish1(c) \/ Publish0(c) \/ EndWrite(c)
CkptStep(c) ==
    \/ CkptWriter(c) \/ CkptInfo(c) \/ CkptMark(c) \/ CkptMarkBusy(c) \/ CkptMarkLock(c)
    \/ CkptMarkSet(c) \/ CkptLock0(c) \/ CkptCopy(c)
    \/ CkptTruncateDb(c) \/ CkptDone(c) \/ CkptUnlock0(c) \/ CkptRestart(c)
    \/ CkptNoRestart(c) \/ CkptTruncateLog(c) \/ CkptUnlock(c) \/ CkptEnd(c)
CallStep(c) == HdrStep(c) \/ ReadStep(c) \/ WriteStep(c) \/ CkptStep(c)

\* Steps the application or the environment may take or not.
UserStep(c) ==
    \/ BeginRead(c) \/ ReadFails(c) \/ EndRead(c)
    \/ BeginWrite(c) \/ WriteWalHdr(c) \/ Spill(c) \/ Commit(c) \/ Rollback(c)
    \/ BeginCkpt(c) \/ CkptInterrupt(c)

\* Unless CkptPreempt, a checkpointer that has read the header loads
\* nBackfill before anybody else moves.
MayRun(c) == CkptPreempt \/ \A d \in Conn \ {c} : pc[d] # "ckptInfo"

Next ==
    \/ \E c \in Conn : MayRun(c) /\ (CallStep(c) \/ UserStep(c) \/ Crash(c))
    \/ CrashAll

Spec == Init /\ [][Next]_vars

\* Once called, a function of wal.c runs to its end.
Fairness == \A c \in Conn : WF_vars(MayRun(c) /\ CallStep(c))
FairSpec == Spec /\ Fairness

(***************************************************************************)
(* Properties                                                              *)
(***************************************************************************)
PCs == {"idle", "hdr", "hdrLocked", "recScan", "recHdr", "recBackfill", "recAttempted",
        "recMarks", "recSet", "backfill", "lock0", "check0", "scan", "raise", "raiseSet",
        "lockI", "minFrame", "checkI", "read", "writeCheck", "write", "restart1", "restart0",
        "restartBackfill", "restartAttempted", "restartMarks", "restarted", "truncate", "frames", "publish1", "publish0",
        "endWrite", "ckptWriter", "ckptInfo", "ckptMarks", "ckptMarkLock", "ckptMarkSet",
        "ckptCopy", "ckptDone", "ckptUnlock0", "ckptMode", "ckptUnlock",
        "ckptEnd"}
Version == [txn : Txn, img : Image]

\* The types of the variables, in groups.
FileTypes ==
    /\ db \in Image /\ log \in Seq(FrameRec) /\ Len(log) <= MaxFrame
    /\ logHdr \in [aSalt : 0..MaxSalt, nCkpt : 0..1]
ShmTypes ==
    /\ aHdr \in [0..1 -> Header]
    /\ nBackfill \in Frame /\ nBackfillAttempted \in Frame
    /\ aReadMark \in [ReadMarks -> 0..READMARK_NOT_USED]
ControlTypes ==
    /\ pc \in [Conn -> PCs]
    /\ eMode \in [Conn -> {"NONE", "PASSIVE", "FULL", "RESTART", "TRUNCATE"}]
    /\ iMark \in [Conn -> 0..WAL_NREADER]
    /\ lockX \in [Locks -> Conn \cup {None}]
    /\ lockS \in [Locks -> SUBSET Conn]
HdrTypes ==
    /\ hdr \in [Conn -> Header]
    /\ changed \in [Conn -> BOOLEAN] /\ nCkpt \in [Conn -> 0..1]
ReadTypes ==
    /\ readLock \in [Conn -> -1..(WAL_NREADER - 1)]
    /\ minFrame \in [Conn -> 0..(MaxFrame + 1)]
    /\ mxI \in [Conn -> 0..(WAL_NREADER - 1)]
    /\ mxReadMark \in [Conn -> Frame]
CkptTypes ==
    /\ y \in [Conn -> Frame]
    /\ mxSafeFrame \in [Conn -> Frame]
    /\ todo \in [Conn -> SUBSET (1..MaxFrame)]
HistTypes ==
    /\ txn \in 1..(MaxTxn + 1)
    /\ hist \in Seq(Version) /\ Len(hist) >= 1
    /\ work \in Image /\ pend \in Version
    /\ snap \in [Conn -> Nat] /\ cache \in [Conn -> Nat]
    /\ nCrash \in 0..MaxCrash

\* Every variable has its type: frame numbers stay within the log, marks are
\* frame numbers or READMARK_NOT_USED (struct WalIndexHdr, WalCkptInfo, Wal).
TypeOK ==
    /\ FileTypes /\ ShmTypes /\ ControlTypes /\ HdrTypes /\ ReadTypes /\ CkptTypes
    /\ HistTypes

\* A transaction reads the database as it was when the transaction began, at
\* every step of every other connection, and a writer reads its own pages
\* (sqlite3WalFindFrame, with the slot and minFrame walTryBeginRead chose).
SnapshotIsolation ==
    \A c \in Conn :
        /\ pc[c] \in {"read", "writeCheck"} => ReadImage(c) = hist[snap[c]].img
        /\ pc[c] \in {"write", "frames"} =>
              \A p \in 1..DbSize(c) : ReadImage(c)[p] = work[p]

\* A write transaction builds on the newest version, so no commit is lost
\* (the check for SQLITE_BUSY_SNAPSHOT in sqlite3WalBeginWriteTransaction).
NoLostUpdate ==
    \A c \in Conn :
        pc[c] \in {"write", "frames", "publish1"} /\ lockX[WAL_WRITE_LOCK] = c =>
            snap[c] = Len(hist)

\* A page cache the pager keeps from one transaction to the next holds the
\* version the transaction reads (pChanged, and the header a checkpoint
\* forgets at its end).
CacheIsFresh ==
    \A c \in Conn :
        pc[c] \in {"read", "writeCheck"} => hist[cache[c]].img = hist[snap[c]].img

\* At every moment the two files alone hold the last commit: if every process
\* died now, recovery would find it, or one whose writer was about to publish.
Recoverable ==
    LET m == RecoveredFrame
        img == ImageOf(1, m, IF m = 0 THEN SizeOf(db) ELSE log[m].nTruncate)
    IN  \/ img = hist[Len(hist)].img
        \/ pend.txn # 0 /\ img = pend.img

\* "The nBackfill number is never greater than WalIndexHdr.mxFrame" (comment
\* on struct WalCkptInfo), outside the stores of the header and of nBackfill
\* that walRestartHdr and walIndexRecover make one after the other.
BackfillBounded ==
    (\A c \in Conn : pc[c] \notin {"restartBackfill", "recBackfill"}) =>
        nBackfill <= aHdr[0].mxFrame

\* "The WalIndexHdr.mxFrame must never be less than nBackfillAttempted" (same
\* comment): a checkpoint never claims frames that are not committed.  Between
\* the stores of walRestartHdr and of walIndexRecover it may fail, and for good
\* when a process is killed between the two counters of walRestartHdr: it is
\* stated of processes that are not killed.
AttemptedBounded ==
    (\A c \in Conn : pc[c] \notin {"restartBackfill", "restartAttempted",
                                   "recBackfill", "recAttempted"}) =>
        nBackfillAttempted <= aHdr[0].mxFrame

\* "nBackfillAttempted is the largest value of nBackfill that a checkpoint has
\* attempted to achieve" (same comment), whoever is killed and wherever: a
\* checkpoint raises it first, and a restart and a recovery lower it last.
AttemptedCovers == nBackfill <= nBackfillAttempted

\* nBackfill is raised under the CKPT lock only, and it falls only to zero,
\* under the WRITER lock (comment on struct WalCkptInfo).
BackfillOwner ==
    [][ /\ nBackfill' > nBackfill =>
              \E c \in Conn : lockX[WAL_CKPT_LOCK] = c /\ pc[c] = "ckptDone"
        /\ nBackfill' < nBackfill =>
              /\ nBackfill' = 0
              /\ lockX[WAL_WRITE_LOCK] # None \/ nCrash' > nCrash ]_vars

\* A read mark does not change under a connection that holds its lock shared
\* (comment on aReadMark in struct WalCkptInfo).
MarkIsStable ==
    [][ \A i \in ReadMarks :
            aReadMark'[i] # aReadMark[i] =>
                lockS[WAL_READ_LOCK(i)] = {} \/ nCrash' > nCrash ]_vars

\* Unless checkpoints are called for ever (then walTryBeginRead gives up after
\* 100 retries), a connection that begins to read gets its snapshot or an
\* error, whatever the others do and whoever is killed: the retries of
\* walTryBeginRead and walIndexReadHdr do not depend on a lock that stays.
ReadTerminates ==
    <>[](\A d \in Conn : eMode[d] = "NONE") =>
        \A c \in Conn : (pc[c] = "hdr" /\ eMode[c] = "NONE") ~> pc[c] \in {"read", "idle"}
============================================================================
