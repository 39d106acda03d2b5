------------------------------ MODULE WalSync ------------------------------
(***************************************************************************)
(* What reaches the disk in WAL mode (src/src/src/wal.c): the header and   *)
(* the frames sqlite3WalFrames writes, the syncs of a commit and of a      *)
(* checkpoint, the restart and the truncation of the log, the frames of a  *)
(* spilled page that are written again, and walIndexRecover over whatever  *)
(* a power failure or the death of every process leaves.                   *)
(*                                                                         *)
(* Wal models who may read, write and checkpoint when.  Here a reader is   *)
(* only the limit it sets to a checkpoint and to a restart.  The WAL is a  *)
(* file of Disk: its header in slot 1, frame i in slot i + 1.  The         *)
(* database keeps its size.                                                *)
(***************************************************************************)
EXTENDS Disk

CONSTANTS
    Configs,    \* pairs of "WAL" and a synchronous level
    WriteSets,  \* the sets of pages a call of sqlite3WalFrames may be given
    MaxFrame,   \* bound: frames in the WAL
    MaxCkpt,    \* bound: checkpoints
    MaxCall,    \* bound: calls of sqlite3WalFrames in a transaction
    MaxFault    \* bound: power failures and deaths of processes

WalSyncConstants ==
    /\ Configs \subseteq {"WAL"} \X {"NORMAL", "FULL"}
    /\ MaxPage \in Nat \ {0} /\ WriteSets \subseteq SUBSET Page \ {{}}
    /\ MaxTxn \in Nat /\ MaxFrame \in Nat
    /\ MaxCkpt \in Nat /\ MaxCall \in Nat /\ MaxFault \in Nat

VARIABLES
    config,        \* <<"WAL", synchronous>>
    db, dbMay,     \* the database file, and what the disk may hold of it
    wal, walMay,   \* the same for the WAL
    hdr,           \* the header in the wal-index: mxFrame, aSalt, aFrameCksum, nCkpt
    nBackfill,
    w,             \* the writer
    ckpt,          \* the checkpointer
    \* history: not part of the program
    hist,          \* the committed images
    safe,          \* the commits up to this one are on the disk
    limbo,         \* images of commits written but not published, with the
                   \* number of commits before them
    txn, nCkpt, nFault

diskVars == <<db, dbMay, wal, walMay>>
histVars == <<hist, safe, limbo, txn>>
boundVars == <<nCkpt, nFault>>
vars == <<config, diskVars, hdr, nBackfill, w, ckpt, histVars, boundVars>>

\* WAL_SYNC_FLAGS: does a commit sync the WAL?
syncsCommit == config[2] = "FULL"

(***************************************************************************)
(* The WAL file.  A checksum covers the frame and the checksum before it.  *)
(***************************************************************************)
WalHdr(h) == [kind |-> "hdr", salt |-> h.salt, nCkpt |-> h.nCkpt]
FirstCksum(salt) == <<salt>>
Cksum(before, p, val, isCommit) == <<before, p, val, isCommit>>
Frame(p, val, isCommit, salt, cksum) ==
    [kind |-> "frame", pgno |-> p, val |-> val, commit |-> isCommit, salt |-> salt,
     cksum |-> cksum]

FrameAt(f, i) == SlotAt(f, i + 1)

\* walDecodeFrame: frame i of file f is valid after one with checksum sum.
IsValid(f, i, sum) ==
    LET r == FrameAt(f, i)
    IN  /\ r.kind = "frame" /\ r.salt = f.slots[1].salt
        /\ r.cksum = Cksum(sum, r.pgno, r.val, r.commit)

NoHdr == [mxFrame |-> 0, salt |-> 0, cksum |-> FirstCksum(0), nCkpt |-> 0]

\* walIndexRecover: the header up to the last commit of a valid prefix.
Recover(f) ==
    IF Len(f.slots) = 0 \/ f.slots[1].kind # "hdr" THEN NoHdr
    ELSE LET start == [NoHdr EXCEPT !.salt = f.slots[1].salt, !.nCkpt = f.slots[1].nCkpt]
             scan[i \in 0..(Len(f.slots) - 1)] ==
                 IF i = 0
                 THEN [ok |-> TRUE, sum |-> FirstCksum(f.slots[1].salt), h |-> start]
                 ELSE LET b == scan[i - 1]
                          r == FrameAt(f, i)
                      IN  IF ~b.ok \/ ~IsValid(f, i, b.sum) THEN [b EXCEPT !.ok = FALSE]
                          ELSE [ok |-> TRUE, sum |-> r.cksum,
                                h |-> IF r.commit
                                      THEN [b.h EXCEPT !.mxFrame = i, !.cksum = r.cksum]
                                      ELSE b.h]
         IN  scan[Len(f.slots) - 1].h

\* The last frame of page p among the frames 1..n.
LastFrame(f, n, p) == Top({i \in 1..n : FrameAt(f, i).pgno = p})

\* The database as a reader sees it who uses the frames 1..n.
ImageAt(d, f, n) ==
    [p \in Page |-> LET i == LastFrame(f, n, p)
                    IN  IF i = 0 THEN d[p] ELSE FrameAt(f, i).val]

Recovered(d, f) == ImageAt(d, f, Recover(f).mxFrame)

SaltsUsed == {hdr.salt} \cup UNION {{f.slots[i].salt : i \in {k \in 1..Len(f.slots) :
                        f.slots[k].kind # "none"}} : f \in walMay}

NoWriter == [at |-> "idle", h |-> NoHdr, todo |-> {}, isCommit |-> FALSE, iFirst |-> 0,
             iReCksum |-> 0, nTimes |-> 0]
NoCkpt == [at |-> "idle", mode |-> "PASSIVE", h |-> NoHdr, mxSafeFrame |-> 0, todo |-> {}]

Init ==
    /\ config \in Configs
    /\ db = [p \in Page |-> [t |-> 1, c |-> 0]] /\ dbMay = {db}
    /\ wal = NoFile /\ walMay = {NoFile}
    /\ hdr = NoHdr /\ nBackfill = 0
    /\ w = NoWriter /\ ckpt = NoCkpt
    /\ hist = <<db>> /\ safe = 1 /\ limbo = {} /\ txn = 1
    /\ nCkpt = 0 /\ nFault = 0

(***************************************************************************)
(* The writer                                                              *)
(***************************************************************************)
\* walRestartHdr: a new log begins at the start of the file.
Restarted(h) ==
    [h EXCEPT !.mxFrame = 0, !.salt = Fresh(SaltsUsed), !.nCkpt = @ + 1]

BeginWrite ==
    /\ w.at = "idle" /\ ckpt.mode = "PASSIVE"
    /\ w' = [NoWriter EXCEPT !.at = "open", !.h = hdr]
    /\ UNCHANGED <<config, diskVars, hdr, nBackfill, ckpt, histVars, boundVars>>

\* The call of sqlite3WalFrames, with walRestartLog, for a spilled page or
\* the last pages of a transaction.  Without a salt the header gets one.
Frames(S, isCommit) ==
    /\ w.at = "open" /\ (isCommit \/ Cardinality(S) = 1)
    /\ w.nTimes = 0 => txn <= MaxTxn
    /\ w.h.mxFrame + Cardinality(S) <= MaxFrame /\ w.nTimes < MaxCall
    /\ \E restart \in {FALSE} \cup {w.h = hdr /\ hdr.mxFrame > 0 /\ nBackfill = hdr.mxFrame} :
          LET h == IF restart THEN Restarted(w.h)
                   ELSE IF w.h.mxFrame = 0 /\ w.h.nCkpt = 0
                   THEN [w.h EXCEPT !.salt = Fresh(SaltsUsed)] ELSE w.h
          IN  /\ w' = [w EXCEPT !.h = h, !.todo = S, !.isCommit = isCommit,
                          !.iFirst = IF w.h # hdr THEN hdr.mxFrame + 1 ELSE 0,
                          !.nTimes = @ + 1,
                          !.at = IF h.mxFrame = 0 THEN "walHdr" ELSE "frames"]
              /\ hdr' = IF restart THEN h ELSE hdr
              /\ nBackfill' = IF restart THEN 0 ELSE nBackfill
    /\ txn' = IF w.nTimes = 0 THEN txn + 1 ELSE txn
    /\ UNCHANGED <<config, diskVars, ckpt, hist, safe, limbo, boundVars>>

WriteWalHdr ==
    /\ w.at = "walHdr"
    /\ LET file == IF wal = NoFile THEN [NoFile EXCEPT !.ino = 1] ELSE wal
       IN  /\ wal' = Put(file, 1, WalHdr(w.h))
           /\ walMay' = MayWrite(walMay \cup {file}, file, 1, {WalHdr(w.h)})
    /\ w' = [w EXCEPT !.h.cksum = FirstCksum(w.h.salt), !.at = "syncHeader"]
    /\ UNCHANGED <<config, db, dbMay, hdr, nBackfill, ckpt, histVars, boundVars>>

\* Mutant: the header is not synced.
HdrNotSynced(M, f) == M

HdrSynced(M, f) == MaySync(M, f, TRUE)

\* The header is on the disk before a frame of the old log is overwritten.
SyncWalHdr ==
    /\ w.at = "syncHeader"
    /\ walMay' = HdrSynced(walMay, wal)
    /\ w' = [w EXCEPT !.at = "frames"]
    /\ UNCHANGED <<config, db, dbMay, wal, hdr, nBackfill, ckpt, histVars, boundVars>>

\* A page the transaction has in the WAL already is overwritten there, the
\* frame with the commit flag excepted; its checksum is wrong from then on.
Overwrites(p) ==
    /\ w.iFirst > 0 /\ LastFrame(wal, w.h.mxFrame, p) >= w.iFirst
    /\ ~(w.isCommit /\ w.todo = {p})

NextPage(S) == CHOOSE p \in S : \A q \in S : p <= q

\* The least of two frame numbers of which the first may be 0, for none.
Earlier(i, k) == IF i = 0 \/ k < i THEN k ELSE i

\* Mutant: a frame behind an overwritten one gets a checksum at once.
EncodedAtOnce(p, val, last, sum) == Frame(p, val, last, w.h.salt, sum)

\* Behind an overwritten frame, salt and checksum are left to
\* walRewriteChecksums.
walEncodeFrame(p, val, last, sum) ==
    IF w.iReCksum = 0 THEN Frame(p, val, last, w.h.salt, sum)
    ELSE Frame(p, val, last, 0, <<>>)

\* A frame of which a part reaches the disk fails its checksum, like the
\* stale frame it was to replace.
WriteSlot(i, r) ==
    /\ wal' = Put(wal, i + 1, r)
    /\ walMay' = MayWrite(walMay, wal, i + 1, {r})

WriteFrame ==
    /\ w.at = "frames" /\ w.todo # {}
    /\ LET p == NextPage(w.todo)
           val == [t |-> txn, c |-> w.nTimes]
           i == IF Overwrites(p) THEN LastFrame(wal, w.h.mxFrame, p) ELSE w.h.mxFrame + 1
           last == w.isCommit /\ w.todo = {p}
           sum == Cksum(w.h.cksum, p, val, last)
           new == walEncodeFrame(p, val, last, sum)
           done == w.todo = {p} /\ ~w.isCommit
           after == [w EXCEPT !.todo = @ \ {p}, !.at = IF done THEN "open" ELSE @]
       IN  IF Overwrites(p)
           THEN /\ WriteSlot(i, [FrameAt(wal, i) EXCEPT !.val = val])
                /\ w' = [after EXCEPT !.iReCksum = Earlier(@, i)]
                /\ UNCHANGED limbo
           ELSE /\ WriteSlot(i, new)
                /\ w' = [after EXCEPT !.h.mxFrame = i,
                             !.h.cksum = IF w.iReCksum = 0 THEN sum ELSE @]
                /\ limbo' = limbo \cup (IF last THEN {<<ImageAt(db, wal', i), Len(hist)>>} ELSE {})
    /\ UNCHANGED <<config, db, dbMay, hdr, nBackfill, ckpt, hist, safe, txn, boundVars>>

\* Mutant: the checksums of overwritten frames stay as they are.
NeverRewritten == FALSE

NeedsRewrite == w.isCommit /\ w.iReCksum > 0 /\ w.iReCksum <= w.h.mxFrame

\* walRewriteChecksums, one frame.
RewriteChecksum ==
    /\ w.at = "frames" /\ w.todo = {} /\ NeedsRewrite
    /\ LET i == w.iReCksum
           r == FrameAt(wal, i)
           before == IF i = 1 THEN FirstCksum(w.h.salt) ELSE FrameAt(wal, i - 1).cksum
           sum == Cksum(before, r.pgno, r.val, r.commit)
       IN  /\ WriteSlot(i, [r EXCEPT !.salt = w.h.salt, !.cksum = sum])
           /\ w' = [w EXCEPT !.iReCksum = i + 1, !.h.cksum = sum]
    /\ UNCHANGED <<config, db, dbMay, hdr, nBackfill, ckpt, histVars, boundVars>>

\* Mutant: a commit does not wait for the disk.
CommitNotSynced(M, f) == M

CommitSynced(M, f) == IF syncsCommit THEN MaySync(M, f, TRUE) ELSE M

SyncCommit ==
    /\ w.at = "frames" /\ w.todo = {} /\ w.isCommit /\ ~NeedsRewrite
    /\ walMay' = CommitSynced(walMay, wal)
    /\ w' = [w EXCEPT !.at = "publish"]
    /\ UNCHANGED <<config, db, dbMay, wal, hdr, nBackfill, ckpt, histVars, boundVars>>

\* walIndexWriteHdr: readers may see the commit.
PublishCommit ==
    /\ w.at = "publish"
    /\ hdr' = w.h
    /\ hist' = Append(hist, ImageAt(db, wal, w.h.mxFrame))
    /\ safe' = IF syncsCommit THEN Len(hist) + 1 ELSE safe
    /\ w' = NoWriter
    /\ UNCHANGED <<config, diskVars, nBackfill, ckpt, limbo, txn, boundVars>>

\* sqlite3WalUndo, or the death of the writer: the frames stay in the file.
Abandon ==
    /\ \/ w.at = "open" /\ UNCHANGED nFault
       \/ w.at \notin {"idle", "open"} /\ nFault < MaxFault /\ nFault' = nFault + 1
    /\ w' = NoWriter
    /\ UNCHANGED <<config, diskVars, hdr, nBackfill, ckpt, histVars, nCkpt>>

(***************************************************************************)
(* The checkpointer                                                        *)
(***************************************************************************)
\* The frames with which a commit ends: a reader's mark is one of them.
CommitFrames(n) == {i \in 1..n : FrameAt(wal, i).commit}

\* walCheckpoint: mxSafeFrame is lowered to the mark of some reader.  The
\* iterator gives the last frame of each page, which may be past it.
BeginCkpt(mode) ==
    /\ ckpt.at = "idle" /\ nCkpt < MaxCkpt
    /\ mode = "TRUNCATE" => w.at = "idle"
    /\ nBackfill < hdr.mxFrame \/ mode = "TRUNCATE"
    /\ \E m \in CommitFrames(hdr.mxFrame) \cup {nBackfill} :
          /\ m >= nBackfill
          /\ LET last(p) == LastFrame(wal, hdr.mxFrame, p)
             IN  ckpt' = [at |-> IF m > nBackfill THEN "syncWal" ELSE "end", mode |-> mode,
                          h |-> hdr, mxSafeFrame |-> m,
                          todo |-> {p \in Page : last(p) > nBackfill /\ last(p) <= m}]
    /\ nCkpt' = nCkpt + 1
    /\ UNCHANGED <<config, diskVars, hdr, nBackfill, w, histVars, nFault>>

\* Mutant: pages are copied from frames that are not on the disk.
WalNotSynced(M, f) == M

WalSynced(M, f) == MaySync(M, f, TRUE)

CkptSyncWal ==
    /\ ckpt.at = "syncWal"
    /\ walMay' = WalSynced(walMay, wal)
    /\ safe' = Len(hist)
    /\ ckpt' = [ckpt EXCEPT !.at = "copy"]
    /\ UNCHANGED <<config, db, dbMay, wal, hdr, nBackfill, w, hist, limbo, txn, boundVars>>

CkptCopy ==
    /\ ckpt.at = "copy" /\ ckpt.todo # {}
    /\ LET p == NextPage(ckpt.todo)
           val == FrameAt(wal, LastFrame(wal, ckpt.h.mxFrame, p)).val
       IN  /\ db' = [db EXCEPT ![p] = val]
           /\ dbMay' = MayWritePage(dbMay, p, val)
           /\ ckpt' = [ckpt EXCEPT !.todo = @ \ {p}]
    /\ UNCHANGED <<config, wal, walMay, hdr, nBackfill, w, histVars, boundVars>>

\* Mutant: the database is never synced.
DbNeverSynced == FALSE

\* The database is synced when the whole log is in it.
SyncsDb == ckpt.mxSafeFrame = hdr.mxFrame

CkptBackfill ==
    /\ ckpt.at = "copy" /\ ckpt.todo = {}
    /\ dbMay' = IF SyncsDb THEN {db} ELSE dbMay
    /\ nBackfill' = ckpt.mxSafeFrame
    /\ ckpt' = [ckpt EXCEPT !.at = "end"]
    /\ UNCHANGED <<config, db, wal, walMay, hdr, w, histVars, boundVars>>

\* A TRUNCATE checkpoint that is complete and finds no reader in the WAL
\* restarts the log and cuts the file, which nothing syncs.
CkptEnd ==
    /\ ckpt.at = "end"
    /\ \/ ckpt' = NoCkpt /\ UNCHANGED hdr /\ UNCHANGED nBackfill
       \/ /\ ckpt.mode = "TRUNCATE" /\ nBackfill = ckpt.h.mxFrame
          /\ hdr' = Restarted(ckpt.h) /\ nBackfill' = 0
          /\ ckpt' = [ckpt EXCEPT !.at = "truncate"]
    /\ UNCHANGED <<config, diskVars, w, histVars, boundVars>>

CkptTruncate ==
    /\ ckpt.at = "truncate"
    /\ wal' = Truncated(walMay, wal)
    /\ walMay' = walMay \cup {wal'}
    /\ ckpt' = NoCkpt
    /\ UNCHANGED <<config, db, dbMay, hdr, nBackfill, w, histVars, boundVars>>

KillCkpt ==
    /\ ckpt.at # "idle" /\ nFault < MaxFault
    /\ ckpt' = NoCkpt
    /\ nFault' = nFault + 1
    /\ UNCHANGED <<config, diskVars, hdr, nBackfill, w, histVars, nCkpt>>

(***************************************************************************)
(* Every process dies, or the power fails: the next connection rebuilds    *)
(* the wal-index from the WAL.                                             *)
(***************************************************************************)
Reopened(d, f) ==
    /\ hdr' = Recover(f) /\ nBackfill' = 0
    /\ w' = NoWriter /\ ckpt' = NoCkpt
    /\ LET img == Recovered(d, f)
       IN  hist' = IF \E k \in 1..Len(hist) : hist[k] = img
                   THEN SubSeq(hist, 1, Top({k \in 1..Len(hist) : hist[k] = img}))
                   ELSE Append(hist, img)
    /\ nFault < MaxFault /\ nFault' = nFault + 1

AllDie ==
    /\ Reopened(db, wal)
    /\ UNCHANGED <<config, diskVars, safe, limbo, txn, nCkpt>>

PowerFail ==
    \E d \in dbMay, f \in walMay :
        /\ Reopened(d, f)
        /\ db' = d /\ dbMay' = {d} /\ wal' = f /\ walMay' = {f}
        /\ safe' = Len(hist') /\ limbo' = {}
        /\ UNCHANGED <<config, txn, nCkpt>>

Next ==
    \/ AllDie \/ PowerFail
    \/ BeginWrite \/ WriteWalHdr \/ SyncWalHdr \/ WriteFrame \/ RewriteChecksum
    \/ SyncCommit \/ PublishCommit \/ Abandon
    \/ \E S \in WriteSets, isCommit \in BOOLEAN : Frames(S, isCommit)
    \/ \E mode \in {"PASSIVE", "TRUNCATE"} : BeginCkpt(mode)
    \/ CkptSyncWal \/ CkptCopy \/ CkptBackfill \/ CkptEnd \/ CkptTruncate
    \/ KillCkpt

Spec == Init /\ [][Next]_vars

(***************************************************************************)
(* Properties                                                              *)
(***************************************************************************)
\* The images of commits that were written but not published, after at
\* least n others.
Limbo(n) == {l[1] : l \in {m \in limbo : m[2] >= n}}

\* Whatever the disk holds when the power fails, recovery finds a commit
\* that is not older than the last one that was synced, or the commit that
\* was being written: never a part of a transaction, and never a page older
\* than the others.
AtomicCommit ==
    \A d \in dbMay, f \in walMay :
        Recovered(d, f) \in {hist[k] : k \in safe..Len(hist)} \cup Limbo(safe)

\* If only processes die, recovery finds the last commit, or the one whose
\* last frame was being written.
KillLosesNothing == Recovered(db, wal) \in {hist[Len(hist)]} \cup Limbo(Len(hist))
=============================================================================
