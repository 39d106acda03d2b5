------------------------------- MODULE WalInv -------------------------------
(***************************************************************************)
(* The inductive invariant of Wal: which locks a connection holds at each  *)
(* of its steps, and what the locks protect.                               *)
(***************************************************************************)
EXTENDS Wal

\* Inside walIndexRecover.
RecPCs == {"recScan", "recHdr", "recBackfill", "recAttempted", "recMarks", "recSet"}

\* Inside walTryBeginRead, with a header.
TryPCs == {"backfill", "lock0", "check0", "scan", "raise", "raiseSet", "lockI", "minFrame",
           "checkI"}

\* Inside walRestartHdr.
RestartPCs == {"restart1", "restart0", "restartBackfill", "restartAttempted", "restartMarks"}

\* Between sqlite3WalBeginWriteTransaction and its end, outside the above.
WritePCs == {"writeCheck", "write", "frames", "publish1", "publish0", "endWrite", "restarted"}

\* Inside sqlite3WalCheckpoint, outside the above.
CkptPCs == {"ckptWriter", "ckptInfo", "ckptMarks", "ckptMarkLock", "ckptMarkSet", "ckptCopy",
            "ckptDone", "ckptUnlock0", "ckptMode", "truncate", "ckptUnlock", "ckptEnd"}

\* The steps that run with the WRITER lock.
WriterPCs == WritePCs \cup RestartPCs \cup RecPCs \cup {"hdrLocked", "truncate"}

\* The steps that run with every READ lock above 0.
AllMarksPCs == RestartPCs \cup {"restarted", "truncate", "ckptUnlock"}

\* The steps that run with the READ lock of the mark they look at.
OneMarkPCs == {"recSet", "raiseSet", "ckptMarkSet"}

(***************************************************************************)
(* Control: what can be in progress at each step.                          *)
(***************************************************************************)
\* A step of a checkpoint runs inside a checkpoint, one of a transaction
\* does not.
CkptControl(c) ==
    /\ pc[c] \in CkptPCs => eMode[c] # "NONE"
    /\ pc[c] \in TryPCs \cup WritePCs \cup {"idle", "read"} => eMode[c] = "NONE"

\* Loop counters and slots.
MarkControl(c) ==
    /\ pc[c] \in OneMarkPCs \cup {"scan", "raise", "ckptMarkLock"} => iMark[c] \in ReadMarks
    /\ pc[c] \in {"recMarks", "ckptMarks"} => iMark[c] \in 1..WAL_NREADER
    /\ pc[c] \in {"lockI", "minFrame", "checkI"} => mxI[c] \in ReadMarks

\* The iterator of a checkpoint is in use during the copy only.
TodoControl(c) == pc[c] # "ckptCopy" => todo[c] = {}

Control == \A c \in Conn : CkptControl(c) /\ MarkControl(c) /\ TodoControl(c)

(***************************************************************************)
(* Locks                                                                   *)
(***************************************************************************)
\* A lock is exclusive or shared.
LockExcludes == \A l \in Locks : lockX[l] # None => lockS[l] = {}

WriterLock(c) ==
    /\ pc[c] \in WriterPCs => lockX[WAL_WRITE_LOCK] = c
    /\ bWriteLock(c) /\ pc[c] # "ckptWriter" => lockX[WAL_WRITE_LOCK] = c
    /\ pc[c] \in {"idle", "hdr", "backfill", "lock0", "check0", "read"} /\ eMode[c] = "NONE" =>
          lockX[WAL_WRITE_LOCK] # c

CkptLock(c) ==
    /\ pc[c] \in RecPCs \/ eMode[c] # "NONE" => lockX[WAL_CKPT_LOCK] = c
    /\ pc[c] \in RecPCs => lockX[WAL_RECOVER_LOCK] = c

MarkLocks(c) ==
    /\ pc[c] \in OneMarkPCs => lockX[WAL_READ_LOCK(iMark[c])] = c
    /\ pc[c] \in AllMarksPCs => \A i \in ReadMarks : lockX[WAL_READ_LOCK(i)] = c
    /\ pc[c] \in {"ckptCopy", "ckptDone", "ckptUnlock0"} => lockX[WAL_READ_LOCK(0)] = c

\* Whoever changes the log or its header holds the WRITER lock, whoever
\* recovers or checkpoints the CKPT lock, and whoever stores a read mark its
\* READ lock; no lock is both exclusive and shared (the comments on the locks
\* at the top of wal.c and on struct WalCkptInfo).
LockDiscipline ==
    /\ LockExcludes
    /\ \A c \in Conn : WriterLock(c) /\ CkptLock(c) /\ MarkLocks(c)

(***************************************************************************)
(* What the locks protect                                                  *)
(***************************************************************************)
\* In a write transaction, walTryBeginRead of walRestartLog included.
InWrite(c) ==
    \/ pc[c] \in WritePCs
    \/ pc[c] \in RestartPCs /\ eMode[c] = "NONE"
    \/ pc[c] \in TryPCs /\ lockX[WAL_WRITE_LOCK] = c

\* A transaction has a version, and a write transaction a number.
TxnInv(c) ==
    /\ snap[c] <= Len(hist)
    /\ InWrite(c) \/ pc[c] = "read" => snap[c] >= 1
    /\ InWrite(c) /\ pc[c] # "writeCheck" => txn >= 2
    /\ pc[c] = "writeCheck" => txn <= MaxTxn

\* The header of a connection that may write is its own to change.
OwnHdr(c) == (InWrite(c) /\ pc[c] # "writeCheck") \/ pc[c] \in RecPCs \ {"recScan"}

\* No header in shared memory, and none that a writer works on, names a frame
\* beyond the end of the WAL file, which a TRUNCATE checkpoint cuts off under
\* the other connections (mxFrame of struct WalIndexHdr, walRestartHdr before
\* sqlite3OsTruncate in walCheckpoint).
LogCoversHdr ==
    /\ \A k \in 0..1 : aHdr[k].mxFrame <= Len(log)
    /\ \A c \in Conn : OwnHdr(c) => hdr[c].mxFrame <= Len(log)

\* From the restart to the truncation the headers name no frame at all.
RestartInv(c) ==
    /\ pc[c] = "restart0" => hdr[c].mxFrame = 0 /\ aHdr[1].mxFrame = 0
    /\ pc[c] \in {"restartBackfill", "restartAttempted", "restartMarks", "truncate"} =>
          \A k \in 0..1 : aHdr[k].mxFrame = 0

\* What a checkpoint copies is in the log, and goes beyond what is copied.
CopyInv(c) ==
    /\ todo[c] \subseteq 1..Len(log)
    /\ pc[c] \in {"ckptCopy", "ckptDone"} => nBackfill < mxSafeFrame[c]

DataInv == \A c \in Conn : TxnInv(c) /\ RestartInv(c) /\ CopyInv(c)

IInv == TypeOK /\ Control /\ LockDiscipline /\ DataInv /\ LogCoversHdr
=============================================================================
