----------------------------- MODULE S3Snapshot -----------------------------
(***************************************************************************)
(* Upload mode 1 (AWS_S3_RECV == 1) end to end: sqlite3WalCallback uploads *)
(* the whole WAL file when a statement has completed in autocommit mode,   *)
(* and recovery/snapshot_recovery.py puts the uploaded file in the place   *)
(* of the local WAL and checkpoints it.                                    *)
(*                                                                         *)
(* The WAL protocol itself is module Wal; here a commit is one step, and a *)
(* checkpoint copies one page per step.  A page's content is the version   *)
(* that wrote it.  Transactions that spill or roll back are left out, so   *)
(* that frames of one log are only ever appended and the salt stands for   *)
(* the chain of checksums.                                                 *)
(***************************************************************************)
EXTENDS WalFile

CONSTANTS
    Conn,           \* the connections
    MaxPage,        \* bound: pages of the database
    WriteSets,      \* the sets of pages a transaction may write
    MaxTxn,         \* bound: commits
    MaxRead,        \* bound: statements that commit nothing
    MaxCkpt,        \* bound: checkpoints
    UploadFails,    \* may the aws command fail?
    WalLost,        \* may the WAL file be lost in the crash?
    Faults,         \* what may go wrong in the recovery script
    MaxKill         \* bound: recovery scripts killed

\* What the constants have to be.
SnapshotConstants ==
    /\ MaxPage \in Nat \ {0} /\ WriteSets \subseteq (SUBSET (1..MaxPage)) \ {{}}
    /\ MaxTxn \in Nat /\ MaxRead \in Nat /\ MaxCkpt \in Nat /\ MaxKill \in Nat
    /\ UploadFails \in BOOLEAN /\ WalLost \in BOOLEAN
    /\ Faults \subseteq {"ClientError", "OtherError", "CheckpointError"}

Page == 1..MaxPage

VARIABLES
    \* files of the database, and the object in the bucket
    db,             \* page -> version that wrote it
    wal,            \* the WAL file
    backup,         \* the WAL file's .backup
    object,         \* the object wal-file/... in the bucket
    \* wal-index
    mxFrame, nBackfill,
    \* connections
    pc,
    body,           \* what the aws command has read of the WAL file
    todo,           \* pages the running checkpoint has still to copy
    mxSafeFrame,    \* the frames it copies
    nEntry,         \* iCallback: frames in the log at the commit, or 0
    version,        \* the version the statement committed, or 0
    \* recovery script
    rec,            \* its next step, "off" while the database is in use
    result,         \* what apply_wal_checkpoint returned
    \* history
    hist,           \* hist[v]: the image of version v
    acked,          \* the newest version whose sqlite3_step has returned
    failed,         \* has an upload failed?
    overlap,        \* have statements of two connections overlapped?
    nRead, nCkpt, nKill

fileVars == <<db, wal, backup, object>>
shmVars == <<mxFrame, nBackfill>>
ckptVars == <<todo, mxSafeFrame>>
connVars == <<pc, body, ckptVars, nEntry, version>>
recVars == <<rec, result, nKill>>
flagVars == <<failed, overlap>>
vars == <<fileVars, shmVars, connVars, recVars, hist, acked, flagVars, nRead, nCkpt>>

Init ==
    /\ db = [p \in Page |-> 1]
    /\ wal = NoFile /\ backup = NoFile /\ object = NoFile
    /\ mxFrame = 0 /\ nBackfill = 0
    /\ pc = [c \in Conn |-> "idle"]
    /\ body = [c \in Conn |-> [file |-> NoFile, got |-> 0]]
    /\ todo = [c \in Conn |-> {}]
    /\ mxSafeFrame = [c \in Conn |-> 0]
    /\ nEntry = [c \in Conn |-> 0]
    /\ version = [c \in Conn |-> 0]
    /\ rec = "off" /\ result = FALSE
    /\ hist = <<db>> /\ acked = 1
    /\ failed = FALSE /\ overlap = FALSE
    /\ nRead = 0 /\ nCkpt = 0 /\ nKill = 0

Running == rec = "off"
Goto(c, l) == pc' = [pc EXCEPT ![c] = l]

\* A statement begins.
Begins(c) ==
    /\ Running /\ pc[c] = "idle"
    /\ overlap' = (overlap \/ \E d \in Conn \ {c} : pc[d] # "idle")

(***************************************************************************)
(* Statements                                                              *)
(***************************************************************************)
\* sqlite3_step returns.
Return(c) ==
    /\ acked' = IF version[c] > acked THEN version[c] ELSE acked
    /\ version' = [version EXCEPT ![c] = 0]
    /\ nEntry' = [nEntry EXCEPT ![c] = 0]

\* Mutant: the wal hook runs before the upload.
HookFirst(l) ==
    CASE l = "step" -> "hook" [] l = "hook" -> "upload" [] l = "upload" -> "idle"

\* doWalCallbacks: sqlite3PagerWalCallback, which uploads, and then xWalCallback.
NextCallback(l) ==
    CASE l = "step" -> "upload" [] l = "upload" -> "hook" [] l = "hook" -> "idle"

\* From one part of the statement to the next, or back to the caller.
Proceed(c, l) ==
    /\ Goto(c, NextCallback(l))
    /\ IF NextCallback(l) = "idle" THEN Return(c) ELSE UNCHANGED <<nEntry, version, acked>>

\* A transaction commits.  If the log is all in the database and nobody
\* reads from it, the log starts again at frame 1 with a new salt.  A spilled
\* frame, which wal.c:3752 overwrites in place, and the frames of a rolled back
\* transaction, which the next one overwrites under the same salt, are left
\* out: a file in which aws has read the old ones before new ones ends at the
\* first frame whose checksum does not continue the chain.
Commit(c) ==
    /\ Begins(c) /\ Len(hist) <= MaxTxn
    /\ \E S \in WriteSets, restart \in BOOLEAN :
          LET v == Len(hist) + 1
              first == IF restart THEN 0 ELSE mxFrame
              salt == IF restart \/ wal.salt = 0 THEN v ELSE wal.salt
              new == CommitFrames(S, v, salt)
              n == first + Len(new)
          IN  /\ restart => mxFrame > 0 /\ nBackfill = mxFrame
              /\ wal' = Written(wal, salt, first, new)
              /\ mxFrame' = n
              /\ nBackfill' = IF restart THEN 0 ELSE nBackfill
              /\ nEntry' = [nEntry EXCEPT ![c] = n]
              /\ hist' = Append(hist, [p \in Page |-> IF p \in S THEN v ELSE hist[v - 1][p]])
              /\ version' = [version EXCEPT ![c] = v]
    /\ Goto(c, NextCallback("step"))
    /\ UNCHANGED <<db, backup, object, body, ckptVars, recVars, acked, failed, nRead, nCkpt>>

\* A statement that commits nothing completes: the callback runs all the same.
Read(c) ==
    /\ Begins(c) /\ nRead < MaxRead
    /\ nRead' = nRead + 1
    /\ Goto(c, NextCallback("step"))
    /\ UNCHANGED <<fileVars, shmVars, body, ckptVars, nEntry, version, recVars, hist, acked, failed, nCkpt>>

(***************************************************************************)
(* sqlite3WalCallback: the aws command reads the file without any lock, a  *)
(* part of it now and the rest later, and the object is replaced when the  *)
(* request has been served.                                                *)
(***************************************************************************)
UploadStart(c) ==
    /\ Running /\ pc[c] = "upload"
    /\ \E k \in 0..Len(wal.frames) :
          body' = [body EXCEPT ![c] = [file |-> wal, got |-> k]]
    /\ Goto(c, "uploading")
    /\ UNCHANGED <<fileVars, shmVars, ckptVars, nEntry, version, recVars, hist, acked, flagVars, nRead, nCkpt>>

\* The header and the first frames as they were, the rest as it is now.
Body(c) ==
    LET b == body[c]
        n == Len(wal.frames)
    IN  [b.file EXCEPT !.frames =
            [i \in 1..(IF n > b.got THEN n ELSE b.got) |->
                IF i <= b.got THEN b.file.frames[i] ELSE wal.frames[i]]]

UploadRest(c) ==
    /\ Running /\ pc[c] = "uploading"
    /\ body' = [body EXCEPT ![c].file = Body(c)]
    /\ Goto(c, "sent")
    /\ UNCHANGED <<fileVars, shmVars, ckptVars, nEntry, version, recVars, hist, acked, flagVars, nRead, nCkpt>>

\* A failed upload is reported on stderr and otherwise ignored; so is one of
\* a file that is not there.
UploadEnd(c) ==
    /\ Running /\ pc[c] = "sent"
    /\ \/ body[c].file.exists /\ object' = body[c].file /\ UNCHANGED failed
       \/ UploadFails /\ failed' = TRUE /\ UNCHANGED object
       \/ ~body[c].file.exists /\ UNCHANGED <<object, failed>>
    /\ body' = [body EXCEPT ![c] = [file |-> NoFile, got |-> 0]]
    /\ Proceed(c, "upload")
    /\ UNCHANGED <<db, wal, backup, shmVars, ckptVars, recVars, hist, overlap, nRead, nCkpt>>

(***************************************************************************)
(* Checkpoints: sqlite3WalDefaultHook of the connection that committed, or *)
(* a PRAGMA.  At most one runs at a time; it copies the whole log.         *)
(***************************************************************************)
NotCopied == {p \in Page : NewestFrame(wal, mxFrame, p) > nBackfill}

\* The hook, called after a commit; it checkpoints when the log is long enough.
Hook(c) ==
    /\ Running /\ pc[c] = "hook"
    /\ \/ /\ nEntry[c] > 0
          /\ nCkpt < MaxCkpt /\ \A d \in Conn : todo[d] = {}
          /\ nBackfill < mxFrame
          /\ nCkpt' = nCkpt + 1
          /\ todo' = [todo EXCEPT ![c] = NotCopied]
          /\ mxSafeFrame' = [mxSafeFrame EXCEPT ![c] = mxFrame]
          /\ Goto(c, "ckpt")
          /\ UNCHANGED <<nEntry, version, acked>>
       \/ /\ Proceed(c, "hook")
          /\ UNCHANGED <<ckptVars, nCkpt>>
    /\ UNCHANGED <<fileVars, shmVars, body, recVars, hist, flagVars, nRead>>

\* PRAGMA wal_checkpoint, a statement of its own.
Pragma(c) ==
    /\ Begins(c)
    /\ nCkpt < MaxCkpt /\ \A d \in Conn : todo[d] = {}
    /\ nBackfill < mxFrame
    /\ nCkpt' = nCkpt + 1
    /\ todo' = [todo EXCEPT ![c] = NotCopied]
    /\ mxSafeFrame' = [mxSafeFrame EXCEPT ![c] = mxFrame]
    /\ Goto(c, "pragma")
    /\ UNCHANGED <<fileVars, shmVars, body, nEntry, version, recVars, hist, acked, failed, nRead>>

\* One page; after the last one nBackfill is raised and the statement ends.
CkptCopy(c) ==
    /\ Running
    /\ \E p \in todo[c] :
          /\ db' = [db EXCEPT ![p] = wal.frames[NewestFrame(wal, mxSafeFrame[c], p)].val]
          /\ todo' = [todo EXCEPT ![c] = @ \ {p}]
    /\ IF todo'[c] # {}
       THEN UNCHANGED <<nBackfill, mxSafeFrame, pc, nEntry, version, acked>>
       ELSE /\ nBackfill' = mxSafeFrame[c]
            /\ mxSafeFrame' = [mxSafeFrame EXCEPT ![c] = 0]
            /\ IF pc[c] = "pragma"
               THEN Proceed(c, "step")
               ELSE Proceed(c, "hook")
    /\ UNCHANGED <<wal, backup, object, mxFrame, body, recVars, hist, flagVars, nRead, nCkpt>>

\* wal_checkpoint(TRUNCATE), after the copy.
Truncate(c) ==
    /\ Begins(c) /\ nRead < MaxRead
    /\ mxFrame > 0 /\ nBackfill = mxFrame
    /\ \A d \in Conn : todo[d] = {}
    /\ nRead' = nRead + 1
    /\ wal' = EmptyFile
    /\ mxFrame' = 0 /\ nBackfill' = 0
    /\ Goto(c, NextCallback("step"))
    /\ UNCHANGED <<db, backup, object, body, ckptVars, nEntry, version, recVars, hist, acked, failed, nCkpt>>

\* sqlite3WalClose of the last connection: checkpoint, and delete the file.
Close ==
    /\ Running /\ wal.exists /\ nCkpt < MaxCkpt
    /\ \A c \in Conn : pc[c] = "idle"
    /\ nCkpt' = nCkpt + 1
    /\ db' = Applied(db, wal, mxFrame)
    /\ wal' = NoFile /\ mxFrame' = 0 /\ nBackfill' = 0
    /\ UNCHANGED <<backup, object, connVars, recVars, hist, acked, flagVars, nRead>>

(***************************************************************************)
(* Every process dies, perhaps with the WAL file, and snapshot_recovery.py *)
(* is run.                                                                 *)
(***************************************************************************)
Crash ==
    /\ Running
    /\ \/ UNCHANGED wal
       \/ WalLost /\ wal' = NoFile
    /\ mxFrame' = 0 /\ nBackfill' = 0
    /\ pc' = [c \in Conn |-> "dead"]
    /\ body' = [c \in Conn |-> [file |-> NoFile, got |-> 0]]
    /\ todo' = [c \in Conn |-> {}]
    /\ mxSafeFrame' = [c \in Conn |-> 0]
    /\ nEntry' = [c \in Conn |-> 0]
    /\ version' = [c \in Conn |-> 0]
    /\ rec' = "backup"
    /\ UNCHANGED <<db, backup, object, result, nKill, hist, acked, flagVars, nRead, nCkpt>>

recUnchanged == <<shmVars, connVars, hist, acked, flagVars, nRead, nCkpt>>

\* apply_wal_checkpoint: the local WAL file is renamed, over an old backup.
RecBackup ==
    /\ rec = "backup"
    /\ IF wal.exists THEN backup' = wal /\ wal' = NoFile
                     ELSE UNCHANGED <<wal, backup>>
    /\ rec' = "download"
    /\ UNCHANGED <<db, object, result, nKill, recUnchanged>>

\* Return a result; the finally block has removed the backup.
Finish(ok) == rec' = "done" /\ result' = ok /\ backup' = NoFile

\* Mutant: the backup is not restored.
KeepDownloaded == wal

\* The WAL file after a download that failed with a ClientError.
RestoredWal == IF backup.exists THEN backup ELSE wal

\* download_from_s3 catches ClientError only; any other exception reaches
\* the handler of apply_wal_checkpoint that does not restore the backup.
RecDownload ==
    /\ rec = "download"
    /\ \/ /\ object.exists
          /\ wal' = object
          /\ rec' = "checkpoint"
          /\ UNCHANGED <<backup, result>>
       \/ /\ "ClientError" \in Faults \/ ~object.exists
          /\ wal' = RestoredWal
          /\ Finish(FALSE)
       \/ /\ "OtherError" \in Faults
          /\ UNCHANGED wal
          /\ Finish(FALSE)
    /\ UNCHANGED <<db, object, nKill, recUnchanged>>

\* force_checkpoint: the downloaded log is copied and WAL mode left, which
\* deletes the file.  After an sqlite3.Error closing the connection may have
\* the same effect or none.  (A copy that stops half-way need not be told
\* apart: with the log still there the database reads the same.)
RecCheckpoint ==
    /\ rec = "checkpoint"
    /\ \/ /\ db' = Opened(db, wal) /\ wal' = NoFile
          /\ rec' = "cleanup"
          /\ UNCHANGED <<backup, result>>
       \/ /\ "CheckpointError" \in Faults
          /\ \/ db' = Opened(db, wal) /\ wal' = NoFile
             \/ UNCHANGED <<db, wal>>
          /\ Finish(FALSE)
    /\ UNCHANGED <<object, nKill, recUnchanged>>

\* cleanup_wal_files, and the finally block.
RecCleanup ==
    /\ rec = "cleanup"
    /\ wal' = NoFile
    /\ Finish(TRUE)
    /\ UNCHANGED <<db, object, nKill, recUnchanged>>

\* The script is killed and run again.
RecKilled ==
    /\ rec \in {"download", "checkpoint", "cleanup"} /\ nKill < MaxKill
    /\ nKill' = nKill + 1
    /\ rec' = "backup"
    /\ UNCHANGED <<fileVars, result, recUnchanged>>

Recover == RecBackup \/ RecDownload \/ RecCheckpoint \/ RecCleanup

Statement(c) ==
    \/ Commit(c) \/ Read(c) \/ UploadStart(c) \/ UploadRest(c) \/ UploadEnd(c)
    \/ Hook(c) \/ Pragma(c) \/ CkptCopy(c) \/ Truncate(c)

Next == (\E c \in Conn : Statement(c)) \/ Close \/ Crash \/ Recover \/ RecKilled

Spec == Init /\ [][Next]_vars

(***************************************************************************)
(* Properties                                                              *)
(***************************************************************************)
\* If no upload has failed and statements have not overlapped, a recovery
\* that reports success leaves the database as some commit left it, and not
\* before the last commit whose sqlite3_step has returned, whatever has been
\* checkpointed, restarted or truncated since and whether or not the WAL file
\* and the script's first run were lost (README.md: "upload Write-Ahead
\* Logging (WAL) files ... in real-time"; the order of upload and checkpoint
\* in doWalCallbacks).
AckedIsRecovered ==
    rec = "done" /\ result /\ ~failed /\ ~overlap =>
        \E v \in acked..Len(hist) : db = hist[v]

\* A recovery that reports success ("Database is fully operational and
\* intact") leaves no mixture of two commits.
RecoveredIsVersion ==
    rec = "done" /\ result => \E v \in 1..Len(hist) : db = hist[v]

\* The object holds a commit, although the aws command reads the WAL file
\* without a lock while other connections append to it and restart it:
\* applied to the version its log began with, it gives a version.
ObjectIsVersion ==
    object.salt # 0 =>
        \E v \in 1..Len(hist) : Opened(hist[object.salt - 1], object) = hist[v]
=============================================================================
