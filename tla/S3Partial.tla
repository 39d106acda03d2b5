----------------------------- MODULE S3Partial -----------------------------
(***************************************************************************)
(* Upload mode 2 (AWS_S3_RECV == 2) end to end: walWriteToLog copies every *)
(* frame it writes into a buffer that all connections of the process       *)
(* share, sqlite3WalCallback appends the buffer to an object in the        *)
(* bucket, and recovery/incremental_recovery.py puts the object in the     *)
(* place of the local WAL and checkpoints it.                              *)
(*                                                                         *)
(* Offsets are counted in frames.  aws_off is the length of the buffer.  A *)
(* commit and a checkpoint are one step each: module Wal has their detail. *)
(***************************************************************************)
EXTENDS WalFile, SequencesExt

CONSTANTS
    Conn,           \* the connections, threads of one process
    None,           \* "no connection"
    MaxPage,        \* bound: pages of the database
    WriteSets,      \* the sets of pages a transaction may write
    MaxTxn,         \* bound: write transactions
    MaxRead,        \* bound: statements that write nothing
    MaxCkpt,        \* bound: checkpoints
    UploadFails,    \* may the aws command fail?
    Faults          \* what may go wrong in the recovery script

\* What the constants have to be.
PartialConstants ==
    /\ None \notin Conn
    /\ MaxPage \in Nat \ {0} /\ WriteSets \subseteq (SUBSET (1..MaxPage)) \ {{}}
    /\ MaxTxn \in Nat /\ MaxRead \in Nat /\ MaxCkpt \in Nat
    /\ UploadFails \in BOOLEAN
    /\ Faults \subseteq {"DownloadError", "CheckpointError"}

Page == 1..MaxPage

VARIABLES
    \* files of the database, and the object in the bucket
    db, wal, backup,
    object,         \* the object wal-file/wal-part...: frames, no WAL header
    \* wal-index
    mxFrame, nBackfill,
    writer,         \* holder of the WRITER lock, or None
    \* globals of the process
    buf,            \* aws_ptr[0 .. aws_off]
    cur_aws_off,
    \* connections
    pc,
    nFrame,         \* frames its transaction has spilled
    sent,           \* what its aws command was given: length, offset and body
    version,        \* the version its statement committed, or 0
    \* recovery script
    rec, result,
    \* history
    txn,            \* write transactions started
    hist,           \* hist[v]: the image of version v
    acked,          \* the newest version whose sqlite3_step has returned
    stream,         \* every frame that walWriteToLog has written, in order
    failed,         \* has an upload failed?
    overlap,        \* has a thread used the buffer during another's upload?
    nRead, nCkpt

shmVars == <<mxFrame, nBackfill, writer>>
awsVars == <<buf, cur_aws_off>>
recVars == <<rec, result>>
flagVars == <<failed, overlap>>
histVars == <<txn, hist, acked, stream, flagVars>>
vars == <<db, wal, backup, object, shmVars, awsVars, pc, nFrame, sent, version, recVars,
          histVars, nRead, nCkpt>>

Sent(n, off, fs) == [len |-> n, off |-> off, frames |-> fs]
NothingSent == Sent(0, 0, <<>>)

Init ==
    /\ db = [p \in Page |-> 1]
    /\ wal = NoFile /\ backup = NoFile /\ object = NoFile
    /\ mxFrame = 0 /\ nBackfill = 0 /\ writer = None
    /\ buf = <<>> /\ cur_aws_off = 0
    /\ pc = [c \in Conn |-> "idle"]
    /\ nFrame = [c \in Conn |-> 0]
    /\ sent = [c \in Conn |-> NothingSent]
    /\ version = [c \in Conn |-> 0]
    /\ rec = "off" /\ result = FALSE
    /\ txn = 1 /\ hist = <<db>> /\ acked = 1
    /\ stream = <<>> /\ failed = FALSE /\ overlap = FALSE
    /\ nRead = 0 /\ nCkpt = 0

Running == rec = "off"
Goto(c, l) == pc' = [pc EXCEPT ![c] = l]

\* Connection c uses the buffer.
UsesBuffer(c) ==
    overlap' = (overlap \/ \E d \in Conn \ {c} : pc[d] \in {"uploading", "sending"})

(***************************************************************************)
(* Write transactions                                                      *)
(***************************************************************************)
\* walWriteToLog: frames fs go to the file and to the buffer.  The WAL
\* header, written by sqlite3WalFrames itself, does not pass through here.
walWriteToLog(c, salt, first, fs) ==
    /\ UsesBuffer(c)
    /\ wal' = Written(wal, salt, first, fs)
    /\ buf' = buf \o fs
    /\ stream' = stream \o fs

\* The log is used from frame 1 again if it is all in the database; another
\* reader may prevent that.
MayRestart == mxFrame > 0 /\ nBackfill = mxFrame

\* A transaction whose first page is spilled before its commit.
Spill(c) ==
    /\ Running /\ pc[c] = "idle" /\ writer = None /\ txn <= MaxTxn
    /\ txn' = txn + 1 /\ writer' = c
    /\ \E p \in Page, restart \in BOOLEAN :
          LET salt == IF restart \/ wal.salt = 0 THEN txn' ELSE wal.salt
              m == IF restart THEN 0 ELSE mxFrame
          IN  /\ p # 1
              /\ restart => MayRestart
              /\ walWriteToLog(c, salt, m, <<[pgno |-> p, val |-> txn', commit |-> FALSE,
                                              salt |-> salt]>>)
              /\ mxFrame' = m
              /\ nBackfill' = IF restart THEN 0 ELSE nBackfill
    /\ nFrame' = [nFrame EXCEPT ![c] = 1]
    /\ Goto(c, "txn")
    /\ UNCHANGED <<db, backup, object, cur_aws_off, sent, version, recVars, hist, acked,
                   failed, nRead, nCkpt>>

\* The commit, of a transaction that has spilled a page or of a new one.  A
\* page spilled before is overwritten in the file, except the last.
Commit(c) ==
    /\ Running
    /\ \/ pc[c] = "txn" /\ UNCHANGED txn
       \/ pc[c] = "idle" /\ writer = None /\ txn <= MaxTxn /\ txn' = txn + 1
    /\ \E S \in WriteSets, restart \in BOOLEAN :
          LET salt == IF restart \/ wal.salt = 0 THEN txn' ELSE wal.salt
              m == IF restart THEN 0 ELSE mxFrame + nFrame[c]
              own == {wal.frames[i].pgno : i \in (mxFrame + 1)..(mxFrame + nFrame[c])}
              new == {p \in S : p = MaxOf(S) \/ p \notin own}
              last == hist[Len(hist)]
          IN  /\ restart => MayRestart /\ nFrame[c] = 0
              /\ walWriteToLog(c, salt, m, CommitFrames(new, txn', salt))
              /\ mxFrame' = m + Cardinality(new)
              /\ nBackfill' = IF restart THEN 0 ELSE nBackfill
              /\ hist' = Append(hist,
                            [p \in Page |-> IF p \in S \cup own THEN txn' ELSE last[p]])
    /\ version' = [version EXCEPT ![c] = Len(hist')]
    /\ writer' = None
    /\ nFrame' = [nFrame EXCEPT ![c] = 0]
    /\ Goto(c, "upload")
    /\ UNCHANGED <<db, backup, object, cur_aws_off, sent, recVars, acked, failed,
                   nRead, nCkpt>>

\* The rollback: the spilled frames stay in the file and in the buffer.
Rollback(c) ==
    /\ Running /\ pc[c] = "txn"
    /\ writer' = None
    /\ nFrame' = [nFrame EXCEPT ![c] = 0]
    /\ Goto(c, "upload")
    /\ UNCHANGED <<db, wal, backup, object, mxFrame, nBackfill, awsVars, sent, version,
                   recVars, histVars, nRead, nCkpt>>

Read(c) ==
    /\ Running /\ pc[c] = "idle" /\ nRead < MaxRead
    /\ nRead' = nRead + 1
    /\ Goto(c, "upload")
    /\ UNCHANGED <<db, wal, backup, object, shmVars, awsVars, nFrame, sent, version,
                   recVars, histVars, nCkpt>>

\* A checkpoint, of the wal hook or of a statement.
Checkpoint(c) ==
    /\ Running /\ pc[c] = "idle" /\ nCkpt < MaxCkpt
    /\ nBackfill < mxFrame
    /\ nCkpt' = nCkpt + 1
    /\ db' = Applied(db, wal, mxFrame)
    /\ nBackfill' = mxFrame
    /\ UNCHANGED <<wal, backup, object, mxFrame, writer, awsVars, pc, nFrame, sent, version,
                   recVars, histVars, nRead>>

(***************************************************************************)
(* sqlite3WalCallback                                                      *)
(***************************************************************************)
\* The file is cut to aws_off and the command started.
UploadStart(c) ==
    /\ Running /\ pc[c] = "upload"
    /\ UsesBuffer(c)
    /\ sent' = [sent EXCEPT ![c] = Sent(Len(buf), cur_aws_off, <<>>)]
    /\ Goto(c, "uploading")
    /\ UNCHANGED <<db, wal, backup, object, shmVars, awsVars, nFrame, version, recVars,
                   txn, hist, acked, stream, failed, nRead, nCkpt>>

\* A place of the buffer that memset has cleared.
Blank == [pgno |-> 0, val |-> 0, commit |-> FALSE, salt |-> 0]

\* The command reads the file: as many frames as it was told, from where the
\* other threads put theirs and clear them.
UploadRead(c) ==
    /\ Running /\ pc[c] = "uploading"
    /\ sent' = [sent EXCEPT ![c] =
                   Sent(@.len, @.off, [i \in 1..@.len |-> IF i <= Len(buf) THEN buf[i] ELSE Blank])]
    /\ Goto(c, "sending")
    /\ UNCHANGED <<db, wal, backup, object, shmVars, awsVars, nFrame, version, recVars,
                   histVars, nRead, nCkpt>>

\* Mutant: the offset in the object is not advanced.
SameOffset == cur_aws_off

\* cur_aws_off += aws_off
NextOffset == cur_aws_off + Len(buf)

\* Mutant: the buffer is not reset.
BufKept == buf

\* aws_off = 0 and the memset of the buffer.
BufReset == <<>>

\* put-object --write-offset-bytes: the bucket appends, and refuses an offset
\* that is not the size of the object.
Accepted(c) == sent[c].off = Len(object.frames)

\* The command has ended, well or not; the buffer is reset whatever it holds.
UploadEnd(c) ==
    /\ Running /\ pc[c] = "sending"
    /\ \/ /\ Accepted(c)
          /\ object' = File(0, object.frames \o sent[c].frames)
          /\ UNCHANGED failed
       \/ /\ ~Accepted(c)
          /\ UNCHANGED <<object, failed>>
       \/ /\ UploadFails
          /\ failed' = TRUE
          /\ UNCHANGED object
    /\ cur_aws_off' = NextOffset
    /\ buf' = BufReset
    /\ sent' = [sent EXCEPT ![c] = NothingSent]
    /\ acked' = IF version[c] > acked THEN version[c] ELSE acked
    /\ version' = [version EXCEPT ![c] = 0]
    /\ Goto(c, "idle")
    /\ UNCHANGED <<db, wal, backup, shmVars, nFrame, recVars, txn, hist, stream, overlap,
                   nRead, nCkpt>>

(***************************************************************************)
(* The process dies, the WAL file with it or not, and                      *)
(* incremental_recovery.py is run.                                         *)
(***************************************************************************)
Crash ==
    /\ Running
    /\ wal' \in {wal, NoFile}
    /\ mxFrame' = 0 /\ nBackfill' = 0 /\ writer' = None
    /\ buf' = <<>> /\ cur_aws_off' = 0
    /\ pc' = [c \in Conn |-> "dead"]
    /\ nFrame' = [c \in Conn |-> 0]
    /\ sent' = [c \in Conn |-> NothingSent]
    /\ version' = [c \in Conn |-> 0]
    /\ rec' = "backup"
    /\ UNCHANGED <<db, backup, object, result, histVars, nRead, nCkpt>>

recUnchanged == <<object, shmVars, awsVars, pc, nFrame, sent, version, histVars,
                  nRead, nCkpt>>

\* apply_wal_checkpoint.
RecBackup ==
    /\ rec = "backup"
    /\ IF wal.exists THEN backup' = wal /\ wal' = NoFile
                     ELSE UNCHANGED <<wal, backup>>
    /\ rec' = "download"
    /\ UNCHANGED <<db, result, recUnchanged>>

\* The outer finally block: the backup is put back, and the WAL file removed.
Finish(ok) ==
    /\ backup' = NoFile
    /\ wal' = NoFile
    /\ rec' = "done" /\ result' = ok

RecDownload ==
    /\ rec = "download"
    /\ \/ /\ object.exists
          /\ wal' = object
          /\ rec' = "checkpoint"
          /\ UNCHANGED <<backup, result>>
       \/ /\ "DownloadError" \in Faults \/ ~object.exists
          /\ Finish(FALSE)
    /\ UNCHANGED <<db, recUnchanged>>

\* The checkpoint, journal_mode=DELETE, the test of the database, and the
\* inner finally block that removes the WAL file.
RecCheckpoint ==
    /\ rec = "checkpoint"
    /\ \/ db' = Opened(db, wal) /\ Finish(TRUE)
       \/ /\ "CheckpointError" \in Faults
          /\ db' \in {db, Opened(db, wal)}
          /\ Finish(FALSE)
    /\ UNCHANGED recUnchanged

Statement(c) ==
    \/ Spill(c) \/ Commit(c) \/ Rollback(c) \/ Read(c) \/ Checkpoint(c)
    \/ UploadStart(c) \/ UploadRead(c) \/ UploadEnd(c)

Next ==
    \/ \E c \in Conn : Statement(c)
    \/ Crash \/ RecBackup \/ RecDownload \/ RecCheckpoint

Spec == Init /\ [][Next]_vars

(***************************************************************************)
(* Properties                                                              *)
(***************************************************************************)
\* If no upload has failed and no thread has used the buffer during another's
\* upload, the object holds between statements every frame that was written to
\* the log, once and in order, those of rolled back transactions and of logs
\* since restarted included (README.md: "WAL file partial upload").
StreamIsUploaded ==
    Running /\ ~failed /\ ~overlap /\ (\A c \in Conn : pc[c] = "idle") =>
        object.frames = stream

\* Whatever uploads fail, the object holds the first frames that were written
\* to the log and no others, as long as no thread has used the buffer during
\* another's upload: an append after a lost one is refused, so that no hole is
\* left in the middle (README.md: "WAL file partial upload").
ObjectIsPrefix == ~overlap => IsPrefix(object.frames, stream)

\* A recovery that reports success has brought back every commit whose
\* sqlite3_step has returned ("downloads wal files/sql logs from s3 bucket and
\* performs checkpoint", README.md).
AckedIsRecovered ==
    rec = "done" /\ result => \E v \in acked..Len(hist) : db = hist[v]
=============================================================================
