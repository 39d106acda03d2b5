--------------------------------- MODULE S3 ---------------------------------
(***************************************************************************)
(* The library with its upload to the bucket.  The macro AWS_S3_RECV, set  *)
(* when the library is built, selects what sqlite3WalCallback uploads; a   *)
(* build is one of S3Snapshot, S3Partial and S3Sql.                        *)
(***************************************************************************)
EXTENDS Naturals

CONSTANTS
    Conn, None, MaxPage, WriteSets, UploadFails, MaxCkpt,
    MaxTxn, MaxRead,    \* bounds in modes 1 and 2
    ScriptFaults,       \* what may go wrong in the scripts of modes 1 and 2
    WalLost, MaxKill,
    Stmts, Error, MaxStmt, MaxSpoilt, Transactions, Rollbacks, StepFails

VARIABLES
    AWS_S3_RECV,
    db, object, pc, rec, result, overlap,                   \* in every mode
    wal, backup, mxFrame, nBackfill, version, hist,         \* modes 1 and 2
    acked, failed, nRead, nCkpt,
    body, todo, mxSafeFrame, nEntry, nKill,                 \* mode 1
    buf, cur_aws_off, writer, sent,                         \* modes 2 and 3
    nFrame, txn, stream,                                    \* mode 2
    pending, autoCommit, stmt, left, aws_off, size, next,   \* mode 3
    copy, states, ran, logged, spoilt, torn, nStmt

commonVars == <<db, object, pc, rec, result, overlap>>
walVars == <<wal, backup, mxFrame, nBackfill, version, hist, acked, failed, nRead, nCkpt>>
uploadVars == <<body, todo, mxSafeFrame, nEntry, nKill>>
bufferVars == <<buf, cur_aws_off, writer, sent>>
frameVars == <<nFrame, txn, stream>>
sqlVars == <<pending, autoCommit, stmt, left, aws_off, size, next, copy, states, ran, logged, spoilt, torn,
             nStmt>>
vars == <<AWS_S3_RECV, commonVars, walVars, uploadVars, bufferVars, frameVars, sqlVars>>

Snapshot == INSTANCE S3Snapshot
            WITH MaxTxn <- MaxTxn[1], MaxRead <- MaxRead[1], Faults <- ScriptFaults[1]
Partial == INSTANCE S3Partial
           WITH MaxTxn <- MaxTxn[2], MaxRead <- MaxRead[2], Faults <- ScriptFaults[2]
Sql == INSTANCE S3Sql

ASSUME S3Assumption ==
    Snapshot!SnapshotConstants /\ Partial!PartialConstants /\ Sql!SqlConstants

\* The variables that a mode does not have.
NoWal ==
    /\ wal = None /\ backup = None /\ mxFrame = None /\ nBackfill = None /\ version = None
    /\ hist = None /\ acked = None /\ failed = None /\ nRead = None /\ nCkpt = None
NoUpload == body = None /\ todo = None /\ mxSafeFrame = None /\ nEntry = None /\ nKill = None
NoBuffer == buf = None /\ cur_aws_off = None /\ writer = None /\ sent = None
NoFrames == nFrame = None /\ txn = None /\ stream = None
NoSql ==
    /\ pending = None /\ autoCommit = None /\ stmt = None /\ left = None /\ aws_off = None
    /\ size = None /\ next = None /\ copy = None /\ states = None /\ ran = None /\ logged = None
    /\ spoilt = None /\ torn = None /\ nStmt = None

Init ==
    \/ AWS_S3_RECV = 1 /\ Snapshot!Init /\ NoBuffer /\ NoFrames /\ NoSql
    \/ AWS_S3_RECV = 2 /\ Partial!Init /\ NoUpload /\ NoSql
    \/ AWS_S3_RECV = 3 /\ Sql!Init /\ NoWal /\ NoUpload /\ NoFrames

Next ==
    /\ UNCHANGED AWS_S3_RECV
    /\ \/ AWS_S3_RECV = 1 /\ Snapshot!Next /\ UNCHANGED <<bufferVars, frameVars, sqlVars>>
       \/ AWS_S3_RECV = 2 /\ Partial!Next /\ UNCHANGED <<uploadVars, sqlVars>>
       \/ AWS_S3_RECV = 3 /\ Sql!Next /\ UNCHANGED <<walVars, uploadVars, frameVars>>

Spec == Init /\ [][Next]_vars

(***************************************************************************)
(* Properties                                                              *)
(***************************************************************************)
\* Mode 1: unless an upload failed or statements overlapped, a recovery that
\* reports success brings back the last commit whose sqlite3_step has
\* returned, whatever was checkpointed, restarted or truncated since and
\* whether or not the WAL file and a first run of the script were lost (the
\* order of upload and checkpoint in doWalCallbacks).
AckedIsRecovered == AWS_S3_RECV = 1 => Snapshot!AckedIsRecovered

\* Mode 1: the object holds a commit, although the aws command reads the WAL
\* file without a lock while it is appended to and restarted.
ObjectIsVersion == AWS_S3_RECV = 1 => Snapshot!ObjectIsVersion

\* Mode 2: unless an upload failed or two threads used the buffer at once, the
\* object holds between statements every frame that walWriteToLog wrote, once
\* and in order.
StreamIsUploaded == AWS_S3_RECV = 2 => Partial!StreamIsUploaded

\* Modes 2 and 3: unless two threads used the buffer at once, the object is a
\* prefix of what went into the buffer, whatever uploads fail; cur_aws_off and
\* the bucket's test of the offset never let a hole appear in it.
ObjectIsPrefix ==
    /\ AWS_S3_RECV = 2 => Partial!ObjectIsPrefix
    /\ AWS_S3_RECV = 3 => Sql!ObjectIsPrefix

\* Mode 3: unless a statement was spoilt or two threads used the buffer at
\* once, a replay repeats what the connections of the process ran, up to some
\* statement and in order, and gives a commit if no transaction was open at
\* the last append, whatever uploads failed and however often the script was
\* killed (execute_recovery).
FaithfulReplay == AWS_S3_RECV = 3 => Sql!FaithfulReplay
=============================================================================
