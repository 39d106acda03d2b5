------------------------------- MODULE S3Sql -------------------------------
(***************************************************************************)
(* Upload mode 3 (AWS_S3_RECV == 3) end to end: sqlite3_step appends the   *)
(* text of a statement to a buffer before it runs it, sqlite3WalCallback   *)
(* appends the buffer to an object in the bucket, and                      *)
(* recovery/ssl-s3_recovery.py executes the object's text on a copy of the *)
(* database from before the log.  The connections are threads of one       *)
(* process, open from the start, and share the buffer and its offsets.     *)
(*                                                                         *)
(* The database is the sequence of the effects of the statements that      *)
(* changed it.  A statement is a record:                                   *)
(*   eff    what it does to the database;                                  *)
(*   replay what its text does after to_upper and parse_sql_log (another   *)
(*          effect if they change a literal), or Error;                    *)
(*   logged does check_sql find one of its four verbs in it?               *)
(*   steps  calls of sqlite3_step it takes (one for each row it returns);  *)
(*   len    the length of its text with the semicolon.                     *)
(***************************************************************************)
EXTENDS Integers, Sequences, SequencesExt

CONSTANTS
    Conn,           \* the connections, threads of one process
    None,           \* "no connection", "no statement"
    Stmts,          \* the statements the application uses
    Error,          \* "not a statement that can be executed"
    MaxStmt,        \* bound: statements
    MaxSpoilt,      \* the same when one of them is not Faithful or fails
    Transactions,   \* may the application use BEGIN and COMMIT?
    Rollbacks,      \* may it use ROLLBACK?
    StepFails,      \* may a statement fail other than with SQLITE_BUSY?
    UploadFails     \* may the aws command fail?

\* What the constants have to be.
SqlConstants ==
    /\ None \notin Conn
    /\ \A s \in Stmts : s.logged \in BOOLEAN /\ s.len \in Nat \ {0} /\ s.steps \in Nat \ {0}
    /\ MaxStmt \in Nat /\ MaxSpoilt \in Nat
    /\ {Transactions, Rollbacks, StepFails, UploadFails} \subseteq BOOLEAN

VARIABLES
    db,             \* committed effects
    pending,        \* effects of the open write transaction
    writer,         \* the connection whose it is (the WRITER lock), or None
    \* connections
    pc,             \* "run": the text is logged, the statement has not ended
    autoCommit,
    stmt,           \* the statement that it runs, or None
    left,           \* calls of sqlite3_step that it still takes
    sent,           \* what its aws command was given: statements, bytes, offset
    \* globals of the process
    buf,            \* statements in aws_ptr[0 .. aws_off]
    aws_off, cur_aws_off,
    \* the bucket
    object,         \* statements in the object sql-file/...
    size,           \* its size in bytes
    \* recovery script
    rec,            \* its next step, "off" while the database is in use
    next,           \* the statement it executes next
    copy,           \* the database it works on: effects since the log began
    result,
    \* history
    states,         \* lengths of db after each commit
    ran,            \* the effect of every statement that ran, in order
    logged,         \* every statement ever put into the buffer, in order
    spoilt,         \* has anything run whose text does not repeat its effect?
    overlap,        \* was the buffer used amid another's statement or upload?
    torn,           \* was a transaction open when the object last grew?
    nStmt

stmtVars == <<pc, autoCommit, stmt, left, sent>>
awsVars == <<buf, aws_off, cur_aws_off, object, size>>
recVars == <<rec, next, copy, result>>
vars == <<db, pending, writer, stmtVars, awsVars, recVars, states, ran, logged, spoilt, overlap,
          torn, nStmt>>

Sent(text, bytes, off) == [text |-> text, bytes |-> bytes, off |-> off]
NothingSent == Sent(<<>>, 0, 0)

Init ==
    /\ db = <<>> /\ pending = <<>> /\ writer = None
    /\ pc = [c \in Conn |-> "idle"]
    /\ autoCommit = [c \in Conn |-> TRUE]
    /\ stmt = [c \in Conn |-> None] /\ left = [c \in Conn |-> 0]
    /\ sent = [c \in Conn |-> NothingSent]
    /\ buf = <<>> /\ aws_off = 0 /\ cur_aws_off = 0 /\ object = <<>> /\ size = 0
    /\ rec = "off" /\ next = 1 /\ copy = <<>> /\ result = FALSE
    /\ states = {0} /\ ran = <<>> /\ logged = <<>>
    /\ spoilt = FALSE /\ overlap = FALSE /\ torn = FALSE /\ nStmt = 0

Running == rec = "off"
Goto(c, l) == pc' = [pc EXCEPT ![c] = l]

\* Connection c uses the buffer.
UsesBuffer(c) ==
    overlap' = (overlap \/ \E d \in Conn \ {c} : pc[d] \in {"run", "uploading", "sending"})

(***************************************************************************)
(* sqlite3_step                                                            *)
(***************************************************************************)
\* A place of the buffer that holds no whole statement.
Blank == [eff |-> None, replay |-> Error, logged |-> FALSE, steps |-> 1, len |-> 0]

\* The two memcpys and the updates of aws_off, alone.
TextAppended(s) == buf' = Append(buf, s) /\ aws_off' = aws_off + s.len

\* The same while another thread is in these lines: one text is over the
\* other, and aws_off has advanced by both lengths or by the last one only.
TextRaced(c, s) ==
    /\ buf # <<>> /\ \E d \in Conn \ {c} : pc[d] = "run"
    /\ \/ buf' = Front(buf) \o <<s, Blank>> /\ aws_off' = aws_off + s.len
       \/ buf' = Append(Front(buf), s) /\ aws_off' = (aws_off - Last(buf).len) + s.len

\* The text of statement s goes into the buffer, before the mutex is taken.
LogText(c, s) ==
    IF s.logged
    THEN /\ UsesBuffer(c)
         /\ TextAppended(s) \/ TextRaced(c, s)
         /\ logged' = Append(logged, s)
    ELSE UNCHANGED <<buf, aws_off, logged, overlap>>

\* Does the log repeat what the statement does?
Faithful(s) == s.logged /\ s.steps = 1 /\ s.replay = s.eff

\* The first call of sqlite3_step for a statement.
Call(c, s) ==
    /\ Running /\ pc[c] = "idle"
    /\ nStmt < (IF spoilt \/ ~Faithful(s) THEN MaxSpoilt ELSE MaxStmt)
    /\ nStmt' = nStmt + 1
    /\ LogText(c, s)
    /\ stmt' = [stmt EXCEPT ![c] = s] /\ left' = [left EXCEPT ![c] = s.steps]
    /\ Goto(c, "run")
    /\ spoilt' = (spoilt \/ ~Faithful(s))
    /\ UNCHANGED <<db, pending, writer, autoCommit, sent, cur_aws_off, object, size, recVars, states,
                   ran, torn>>

MayWrite(c) == writer \in {None, c}

\* SQLITE_ROW, and the call for the next row.
CallAgain(c) ==
    /\ Running /\ pc[c] = "run" /\ left[c] > 1 /\ MayWrite(c)
    /\ LogText(c, stmt[c])
    /\ left' = [left EXCEPT ![c] = @ - 1]
    /\ writer' = c
    /\ UNCHANGED <<db, pending, pc, autoCommit, stmt, sent, cur_aws_off, object, size, recVars, states,
                   ran, spoilt, torn, nStmt>>

\* SQLITE_DONE.  In autocommit mode the statement commits, and doWalCallbacks
\* follows before the call returns.
StepDone(c) ==
    /\ Running /\ pc[c] = "run" /\ left[c] = 1 /\ MayWrite(c)
    /\ ran' = Append(ran, stmt[c].eff)
    /\ IF autoCommit[c]
       THEN /\ db' = Append(db, stmt[c].eff)
            /\ states' = states \cup {Len(db')}
            /\ writer' = None
            /\ Goto(c, "callback")
            /\ UNCHANGED pending
       ELSE /\ pending' = Append(pending, stmt[c].eff)
            /\ writer' = c
            /\ Goto(c, "idle")
            /\ UNCHANGED <<db, states>>
    /\ stmt' = [stmt EXCEPT ![c] = None] /\ left' = [left EXCEPT ![c] = 0]
    /\ UNCHANGED <<autoCommit, sent, awsVars, recVars, logged, spoilt, overlap, torn, nStmt>>

\* The statement fails after its text was logged, without effect: with
\* SQLITE_BUSY if another connection has a write transaction.
StepFailed(c) ==
    /\ Running /\ pc[c] = "run"
    /\ StepFails \/ ~MayWrite(c)
    /\ writer' = IF writer = c /\ autoCommit[c] THEN None ELSE writer
    /\ spoilt' = (spoilt \/ stmt[c].logged)
    /\ Goto(c, "idle")
    /\ stmt' = [stmt EXCEPT ![c] = None] /\ left' = [left EXCEPT ![c] = 0]
    /\ UNCHANGED <<db, pending, autoCommit, sent, awsVars, recVars, states, ran, logged, overlap, torn,
                   nStmt>>

\* BEGIN, COMMIT and ROLLBACK contain none of the four verbs.
Begin(c) ==
    /\ Transactions
    /\ Running /\ pc[c] = "idle" /\ autoCommit[c]
    /\ autoCommit' = [autoCommit EXCEPT ![c] = FALSE]
    /\ UNCHANGED <<db, pending, writer, pc, stmt, left, sent, awsVars, recVars, states, ran, logged,
                   spoilt, overlap, torn, nStmt>>

\* The write transaction of connection c ends, if it has one.
EndTransaction(c) ==
    /\ Running /\ pc[c] = "idle" /\ ~autoCommit[c]
    /\ autoCommit' = [autoCommit EXCEPT ![c] = TRUE]
    /\ Goto(c, "callback")
    /\ IF writer = c THEN writer' = None /\ pending' = <<>>
                     ELSE UNCHANGED <<writer, pending>>

Commit(c) ==
    /\ EndTransaction(c)
    /\ IF writer = c
       THEN db' = db \o pending /\ states' = states \cup {Len(db')}
       ELSE UNCHANGED <<db, states>>
    /\ UNCHANGED <<stmt, left, sent, awsVars, recVars, ran, logged, spoilt, overlap, torn, nStmt>>

Rollback(c) ==
    /\ Rollbacks
    /\ EndTransaction(c)
    /\ spoilt' = (spoilt \/ writer = c)
    /\ UNCHANGED <<db, stmt, left, sent, awsVars, recVars, states, ran, logged, overlap, torn, nStmt>>

\* A query in autocommit mode is followed by doWalCallbacks too, whatever
\* transactions the other connections have open.
Query(c) ==
    /\ Running /\ pc[c] = "idle" /\ autoCommit[c]
    /\ Goto(c, "callback")
    /\ UNCHANGED <<db, pending, writer, autoCommit, stmt, left, sent, awsVars, recVars, states, ran,
                   logged, spoilt, overlap, torn, nStmt>>

(***************************************************************************)
(* sqlite3WalCallback                                                      *)
(***************************************************************************)
MustUpload == aws_off # cur_aws_off /\ aws_off # 0

UploadSkipped(c) ==
    /\ Running /\ pc[c] = "callback" /\ ~MustUpload
    /\ Goto(c, "idle")
    /\ UNCHANGED <<db, pending, writer, autoCommit, stmt, left, sent, awsVars, recVars, states, ran,
                   logged, spoilt, overlap, torn, nStmt>>

\* The file is cut to aws_off and the command started, with whatever any
\* connection has put into the buffer.
UploadStart(c) ==
    /\ Running /\ pc[c] = "callback" /\ MustUpload
    /\ UsesBuffer(c)
    /\ sent' = [sent EXCEPT ![c] = Sent(buf, aws_off, cur_aws_off)]
    /\ Goto(c, "uploading")
    /\ UNCHANGED <<db, pending, writer, autoCommit, stmt, left, awsVars, recVars, states, ran, logged,
                   spoilt, torn, nStmt>>

\* The command reads the file: as much as it was told, from where the other
\* threads put their text and clear it.
UploadRead(c) ==
    /\ Running /\ pc[c] = "uploading"
    /\ sent' = [sent EXCEPT ![c] =
                   Sent([i \in 1..Len(@.text) |-> IF i <= Len(buf) THEN buf[i] ELSE Blank],
                        @.bytes, @.off)]
    /\ Goto(c, "sending")
    /\ UNCHANGED <<db, pending, writer, autoCommit, stmt, left, awsVars, recVars, states, ran, logged,
                   spoilt, overlap, torn, nStmt>>

\* put-object --write-offset-bytes: the bucket appends, and refuses an offset
\* that is not the size of the object.
Accepted(c) == sent[c].off = size

\* Mutant: the offset is advanced by a successful upload only.
OffsetAfter(ok) == IF ok THEN cur_aws_off + aws_off ELSE cur_aws_off

NextOffset(ok) == cur_aws_off + aws_off

\* The command has ended, well or not; the buffer is reset whatever it holds.
UploadEnd(c) ==
    /\ Running /\ pc[c] = "sending"
    /\ \/ /\ Accepted(c)
          /\ object' = object \o sent[c].text /\ size' = size + sent[c].bytes
          /\ torn' = (pending # <<>>)
          /\ cur_aws_off' = NextOffset(TRUE)
       \/ /\ UploadFails \/ ~Accepted(c)
          /\ cur_aws_off' = NextOffset(FALSE)
          /\ UNCHANGED <<object, size, torn>>
    /\ buf' = <<>> /\ aws_off' = 0
    /\ sent' = [sent EXCEPT ![c] = NothingSent]
    /\ Goto(c, "idle")
    /\ UNCHANGED <<db, pending, writer, autoCommit, stmt, left, recVars, states, ran, logged, spoilt,
                   overlap, nStmt>>

(***************************************************************************)
(* The machine is lost, and ssl-s3_recovery.py is run elsewhere.           *)
(***************************************************************************)
Lost ==
    /\ Running
    /\ rec' = "download"
    /\ pending' = <<>> /\ writer' = None
    /\ pc' = [c \in Conn |-> "dead"]
    /\ autoCommit' = [c \in Conn |-> TRUE]
    /\ stmt' = [c \in Conn |-> None] /\ left' = [c \in Conn |-> 0]
    /\ sent' = [c \in Conn |-> NothingSent]
    /\ buf' = <<>> /\ aws_off' = 0 /\ cur_aws_off' = 0
    /\ UNCHANGED <<db, object, size, next, copy, result, states, ran, logged, spoilt, overlap, torn, nStmt>>

recUnchanged == <<db, pending, writer, stmtVars, awsVars, states, ran, logged, spoilt, overlap, torn,
                  nStmt>>

\* download_log_from_s3 raises if there is no object, or the request fails.
RecDownload ==
    /\ rec = "download"
    /\ \/ object # <<>> /\ rec' = "execute"
       \/ rec' = "done"
    /\ UNCHANGED <<next, copy, result, recUnchanged>>

\* Mutant: every statement is committed at once.
KeepCopy == copy

\* The ROLLBACK of execute_recovery, or of SQLite if the script is killed.
RollbackCopy == <<>>

\* execute_recovery: every statement, in one transaction.
RecExecute ==
    /\ rec = "execute" /\ next <= Len(object)
    /\ IF object[next].replay = Error
       THEN /\ copy' = RollbackCopy /\ next' = 1
            /\ rec' = "done"
            /\ UNCHANGED result
       ELSE /\ copy' = Append(copy, object[next].replay)
            /\ next' = next + 1
            /\ UNCHANGED <<rec, result>>
    /\ UNCHANGED recUnchanged

RecCommit ==
    /\ rec = "execute" /\ next > Len(object)
    /\ rec' = "done" /\ result' = TRUE
    /\ UNCHANGED <<next, copy, recUnchanged>>

\* The script is killed and run again: SQLite rolls its transaction back.
RecKilled ==
    /\ rec = "execute"
    /\ copy' = RollbackCopy /\ next' = 1
    /\ rec' = "download"
    /\ UNCHANGED <<result, recUnchanged>>

Statement(c) ==
    \/ \E s \in Stmts : Call(c, s)
    \/ CallAgain(c) \/ StepDone(c) \/ StepFailed(c)
    \/ Begin(c) \/ Commit(c) \/ Rollback(c) \/ Query(c)
    \/ UploadSkipped(c) \/ UploadStart(c) \/ UploadRead(c) \/ UploadEnd(c)

Next ==
    \/ \E c \in Conn : Statement(c)
    \/ Lost \/ RecDownload \/ RecExecute \/ RecCommit \/ RecKilled

Spec == Init /\ [][Next]_vars

(***************************************************************************)
(* Properties                                                              *)
(***************************************************************************)
\* A recovery that reports success leaves the database as some commit left
\* it ("executes them to recover database state", README.md).
ReplayIsState ==
    rec = "done" /\ result => \E n \in states : copy = SubSeq(db, 1, n)

\* If no statement failed, was rolled back or is one that its text does not
\* repeat, and no two threads used the buffer at once, a recovery that reports
\* success has executed what the application executed, up to some statement
\* and in its order, whatever uploads failed or were skipped and however often
\* the script was killed (execute_recovery, and the offsets of
\* sqlite3WalCallback); and this is a commit unless the last append was made
\* by a connection while another one had a transaction open.
FaithfulReplay ==
    ~spoilt /\ ~overlap /\ rec = "done" /\ result =>
        /\ IsPrefix(copy, ran)
        /\ ~torn => ReplayIsState

\* Unless two threads used the buffer at once, the object is a prefix of what
\* was logged, whatever uploads failed or were skipped: an append after a lost
\* one is refused by the bucket, it never leaves a hole in the log ("downloads
\* SQL logs from S3 and executes them", README.md).
ObjectIsPrefix == ~overlap => IsPrefix(object, logged)
=============================================================================
