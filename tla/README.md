# SQLite-Cloud-S3: a TLA+ model of its logging and recovery

The repository is SQLite with three changes and three scripts. The write-ahead
log (WAL) of SQLite is the core: it decides what a commit is, what a reader sees
and what survives a crash. The changes send the log, or the SQL text, to an S3
bucket after every statement; the scripts rebuild a database from the bucket.
This directory models both layers: the WAL protocol in detail (who may do what
when, the wal-index as memory, what reaches the disk), the rollback journal
which is the other way to commit, and each of the three upload modes end to end,
from the commit to the recovered database.

## Inventory

| Component | State | Operations | Source |
|---|---|---|---|
| WAL protocol | database file, WAL file, wal-index (two header copies, `nBackfill`, `nBackfillAttempted`, read marks), lock bytes; per connection `struct Wal` | begin/end read, begin/end write, spill, commit, rollback, restart the log, checkpoint (PASSIVE, FULL, RESTART, TRUNCATE), recover the wal-index | `src/src/src/wal.c` |
| wal-index hash tables | one table per 4096 frames | append, look up, clean up after a rollback | `wal.c:1027-1235` |
| Checkpoint iterator | sorted lists of frames | merge sort, next | `wal.c:1660-1880` |
| Syncs of the WAL | what the disk may hold of database and WAL | header sync, commit sync, checkpoint syncs, rewriting of spilled frames and their checksums | `wal.c:2148-2274`, `wal.c:3470-3900` |
| Pager | page cache, database size | begin read, spill (`pagerStress`), commit, rollback | `pager.c` |
| Rollback journal | database file, journal, five lock levels, `dbFileVers`, `Pager` | shared lock, hot-journal rollback, journal a page, spill, `syncJournal`, write the pages, finalize by DELETE, TRUNCATE or PERSIST, roll back | `pager.c` |
| Shared memory and its locks | the -shm file; per process POSIX locks and a `unixShmNode`, per connection masks | open (the first process truncates), lock, unlock, unmap, delete | `os_unix.c:4320-5147` |
| Locks on the database file | per process POSIX locks and a `unixInodeInfo`, per connection a level; descriptors kept open | lock, unlock, test for RESERVED, open, close | `os_unix.c:1208-2205` |
| Upload mode 1 | the object, one aws process per statement | upload the whole WAL file in `sqlite3WalCallback` | `wal.c:4003`, `vdbeapi.c:620`, `main.c:2388` |
| Upload mode 2 | `aws_ptr`, `aws_off`, `cur_aws_off` (globals), the object | copy every frame, append the buffer to the object, reset | `wal.c:3545`, `wal.c:4012`, `pager.c:4866` |
| Upload mode 3 | the same globals, holding SQL text | log the statement in `sqlite3_step`, append, reset | `vdbeapi.c:794-836`, `wal.c:4029` |
| Recovery scripts | local database, WAL file, `.backup`, download | back up, download, checkpoint or replay, clean up | `recovery/*.py` |
| S3 and the aws command | objects | replace, append at an offset | external |

How they interact. Connections of several processes share the files and the
wal-index and synchronise only through the lock bytes. `sqlite3_step` calls
`doWalCallbacks` when a statement ends in autocommit mode; that calls
`sqlite3WalCallback`, which runs the upload and waits for it, and then the wal
hook, which may checkpoint. The upload takes no lock. The scripts run when the
application does not, on files a crash has left.

What is hard: almost every step of the WAL protocol reads shared memory first
and locks, or checks again, later; headers, counters and marks change in several
stores, between which a process can die; the log is reused from frame 1 while
old readers may still hold its frames; uploads overlap, fail and end out of
order; globals are shared by threads without a mutex; scripts move files around
and can fail or be killed between two moves.

What makes it correct: a transaction reads one version of the database and a
writer builds on the newest; the two files always hold the last commit; counters
and marks change only under their locks; readers are not delayed for ever; the
object in the bucket is a version (mode 1), the stream of frames (mode 2) or the
log of statements (mode 3) without holes; a recovery that reports success gives
back what was acknowledged. PROJECT.json
lists the hazards at their lines with the properties that cover them.

## Modules

| Module | Contents |
|---|---|
| `Wal` | the WAL protocol, and its properties |
| `WalInv` | lock discipline, log bounds, the inductive invariant `IInv` |
| `WalProofs` | theorems about `Wal`, with their proofs: `IInv` and what follows from it, `WalVersions` and the first part of `WalSnapshots` (nobody builds on or keeps an old version, and the counters are bounded) |
| `WalVersions` | what headers and `iChange` say about versions, until a process is killed |
| `WalSnapshots` | what counters, read marks and log stand for: the images that connections see, and the one that the files hold |
| `WalSnapshotProofs` | snapshot isolation |
| `WalAbstract` | what the WAL promises: an atomic store with snapshots |
| `WalRefinement` | the mapping under which `Wal` implements `WalAbstract`, and what it comes to until a process is killed |
| `WalRefinementProofs` | recoverability, and the proof that `Wal` implements `WalAbstract` until a process is killed |
| `MCWal` | values of the constants of `Wal` for TLC |
| `WalIndex` | the wal-index word by word: header copies, hash tables, the checkpointer's iterator, savepoint and transaction rollback |
| `WalIndexProofs` | its inductive invariants: headers, hash tables, searches |
| `UnixShm` | the -shm file and its locks, of processes and of connections |
| `UnixShmProofs` | its inductive invariant and what follows from it |
| `ShmLocks` | what they promise: the table of lock bytes of `Wal` |
| `UnixLock` | the locks on the database file, of processes and of connections |
| `UnixLockProofs` | its inductive invariant and what follows from it |
| `FileLocks` | what they promise: one table of lock levels |
| `SharedState`, `MCSharedState` | `WalIndex`, `UnixShm` and `UnixLock` side by side, and the two refinements |
| `SharedStateProofs` | theorems about memory and locks, from the three modules of proofs |
| `Disk` | files under power failures: what the disk may hold of them |
| `Journal` | transactions with a rollback journal, over `Disk` |
| `WalSync` | the syncs of the WAL and the frames written again, over `Disk` |
| `Durability`, `MCDurability` | `Journal` or `WalSync`, as PRAGMA journal_mode selects |
| `WalFile` | a WAL file as a value: what a reader finds in it |
| `S3Snapshot`, `MCS3Snapshot` | mode 1 and `snapshot_recovery.py`, over `WalFile` |
| `S3Partial`, `MCS3Partial` | mode 2 and `incremental_recovery.py`, over `WalFile` |
| `S3Sql`, `MCS3Sql` | mode 3 and `ssl-s3_recovery.py` |
| `S3`, `MCS3` | the three builds of the library side by side |
| `S3Proofs` | theorems about the three modes, with their proofs |

Definitions that begin with "Mutant:" in their comment are plausible mistakes
for the definition below them; PROJECT.json says which property catches each.

### Wal

A connection's program counter `pc` names the next access to shared state of the
function it is in; one action is one such access (a lock, a load or store of the
wal-index, a write to a file). Variables keep the names of the code: `aHdr[0]`
and `aHdr[1]` are the two header copies, `hdr[c]` is `pWal->hdr`, `lockX` and
`lockS` the lock bytes. Actions follow the functions in order:
`walIndexReadHdr` and `walIndexRecover` (`ReadHdr` ... `RecoverEnd`),
`walTryBeginRead` (`CheckBackfill` ... `CheckI`), `walRestartLog` and
`walRestartHdr` (`RestartLog` ... `RestartMarks`), `sqlite3WalFrames`
(`WriteWalHdr`, `Spill`, `Commit`, `Publish1`, `Publish0`), `sqlite3WalUndo`
(`Rollback`), `sqlite3WalCheckpoint` and `walCheckpoint` (`BeginCkpt` ...
`CkptEnd`). `Crash` kills one process at any step, `CrashAll` all of them.

Abstractions. A page's content is the number of the transaction that wrote it.
Checksums are ideal: a frame is valid exactly if its salt is the header's and
the frames before it are those it was written after. A lookup searches the log;
that the hash tables give the same answer, and that a header is read as it was
stored, is what `WalIndex` checks. The frames of one commit are written in one
step, which is sound for other connections because they do not look beyond their
`mxFrame`, and for crashes because frames without a commit mark are invisible (a
partly written commit is what `Spill` leaves). A page that is overwritten in
place within a transaction is not told apart from its earlier content, as both
carry the same number; `WalSync` tells them apart. A killed process loses nothing
it wrote: power failures and syncs are in `WalSync`. `journal_size_limit`,
exclusive locking and `sqlite3WalClose` are not modelled.

Switches. `Reopen`: every transaction is run by a new connection, which keeps
the state space small where the page cache does not matter. `CkptPreempt` lets a
log be restarted between a checkpointer's read of the header and its load of
`nBackfill`, and `CrashInRestart` lets a process die inside `walRestartHdr` between
the header and the store of `nBackfill`: two schedules under which the code breaks
its own documented invariants (see "What the checks show"). The passing runs
exclude them so that everything else can be checked. The stores of `nBackfill` and
`nBackfillAttempted` are steps of their own, in a restart and in a recovery
(`RestartBackfill`, `RestartAttempted`, `RecoverBackfill`, `RecoverAttempted`), and a
process may die between them in every run with crashes. The proofs cover all
values of the switches.

### WalAbstract and WalRefinement

`WalAbstract` has one current image, a view for each transaction, at most one
writer with its draft, and `limbo`: what a dying writer may leave for recovery to
commit. `WalRefinement` takes the image and the views from the files, through the
header, the read marks and the locks, just as a connection would read them, and
not from the history variables. Only a writer between its last frame and its
published header, and a reader that has closed its snapshot, are mapped by
history.

### WalIndex

The wal-index as shared memory. A header copy is stored and loaded in two parts,
in any order within a copy; the barrier orders the copies. A hash table is an
array of page numbers and one of slots. `walIndexAppend` stores the page number,
then the slot; a lookup loads one slot at a time; `walCleanupHash` clears slot by
slot, then the page numbers; `walIndexRecover` builds the tables from the valid
frames of the log (`Built`, one `Entered` frame after the other) and copies them,
whole or word by word as a reader may see them. The
checkpointer loads the header word by word, sorts the page numbers with the
merge of `walMergesort` and steps through `walIteratorNext`. The tables have 3
frames (the first 2), so that one is filled, the next begun and cleaned up.
`KillInMemset` lets a writer die inside `walCleanupHash`'s memset.

Of the protocol of `Wal` only its promises are here: one writer, one
checkpointer, no restart under a reader's mark. A reader opens in one step, since
`walTryBeginRead` reads the header again once its mark is locked.

### UnixLock, UnixShm, SharedState

POSIX locks belong to a process, are always granted to it again, and are all
dropped when it closes any descriptor of the file. `flock` is what the kernel
keeps for each process; `inode` (`unixInodeInfo`) and `node` (`unixShmNode`) are
what the connections of a process share, under a mutex; `eFileLock`, `sharedMask`
and `exclMask` belong to a connection.

`UnixLock` has the PENDING byte, the RESERVED byte and the shared range. A call
of `unixLock` or `posixUnlock` that makes several fcntl calls takes as many steps,
holding the mutex of its process (`call`), and other processes go on in between.
A call that returns SQLITE_BUSY without a change is no step. `unixClose` keeps a
descriptor (`nUnused`) while the process has locks and closes it otherwise, in a
step of its own, before which other threads of the process may lock, as the code
has left `pLockMutex` by then. The history variable `overtaken` remembers that one
did; `Dropped` says that the close has happened since and that the process has not
given up all of its locks after it. The mapping to `FileLocks` gives a connection
that is giving up its lock the level it may still rely on, and one of a process
whose locks are `Dropped` none.

`UnixShm` has the opening of the file in the steps of `unixLockSharedMemory` (ask
for locks on the dead man's switch, lock it, truncate, share it), `unixShmLock`
in one step under its mutex, and the closing: `sqlite3WalClose` locks the database
for itself and deletes the file. The lock on the database file is a table here,
which `UnixLock` justifies. `isFresh` says that the file was truncated since the
machine was started, `spoilt` that it was truncated under a process that used it.
Processes die and the power fails at any step.

`SharedState` runs the three parts as behaviours of one specification, as they
share no state. Left out: fcntl calls that fail with an I/O error, `unix-excl`,
read-only connections, locks with a time-out, the locking styles other than POSIX.

### Disk, Journal, WalSync, Durability

Next to a file stands the set of its contents that the disk may hold. A write
adds to the set what it may lead to (nothing, a torn page, all of it), `xSync`
leaves the newest content alone, a power failure picks a member. A truncation
that is not synced may be undone, but then nothing written after it survives;
unlinking a file leaves the old file possible until the directory is synced.

`Journal` follows pager.c: `sqlite3PagerSharedLock` with `hasHotJournal` and the
playback, `pager_write` and `pagerStress`, `sqlite3PagerCommitPhaseOne` with
`syncJournal`, the change counter and `pager_write_pagelist`,
`pager_end_transaction` for each journal mode, rollback, and the lock levels of
`unixLock` as one table (`UnixLock` shows that it is one; the moment in which a
reader to be has the PENDING byte is an outcome of `JLock`). Slots of the journal
are headers and records; a record carries its header's `cksumInit`, which is how
records of an earlier use of the file are told apart.

`WalSync` follows `sqlite3WalFrames`: the header and its sync, frames appended or
written again in place, `walRewriteChecksums`, the commit sync at FULL, the
publication of the header; `walCheckpoint` with its syncs of WAL and database and
the truncation; `walIndexRecover` over what is left. A checksum is the value it
covers together with the one before.

Abstractions. A torn record is detected by its checksum at NORMAL; at FULL the
code does not rely on that and a torn record keeps its page number. A sector
with a header is written whole. In `WalSync` the database has a fixed size,
readers are limits to a checkpoint and a restart, and commits are not padded,
because the unix VFS reports `SQLITE_IOCAP_POWERSAFE_OVERWRITE`. Not modelled: the
branch of `hasHotJournal` for an empty database, connections in different journal
modes, super-journals, auto-vacuum, sub-journals and savepoints with a rollback
journal, exclusive locking, the modes MEMORY and OFF, atomic-write devices.

### WalFile, S3Snapshot, S3Partial, S3Sql, S3

`WalFile` describes a WAL file as a sequence of frames with salts, `LastCommit`
what recovery accepts of it, `Opened` what a connection then reads. The salt
stands for the chain of checksums. The code overwrites frames under one salt,
spilled ones in place (`wal.c:3752`) and those of a rolled back transaction by the
next one, and relies on the chain to end a file that holds both old and new ones;
therefore `S3Snapshot`, where an upload may see such a file, has no spills and no
rollbacks, and `S3Partial` at most one frame behind the last commit.

In `S3Snapshot` and `S3Partial` a commit is one step, since `Wal` has its detail.
A statement goes on through the callback of its mode (`UploadStart`,
`UploadRest` or `UploadRead`, `UploadEnd`), so that statements of other
connections fall between the start of the aws command, its reading of the file
and its end. `S3Snapshot` has the wal hook and PRAGMA checkpoints page by page,
TRUNCATE, the close of the last connection and the restart of the log.
`S3Partial` has the shared buffer, spilled and rolled back frames. `Crash` ends
the application, perhaps with the WAL file, and the script's steps follow its
`try`, `except` and `finally` blocks; `Faults` says which of its calls may fail.

In `S3Sql` a statement is a record of its effect, the effect of its text when it
is replayed (after `to_upper` and `parse_sql_log`), whether `check_sql` logs it,
how often `sqlite3_step` is called for it and how long it is. The database is the
sequence of effects. The connections are threads of one process and share
`aws_ptr`, `aws_off` and `cur_aws_off`. A statement is logged in one step (`Call`,
before the mutex of its connection is taken), runs in another (`StepDone`,
`StepFailed`), and its callback takes three (`UploadStart`, `UploadRead`,
`UploadEnd`): so a connection uploads what others have logged, the text of open
transactions and of statements that have not run yet included. Two threads in
the lines of the memcpys leave one text over the other and an `aws_off` of either
or both (`TextRaced`). `overlap` records that the buffer was used amid another's
statement or upload, `torn` that a transaction was open when the object last
grew, `spoilt` that something ran whose text does not repeat it. `aws_off` and the object's size count bytes, as the code
does; that they agree with the statements in the buffer and in the object is part
of the invariant that is proved.

`S3` joins the three: the macro `AWS_S3_RECV` selects one when the library is
built.

Not in these modules: the 1 MiB limit of the buffer, its second creation when
another connection is opened later (`pager.c:4870` empties the file while the
offsets stay; here all connections are open from the start), and memory faults.

## Runs

| Run | Instance | Result |
|---|---|---|
| `wal_pair` | 2 connections with all roles, PASSIVE, RESTART and TRUNCATE, 2 pages, 2 commits, 4 frames | `NoLostUpdate`, `ImplementsAbstract` hold |
| `wal_trio` | writer, checkpointer and reader, 1 page, 2 commits | `SnapshotIsolation`, `MarkIsStable`, `BackfillOwner`, `AttemptedBounded` hold |
| `wal_pages` | 2 connections that keep their cache, sizes 1 and 2, spills | `TypeOK`, `SnapshotIsolation`, `CacheIsFresh` hold |
| `wal_crash` | writer and checkpointer, TRUNCATE, 2 pages, spills, a crash at any step but one (`CrashInRestart = FALSE`) | `Recoverable`, `BackfillBounded`, `AttemptedCovers`, `LockDiscipline`, `LogCoversHdr`, `ImplementsAbstract` hold |
| `wal_live` | 2 readers, one of them a writer, one a checkpointer, 2 read marks, a crash, any schedule | `ReadTerminates` holds |
| `shared_state` | memory: a writer that spills, rolls back, restarts and dies, next to a reader or a checkpointer, 2 hash tables; locks: 2 processes of 2 connections each, 2 lock bytes | `TypeOK`, `SnapshotIsCommit`, `LookupRight`, `WriterLookup`, `IteratorRight`, `LockArrayOk`, `OneWalIndex`, `LocksAgree`, `ReservedIsSeen`, `ImplementsFileLocks`, `ImplementsShmLocks` hold |
| `durability` | rollback journal: 2 connections, 2 transactions, DELETE, TRUNCATE and PERSIST; WAL: 3 transactions, a checkpoint; a kill or a power failure at any step | `AtomicCommit`, `KillLosesNothing`, `ReadsCommitted` hold |
| `wal_reset` | as `wal_trio` without the reader, 3 commits, any schedule | `Recoverable` is violated |
| `s3_safe` | each mode: 2 connections, failing uploads; modes 1 and 2: a checkpoint; mode 3: statements of five kinds, transactions, rollbacks, failing statements; all faults of the scripts, a killed script | `AckedIsRecovered`, `ObjectIsVersion`, `StreamIsUploaded`, `ObjectIsPrefix`, `FaithfulReplay` hold |
| `snapshot_lost` | 1 connection, 3 commits, a checkpoint, failing uploads | `RecoveredIsVersion` is violated |
| `partial_header` | 1 connection, 2 commits, nothing fails | `AckedIsRecovered` is violated |
| `sql_rollback` | 1 connection, 3 plain statements, rollbacks, nothing fails | `ReplayIsState` is violated |

Bounds. Two pages are enough for a mixture of two versions and for a database
that shrinks; two commits and a restart for an old log, a new log and a reader
of each; four frames for two commits of two pages, or one and what a rollback
leaves; two read locks for a reader on the log and one on the database, three
for readers of different versions. `MaxSalt` is never the limit: a new log takes
the smallest salt that no frame and no header still carries. Connections that
have the same roles are declared symmetric in the runs without temporal
properties. FULL does what RESTART does up to its last step. In `shared_state` three
frames fill one table and begin another, and hashing three page numbers into six
slots gives collisions; one reading and one checkpointing at a time is enough,
since neither changes a table; two processes of two connections have siblings on
either side of every lock, and two bytes a range and one byte of it. In
`durability` one fault is followed by a recovery; the invariants are about all
that the disk may hold at every step of it, so a second fault is covered without
being taken. Two
transactions leave an old journal under a new one, three an old log under a new
one. In mode 3, `MaxStmt` statements are run as long as all of them are such that
`FaithfulReplay` says something of them, and `MaxSpoilt`, which is less, otherwise:
three statements are a transaction of two beside a third, or an upload that is
lost between two others. In the S3 models deadlock is not checked, since they end with a recovery.

Fairness. `FairSpec` assumes weak fairness of the steps of a call that has
begun (`CallStep`): a thread inside wal.c is scheduled again and does not stop
on its own. Nothing is assumed of the application (`UserStep`) or of crashes. The
WAL functions never block on a lock, so weak fairness is enough. `ReadTerminates`
excludes behaviours with checkpoints without end: there the code itself gives up
after 100 retries with SQLITE_PROTOCOL, which the model does not count.

### What the checks show

- The WAL protocol gives every transaction one version, loses no commit and
  survives the death of any process at any step, except on two schedules.
  1. A PASSIVE checkpointer reads the header without the WRITER lock. If the log
     is restarted before it loads `nBackfill`, it finds 0 there, copies by its
     stale header and stores the old frame count beside the new log. A writer
     then believes that the new log is all in the database, restarts it, and a
     commit is lost (`wal_reset`). With `CkptPreempt = TRUE`, `BackfillBounded`
     is refuted as well.
  2. A process that dies inside `walRestartHdr` between the store of the header
     and the store of `nBackfill` leaves an `nBackfill` larger than `mxFrame`:
     with `CrashInRestart = TRUE`, `wal_crash` refutes `BackfillBounded`. One that
     dies between the stores of `nBackfill` and `nBackfillAttempted`
     (`wal.c:2018-2019`) leaves the latter larger than `mxFrame`, which "must never"
     be (`wal.c:353`). This is why `AttemptedBounded` is checked in `wal_trio`,
     which has no crash, and not in `wal_crash`, whose crashes refute it. The next
     checkpoint that copies something sets the counter right, and only the snapshot
     API, which is not compiled, relies on it. What holds wherever a process
     dies is `AttemptedCovers`: `nBackfill` does not pass `nBackfillAttempted`.

  And one remark. A page cache may survive a recovery that it should not survive:
  a header that is recovered from an empty log is all zeros, whatever the database
  file holds. With `Reopen = FALSE` and a crash, `CacheIsFresh` is refuted: a
  connection caches a version under such a header; another process commits,
  checkpoints with TRUNCATE, does so again with the log empty, and is killed
  between the two stores of the header; somebody else recovers, and the first
  connection finds the header that it knows and keeps its cache. This is why
  `wal_pages`, which checks `CacheIsFresh`, has no crash, and why the theorem ends
  with the first one.
- Seen through what connections can read, every step of `Wal` is a step of the
  atomic store `WalAbstract` or none at all, crashes and recovery included.
- Readers that search the hash tables without a lock find the frame the log has,
  whatever the writer inserts, rolls back or recovers meanwhile, and a header is
  never accepted in pieces. The clean-up after a rollback is safe against death
  only between its stores: with `KillInMemset = TRUE`, a writer that dies within
  the memset of `walCleanupHash` (`wal.c:1130`) may leave slots in use beyond a
  free one, and `LookupRight` is refuted; the assertion of `walIndexAppend` that
  the slots are as many as the entries is broken by the same state.
- The two levels of locks are the tables that `Journal` and `Wal` use, also when
  connections of one process lock, unlock, close and die in any order, and no
  connection ever uses a -shm file that was deleted, truncated under it, or left
  from before a power failure. Two remarks.
  1. `unixClose` tests `nLock` under the mutex `pLockMutex` and closes the
     descriptor after it has left the mutex (`os_unix.c:2188-2201`). A thread of
     the same process that begins to lock in between loses its lock in the kernel
     and does not know. This schedule is in the model, and the properties say what
     is left: the counters of the process still agree with its connections, its
     own threads still see each other's locks, no other process loses one, and all
     is well again once the process has given up its locks. Without the exception
     for `Dropped` processes the last part of `LocksAgree` is false.
  2. A PENDING lock stops readers, but not in a process that reads already: there
     `unixLock` counts one more reader without asking the kernel. `os.h:89` says
     that no new SHARED locks may be obtained by other processes; `FileLocks`
     states what holds (`Share`).
- With FULL the last acknowledged commit survives a power failure at every step,
  with NORMAL in WAL mode an earlier one does, and in no case a mixture. One
  combination is left out of `MCStarts`: with PERSIST and NORMAL, `AtomicCommit` is
  refuted, which the comment at `pager.c:3521` concedes. `ReadsCommitted` depends
  on the case that `pager.c:1586` singles out, a header that a live rollback reads
  at the offset it has itself remembered.
- Mode 1 uploads a consistent log whatever other connections do meanwhile, but
  the object is only as good as the last upload. If one fails and the database
  is checkpointed, the script builds a mixture and reports success
  (`snapshot_lost`). When statements of two connections overlap, the upload that
  ends last may be the older one, and a checkpoint may copy a commit that is not
  yet uploaded, which is why `AckedIsRecovered` is stated for statements that do
  not overlap.
- Mode 2 uploads every frame, but not the WAL header, and the script recovers
  nothing from a file without one (`partial_header`). Frames that a thread writes
  during another's upload are dropped with the buffer, which is why its
  properties exclude that overlap. A failed upload advances `cur_aws_off` all the
  same: the object stays a prefix, and no later append is accepted.
- Mode 3 keeps a log without holes, and its replay is atomic, but what it
  replays includes rolled back and failed statements (`sql_rollback`), repeats
  statements that return rows, and changes literals to upper case. With two
  connections it is also no commit, though nothing fails or is rolled back, in
  two cases. The callback of one connection uploads the text of the other's open
  transaction, and the machine is lost before the commit: a replay repeats what
  ran (the first half of `FaithfulReplay`), which is half a transaction (`torn`).
  Or it uploads the text of a statement that is logged and has not run
  (`overlap`), which then need not have run at all. `ReplayIsState`, without these
  conditions, fails in both (`sql_rollback` with a second connection and
  `Rollbacks = FALSE` shows it). An upload is skipped when the new text is as long as
  all that was uploaded before (`UploadSkipped`); the text stays in the buffer, so
  the log has no hole, but the commit is in the bucket only after a later one.
- A recovery of mode 1 or 2 that fails does not leave the local files as they
  were: `RecCleanup` of `S3Snapshot` and `Finish` of `S3Partial` remove, as the
  scripts do, the backup of the local WAL file where it was not restored (after an
  error other than `ClientError`), or the WAL file restored from it.

## Proofs

`WalProofs` proves for every number of connections, pages, frames, read marks,
transactions and crashes, and every value of the switches:

| Theorem | States |
|---|---|
| `InductiveInvariant` | `Spec => []IInv` |
| `TypeCorrect` | `Spec => []TypeOK` |
| `LocksProtect` | `Spec => []LockDiscipline` |
| `HeaderWithinLog` | `Spec => []LogCoversHdr` |
| `BackfillProtected` | `Spec => BackfillOwner` |
| `MarksProtected` | `Spec => MarkIsStable` |
| `AttemptedCoversCorrect` | `Spec => []AttemptedCovers` |

Assumptions: those that `Wal` states on its constants (`ConnAssumption`,
`BoundAssumption`), which TLC evaluates in every WAL run.

The argument. Types are not inductive alone: that a frame number stays within
the log depends on who may shorten the log, and that on locks. `IInv` joins
`TypeOK`, `Control` (which local values go with which program counter),
`LockDiscipline` (which locks a connection holds at which program counter),
`LogCoversHdr`, and `DataInv` (what those locks let a connection rely on: a
version to read, headers reset before a truncation, frames to copy that exist).
Each part is a statement about one connection. A step of connection `c` is
therefore treated twice: lemmas such as `OwnLocks` and `OwnSteps` show that `c`
keeps its own part, and `LocksOfOthers`, `OthersFrame` and `OthersData` that it
leaves the parts of the others alone, because it holds a lock that excludes
theirs (`LocksExclude`). Log, headers, counters and marks each have a lemma that
says at which program counters they change (`LogStep`, `HdrStoreStep`,
`BackfillStep`, `MarkStep`). The two action properties follow from the same
lemmas and the lock discipline. `AttemptedCovers` needs `AttemptInv` beside `IInv`:
a checkpointer that copies has claimed what it will store, and nobody lowers the
claim meanwhile, as a restart or a recovery holds a lock that excludes it.

### Versions, counters and images

These theorems are about the behaviours of `Wal` up to the first death of a
process; that is `UntilCrash` in their names. Afterwards a header may be one that
recovery has made up, with an `iChange` that counts from zero again, and two
headers may be equal without standing for the same version.

| Theorem | Module | States |
|---|---|---|
| `NoLostUpdateUntilCrash` | `WalProofs` | `Spec => [](nCrash = 0 => NoLostUpdate)` |
| `CacheIsFreshUntilCrash` | `WalProofs` | `Spec => [](nCrash = 0 => CacheIsFresh)` |
| `BackfillBoundedUntilCrash` | `WalProofs` | `Spec => [](~CkptPreempt /\ nCrash = 0 => BackfillBounded)` |
| `AttemptedBoundedUntilCrash` | `WalProofs` | `Spec => [](~CkptPreempt /\ nCrash = 0 => AttemptedBounded)` |
| `SnapshotIsolationUntilCrash` | `WalSnapshotProofs` | `Spec => [](~CkptPreempt /\ nCrash = 0 => SnapshotIsolation)` |
| `RecoverableUntilCrash` | `WalRefinementProofs` | `Spec => [](~CkptPreempt /\ nCrash = 0 => Recoverable)` |
| `ImplementsUntilCrash` | `WalRefinementProofs` | `~CkptPreempt` implies `Spec => Abstract!Init /\ [][nCrash = 0 => [Abstract!Next]_(Abstract!vars)]_vars` |
| `ImplementsAbstractWithoutCrash` | `WalRefinementProofs` | `~CkptPreempt /\ MaxCrash = 0` implies `Spec => ImplementsAbstract` |

Without `~CkptPreempt` the bounds, `SnapshotIsolation`, `Recoverable` and the
refinement are false: it excludes the first of the two schedules in "What the
checks show". The number of connections, commits, checkpoints, restarts, pages,
frames and read marks is arbitrary, and so are their interleavings. The
invariants below were checked with TLC, on instances of `MCWal`, before they were
proved.

The arguments, each resting on `IInv` and on those before it:

- Versions (`VersionInv`). `iChange` of the header counts the versions, and a
  header that is stored is stored by the holder of the WRITER lock, with a
  larger `iChange` if it is another version. So equal headers are equal versions,
  a writer whose header is the one in the wal-index (the comparison of
  `sqlite3WalBeginWriteTransaction`) builds on the newest one, and a cache that
  is kept is one of that version.
- Counters (`CounterInv`). `nBackfill <= mxFrame` is not inductive: a checkpointer
  stores `mxSafeFrame`, which it has computed earlier and from a header that it
  has read earlier still. `CkptRange` says that this header is not ahead of the
  one there is, as long as frames are copied. It is kept because a restart of the
  log and a copy exclude each other: a log is restarted only when all of it is
  copied (`AllCopied`), and a copy is begun only if something is left. A
  connection that looks at the log again after a restart notices it by the salt
  (`FreshSalt`).
- Images (`ImageInv`). `CurrentShown` says that the last version is what the log
  shows over the database file, for every first frame up to `nBackfill + 1`: a
  reader takes its `minFrame` from an `nBackfill` that may have grown since.
  `ReaderImage` says the same of the version of a reader, and `WriterImage` and
  `PendingImage` of a writer and of a commit that is not yet published. A
  checkpointer changes the database file under all of them. `CopyImage` says
  which frames it may still copy, and `Limited` that none of them is beyond the
  mark of a reader: it has visited the mark, or will visit it and stop there.
  So for a page that is copied every reader has either the same frame or a later
  one in the log, or reads the very value from the file. The lemmas about frames
  (`FrameNarrow`, `FrameShorten`, `ContentNarrow`, ...) are stated for any
  sequence of frames.
- Files (`FileInv`). `Recoverable` is about what `walIndexRecover` would find if
  all processes died now; that it holds up to the first death is what makes the
  first recovery right, a commit that was in the file and not yet in the
  wal-index being the one case in which it finds more than the last version.
  `LogCurrent` says that the header in shared memory describes the file: its
  frames have the salt and continue each other's checksums (`ChainTo`), and the
  last one commits. `LogTail` says that no frame behind it commits under the same
  salt, although spills that were rolled back stay in the file; `WriterLog` says
  both of the frames that a writer adds. What takes most of the proof are restarts.
  A header without frames is stored long before frame 1 of the old log is
  overwritten, and a death in between recovers the old log. `OldLog` says that this
  gives the last version still, since all of the log is in the database file
  already, which was cut to its size (`DbCut`), and copying a log twice is copying
  it once. When frame 1 is overwritten, the new salt is one that no frame of the
  file has.
- Refinement (`TxnNumbers`, `Mapped`). The mapping reads the files; `Mapped`, which
  follows from `ImageInv`, says that what it reads is what the history has: the
  current image is the last version, a view the version that its transaction began
  with, the draft of a writer its work or, between its last frame and its
  published header, the commit that is pending. `TxnNumbers` says that a
  transaction has a greater number than the last commit; so what is pending is in
  limbo just until it is published. Then every step is compared with the store:
  `Check0` and `CheckI` begin a transaction and `EndRead` ends it, `WriteCheck`
  begins to write, `Spill` and `Rollback` change the draft, `Commit` makes it one
  that may survive its writer, `Publish0` commits it, and a death is a crash of the
  store. All other steps, those of checkpoints and restarts among them, move
  pages from one file to the other and are not noticed. The first death is itself
  a step of `ImplementsUntilCrash`; the steps after it are not.

### The locks

`SharedStateProofs` proves for any finite set of connections in any number of
processes, and any lock bytes:

| Theorem | States |
|---|---|
| `LockArrayCorrect` | `Spec => []LockArrayOk` |
| `OneWalIndexCorrect` | `Spec => []OneWalIndex` |
| `ShmLocksImplemented` | `Spec => ImplementsShmLocks` |
| `LocksAgreeCorrect` | `Spec => []LocksAgree` |
| `ReservedIsSeenCorrect` | `Spec => []ReservedIsSeen` |
| `FileLocksImplemented` | `Spec => ImplementsFileLocks` |

Assumptions: `SharedStateAssumption`, which TLC evaluates. That the connections
are finitely many is part of it, since the counters of `unixInodeInfo` and
`unixShmNode` are compared with cardinalities. The race in `unixClose` that "What
the checks show" describes is part of the specification, and what the last three
say of a process in which it has happened is part of their statements.

The argument. `LockArrayOk` (the entries of `aLock` count the connections that
share a byte, and the kernel's lock is the one they stand for) needs to know what
a connection may have in its masks: `MasksOk`, and `KernelOk`, that two processes
never have conflicting locks. `OneWalIndex` needs `NodeOk`: a process is outside of
the file, has it open with the dead man's switch shared, or is in one of the
steps of `unixLockSharedMemory` with just the locks of that step; and `DbLocked`,
because a file is deleted only by a connection that has the database for itself.
In `UnixLockProofs` the invariant says for each process what its bytes and its
counters are between calls (`Idle`) and within each step of a call (`InCall`);
with `OneWriter`, the strongest lock of a process has one owner, and this is what
`LocksAgree` misses to be inductive. While a descriptor is about to be closed the
process has no locks, or `overtaken` says that a thread has begun to take some;
after the close nothing is said of its bytes until it has none again. For the refinements every step is shown to
change the table as one step of `ShmLocks` or `FileLocks` would, or not at all
(`SharesByte`, `LocksBytes`, ... and `Shares`, `Reserves`, ...); a process that
dies frees the bytes of its connections at once.

### The memory of the wal-index

`SharedStateProofs` also proves, with the lemmas of `WalIndexProofs`, for any
number of readers, pages, frames, restarts and deaths, any sizes of the hash
tables that `WalIndexAssumption` allows (more slots than entries), and any hash
factor:

| Theorem | States |
|---|---|
| `SnapshotIsCommitCorrect` | `Spec => []SnapshotIsCommit` |
| `LookupRightCorrect` | `~KillInMemset` implies `Spec => []LookupRight` |
| `WriterLookupCorrect` | `~KillInMemset` implies `Spec => []WriterLookup` |
| `TypeCorrect` | `Spec => []TypeOK` |

`~KillInMemset` excludes the death inside one memset that "What the checks show"
describes; with it `LookupRight` is false. Deaths between any other two stores are
included.

The argument has three layers, each with an invariant that rests on those before
it; TLC found them true on the instance of `shared_state` before they were proved.

- Headers (`HeadersInv`). `SnapshotIsCommit` is about a header that was loaded in
  pieces from two copies, each of which may itself be stored in pieces, or half
  stored by a writer that died. What is kept of every single word is `SumOk`: the
  words that carry the checksum come from one header that was true of the log when
  it was stored, and still is (`Says`), because the log is restarted only by a
  header without frames and no frame of a commit is changed. A header that passes
  the test of `walIndexTryHdr` has the rest of its words from the same store.
  `IsCurrent` bounds what a checkpointer or a reader has by the header that is good
  or being stored, `TransactionInv` and `AppendInv` say what a writer has appended
  beyond it, and `StoringInv` which words are stored already.
- Tables (`TablesInv`). `Placed(f)` says that the table of frame `f` has its page
  number, and one slot for it, before which a search for the page passes only
  slots of earlier frames. `SnapshotsPlaced` says so of all frames of whoever may
  search: readers, the header, the writer up to the frame it is entering. It is
  not inductive alone. A frame that is entered must not meet the remains of
  others in its table: `RemainsInv` says that they are gone by then, and `OrderInv`
  that a table has no gap, by which `walIndexAppend` recognises remains at all. A
  recovery must not disturb readers of a log whose header was lost: the tables it
  builds have the same slots for the same frames (`RebuiltSame`), since by
  induction over the frames a slot is decided by those before it (`SlotsUnique`),
  so it makes no difference which words of them are copied.
- Searches (`SearchInv`). A reader that walks a table is at some place of the probe
  sequence, and the newest frame that it wants in this table is the one it has, or
  still ahead; there is none in the tables that it has passed. An append, a
  clean-up or a copy by a recovery keeps this (`SearchKept`), as it keeps what is
  placed (`PagesStay`, `PlacedTwice`).

### The uploads

`S3Proofs` proves for any number of connections, transactions, pages and
statements, with any uploads that fail or are skipped, crashes and faults of the
scripts:

| Theorem | States |
|---|---|
| `ObjectVersion` | `Spec => []ObjectIsVersion` |
| `AckedRecovered` | `Spec => []AckedIsRecovered` |
| `StreamUploaded` | `Spec => []StreamIsUploaded` |
| `ObjectPrefix` | `Spec => []ObjectIsPrefix` |
| `ReplayFaithful` | `Spec => []FaithfulReplay` |

Assumption: `S3Assumption`, which TLC evaluates.

The argument. In mode 1 a file may hold frames of several logs, left by restarts,
and an upload joins two moments of it. What ties them together is that some
logs `L[s]` exist, one for each version `s` that may have begun one (`LogsOk`),
such that every frame in a file is the frame of its own log in that place
(`FileOk`); a restart or an upload that is overtaken only changes which log a
frame is of, and recovery stops at the first frame of another one. So the object
shows over version `s - 1` a commit of `L[s]`, whatever happens to uploads and
statements. The logs are in no variable: `SnapshotInv` says that they exist, and
a commit names new ones (`WithCommit`). For `AckedRecovered` the invariant says
that, while no upload fails and no statements overlap, the page of the database
file is that of the last version once it is copied (`DbShows`), the object has the
log of the WAL file unless an upload of it is due (`Fresh`), and what a recovery
would give back is not before `acked` (`Acked`); a checkpoint is harmless because
each page that it copies is in the object as well (`PageCopied`), and a second run
of the script because copying a log twice is copying it once (`OpenedAgain`).

In mode 2 the object, `cur_aws_off` and the buffer are three pieces
of one stream: `PrefixOk` and `BufferOk` say that what is behind `cur_aws_off` in
the stream is the buffer and that the object ends there, or earlier after a
failure. `SentOk` says that an upload under way is one of the whole buffer to that
offset, which holds as long as no other thread has used the buffer meanwhile
(`overlap`, the exclusion that the properties state). In mode 3 `LogOk` says the
same of the log of statements, for any number of connections that log and upload.
As long as every statement is one that its text repeats, `LogIsRan` says that the
log has the effects of the statements that ran, in their order, and that of one
statement more while a connection is between logging and running it (at most one
is, by `UsesOnce`); `RanIsDb` and `OpenOk` that these are the effects of the
database followed by those of the one open write transaction; `ObjectIsState` that
the object repeats a state that the database had at a commit, or was last appended
to while a transaction was open. `CopyOk` is what the script's steps keep of its
copy of the database. The lemmas about
sequences hold for sequences of anything (`IsSeq`), as the prover gets lost in
sets of records.

### What is only model-checked

- What the theorems `...UntilCrash` say, `ImplementsUntilCrash` among them, after
  a process has been killed. `VersionInv`, on which the others rest, tells versions
  apart by `iChange`, and `walIndexRecover` sets it to zero. The run `wal_crash`
  goes through a death and the recovery after it.
- `IteratorRight`: the merge sort and the heap of `walIteratorInit` are recursive
  over lists, and what they compute for every list is an induction over data too.
- `AtomicCommit`, `KillLosesNothing` and `ReadsCommitted` of `Durability`, where
  recovery from what the disk may hold is again a fold, over the records of a
  journal or the frames of a log.
- `ReadTerminates`, as liveness and ENABLED are beyond the prover.

## Plan

Done: `Wal` with its inductive invariant; its refinement of `WalAbstract`, checked
through a death and proved up to it; the wal-index as memory with hash tables,
torn headers and the iterator, and the proof that headers and tables give the
right answers; power failures with the WAL and with the rollback journal; the
locks of processes and connections, and their refinement of the tables used above
them; the three S3 modes and scripts.
Left, in this order:

1. Proofs about `Wal` after a death: `NoLostUpdate` and the counter bounds, from
   what the checksum of the last commit says where `iChange` does not, and from
   them the refinement.
2. Exclusive mode, `journal_size_limit`, savepoints with a rollback journal.

## Not modelled

B-trees, the virtual machine, the SQL compiler and the query planner are
unchanged SQLite; here they only supply transactions that write pages, and what
they compute is not a matter of states and interleavings. The snapshot API is
not compiled. Extensions (fts, rtree, session), the shell, the tests with their
harness, the tools and the evaluation data are outside of what this repository
changes. They make up most of its lines, so that the part modelled, which decides
what is committed, read, recovered and uploaded, is a small share of the whole.
