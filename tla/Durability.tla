----------------------------- MODULE Durability -----------------------------
(***************************************************************************)
(* What survives the death of processes and power failures, in every       *)
(* journal mode: PRAGMA journal_mode selects between the rollback journal  *)
(* (Journal) and the WAL (WalSync), PRAGMA synchronous how often they      *)
(* sync.  MaxTxn is a pair of bounds, one for each.                        *)
(***************************************************************************)
EXTENDS Naturals, Sequences

CONSTANTS Conn, None, MaxPage, MaxTxn, MaxFault,
          Starts,                                           \* rollback journal
          Configs, WriteSets, MaxFrame, MaxCkpt, MaxCall    \* WAL

VARIABLES config, db, dbMay, w, hist, txn, nFault,          \* in every mode
          jrnl, jMay, lock, pc, cache, dbFileVers,          \* rollback journal
          wal, walMay, hdr, nBackfill, ckpt, safe, limbo, nCkpt     \* WAL

commonVars == <<config, db, dbMay, w, hist, txn, nFault>>
journalVars == <<jrnl, jMay, lock, pc, cache, dbFileVers>>
walVars == <<wal, walMay, hdr, nBackfill, ckpt, safe, limbo, nCkpt>>
vars == <<commonVars, journalVars, walVars>>

Journal == INSTANCE Journal WITH MaxTxn <- MaxTxn[1]
Wal == INSTANCE WalSync WITH MaxTxn <- MaxTxn[2]

ASSUME DurabilityAssumption == Journal!JournalConstants /\ Wal!WalSyncConstants

UsesWal == config[1] = "WAL"

Init ==
    \/ /\ Journal!Init
       /\ wal = None /\ walMay = None /\ hdr = None /\ nBackfill = None /\ ckpt = None
       /\ safe = None /\ limbo = None /\ nCkpt = None
    \/ /\ Wal!Init
       /\ jrnl = None /\ jMay = None /\ lock = None /\ pc = None /\ cache = None
       /\ dbFileVers = None

Next ==
    \/ ~UsesWal /\ Journal!Next /\ UNCHANGED walVars
    \/ UsesWal /\ Wal!Next /\ UNCHANGED journalVars

Spec == Init /\ [][Next]_vars

(***************************************************************************)
(* Properties                                                              *)
(***************************************************************************)
\* Whatever the disk holds when the power fails, in the middle of a commit,
\* a spill, a rollback, a checkpoint or a recovery, the next connection finds
\* a committed image, all of it and nothing else, and no older one than the
\* mode and the level promise (syncJournal, pager_end_transaction,
\* sqlite3WalFrames, walCheckpoint).
AtomicCommit ==
    /\ ~UsesWal => Journal!AtomicCommit
    /\ UsesWal => Wal!AtomicCommit

\* If processes die and the machine does not, the next connection finds the
\* last commit at every level: what is left in the journal or in the WAL is
\* told apart from what has been committed (hasHotJournal, readJournalHdr,
\* walIndexRecover).
KillLosesNothing ==
    /\ ~UsesWal => Journal!KillLosesNothing
    /\ UsesWal => Wal!KillLosesNothing

\* A reader of a database with a rollback journal sees the last commit, in
\* the pages of its cache and in the ones it has yet to read, whoever has
\* committed, rolled back or died since (sqlite3PagerSharedLock).
ReadsCommitted == ~UsesWal => Journal!ReadsCommitted
=============================================================================
