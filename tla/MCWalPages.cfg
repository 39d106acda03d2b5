\* Connections that stay open and keep their page cache, a database that
\* shrinks and grows, pages spilled before the commit.
SPECIFICATION Spec
CONSTANTS
    c1 = c1
    c2 = c2
    None = None
    Conn = {c1, c2}
    Readers = {c1, c2}
    Writers = {c1}
    Checkpointers = {c2}
    Modes = {"PASSIVE"}
    Writes <- GrowShrink
    Spills = {2}
    WAL_NREADER = 2
    MaxPage = 2
    MaxTxn = 2
    MaxFrame = 3
    MaxSalt = 4
    MaxCrash = 0
    Reopen = FALSE
    CrashInRestart = FALSE
    CkptPreempt = FALSE
INVARIANTS
    CacheIsFresh
    TypeOK
    SnapshotIsolation
