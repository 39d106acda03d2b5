\* A writer and a checkpointer, one of them killed at any step but the store of
\* nBackfill in walRestartHdr (CrashInRestart), or both.
SPECIFICATION Spec
CONSTANTS
    c1 = c1
    c2 = c2
    None = None
    Conn = {c1, c2}
    Readers = {c1}
    Writers = {c1}
    Checkpointers = {c2}
    Modes = {"TRUNCATE"}
    Writes <- BothPages
    Spills = {2}
    WAL_NREADER = 2
    MaxPage = 2
    MaxTxn = 2
    MaxFrame = 4
    MaxSalt = 4
    MaxCrash = 1
    Reopen = TRUE
    CrashInRestart = FALSE
    CkptPreempt = FALSE
INVARIANTS
    Recoverable
    BackfillBounded
    AttemptedCovers
    LockDiscipline
    LogCoversHdr
PROPERTIES
    ImplementsAbstract
