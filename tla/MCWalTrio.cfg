\* A writer, a checkpointer and a reader at the same time.
SPECIFICATION Spec
CONSTANTS
    c1 = c1
    c2 = c2
    c3 = c3
    None = None
    Conn = {c1, c2, c3}
    Readers = {c1, c3}
    Writers = {c1}
    Checkpointers = {c2}
    Modes = {"PASSIVE"}
    Writes <- OnePage
    Spills = {}
    WAL_NREADER = 2
    MaxPage = 1
    MaxTxn = 2
    MaxFrame = 2
    MaxSalt = 4
    MaxCrash = 0
    Reopen = TRUE
    CrashInRestart = FALSE
    CkptPreempt = FALSE
INVARIANTS
    SnapshotIsolation
    AttemptedBounded
PROPERTIES
    MarkIsStable
    BackfillOwner
