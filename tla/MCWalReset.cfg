\* A checkpointer loads nBackfill after the log was restarted; the new log is
\* filled, and restarted in turn.
SPECIFICATION Spec
CONSTANTS
    c1 = c1
    c2 = c2
    None = None
    Conn = {c1, c2}
    Readers = {c1}
    Writers = {c1}
    Checkpointers = {c2}
    Modes = {"PASSIVE"}
    Writes <- OnePage
    Spills = {}
    WAL_NREADER = 2
    MaxPage = 1
    MaxTxn = 3
    MaxFrame = 2
    MaxSalt = 4
    MaxCrash = 0
    Reopen = TRUE
    CrashInRestart = FALSE
    CkptPreempt = TRUE
INVARIANTS
    Recoverable
