\* Every reader gets its snapshot or an error.  The scheduler is not
\* restricted (CkptPreempt).
SPECIFICATION FairSpec
CONSTANTS
    c1 = c1
    c2 = c2
    None = None
    Conn = {c1, c2}
    Readers = {c1, c2}
    Writers = {c1}
    Checkpointers = {c2}
    Modes = {"PASSIVE"}
    Writes <- OnePage
    Spills = {}
    WAL_NREADER = 3
    MaxPage = 1
    MaxTxn = 1
    MaxFrame = 2
    MaxSalt = 4
    MaxCrash = 1
    Reopen = TRUE
    CrashInRestart = FALSE
    CkptPreempt = TRUE
PROPERTIES
    ReadTerminates
