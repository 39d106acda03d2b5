\* Two connections that read, write and checkpoint.  FULL does what RESTART
\* does when it finds a reader.
SPECIFICATION Spec
CONSTANTS
    c1 = c1
    c2 = c2
    None = None
    Conn = {c1, c2}
    Readers = {c1, c2}
    Writers = {c1, c2}
    Checkpointers = {c1, c2}
    Modes = {"PASSIVE", "RESTART", "TRUNCATE"}
    Writes <- BothPages
    Spills = {}
    WAL_NREADER = 2
    MaxPage = 2
    MaxTxn = 2
    MaxFrame = 4
    MaxSalt = 4
    MaxCrash = 0
    Reopen = TRUE
    CrashInRestart = FALSE
    CkptPreempt = FALSE
SYMMETRY Symmetry
INVARIANTS
    NoLostUpdate
PROPERTIES
    ImplementsAbstract
