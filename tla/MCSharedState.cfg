\* A writer that spills, rolls back, restarts the log and dies, next to a
\* reader or a checkpointer; and two processes with two connections each that
\* lock, close, die, and lose their machine.
SPECIFICATION Spec
CONSTANTS
    r1 = r1
    a1 = a1
    a2 = a2
    b1 = b1
    b2 = b2
    None = None
    HASHTABLE_NPAGE = 3
    HASHTABLE_NPAGE_ONE = 2
    HASHTABLE_HASH_1 = 383
    Readers = {r1}
    MaxPage = 2
    MaxFrame = 3
    KillInMemset = FALSE
    MaxReading = 1
    MaxRestart = 1
    MaxCrash = 1
    Conn = {a1, a2, b1, b2}
    pid <- Processes
    Slots = {0, 1}
    Ranges <- SlotRanges
INVARIANTS
    TypeOK
    SnapshotIsCommit
    LookupRight
    WriterLookup
    IteratorRight
    LockArrayOk
    OneWalIndex
    LocksAgree
    ReservedIsSeen
PROPERTIES
    ImplementsFileLocks
    ImplementsShmLocks
