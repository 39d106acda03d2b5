\* Every mode: two connections, failing uploads, checkpoints, every kind of
\* statement, and every fault of the scripts.
SPECIFICATION Spec
CONSTANTS
    c1 = c1
    c2 = c2
    None = None
    Error = Error
    Conn = {c1, c2}
    MaxPage = 2
    WriteSets <- SomePages
    UploadFails = TRUE
    MaxCkpt = 1
    MaxTxn <- Txns
    MaxRead <- Reads
    ScriptFaults <- EveryFault
    WalLost = TRUE
    MaxKill = 1
    Stmts <- Statements
    MaxStmt = 3
    MaxSpoilt = 2
    Transactions = TRUE
    Rollbacks = TRUE
    StepFails = TRUE
SYMMETRY Symmetry
INVARIANTS
    AckedIsRecovered
    ObjectIsVersion
    StreamIsUploaded
    ObjectIsPrefix
    FaithfulReplay
\* After a recovery the model stops.
CHECK_DEADLOCK FALSE
