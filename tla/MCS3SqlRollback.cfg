\* One connection, a transaction is rolled back.
SPECIFICATION Spec
CONSTANTS
    c1 = c1
    None = None
    Conn = {c1}
    Error = Error
    Stmts <- Plain
    MaxStmt = 3
    MaxSpoilt = 3
    Transactions = TRUE
    Rollbacks = TRUE
    StepFails = FALSE
    UploadFails = FALSE
INVARIANTS
    ReplayIsState
\* After a recovery the model stops.
CHECK_DEADLOCK FALSE
