\* One connection, one upload fails.
SPECIFICATION Spec
CONSTANTS
    c1 = c1
    Conn = {c1}
    MaxPage = 2
    WriteSets <- SomePages
    MaxTxn = 3
    MaxRead = 0
    MaxCkpt = 1
    UploadFails = TRUE
    WalLost = FALSE
    Faults = {}
    MaxKill = 0

INVARIANTS
    RecoveredIsVersion
\* After a recovery the model stops.
CHECK_DEADLOCK FALSE
