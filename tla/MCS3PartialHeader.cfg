\* One connection, every upload succeeds, nothing goes wrong in the script.
SPECIFICATION Spec
CONSTANTS
    c1 = c1
    None = None
    Conn = {c1}
    MaxPage = 2
    WriteSets <- SomePages
    MaxTxn = 2
    MaxRead = 0
    MaxCkpt = 1
    UploadFails = FALSE
    Faults = {}
INVARIANTS
    AckedIsRecovered
\* After a recovery the model stops.
CHECK_DEADLOCK FALSE
