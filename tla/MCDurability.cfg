\* Two connections with a rollback journal, or a writer and a checkpointer in
\* WAL mode; a process is killed or the power fails at any step.
SPECIFICATION Spec
CONSTANTS
    c1 = c1
    c2 = c2
    None = None
    Conn = {c1, c2}
    Starts <- MCStarts
    Configs <- MCConfigs
    WriteSets <- MCWriteSets
    MaxPage = 2
    MaxTxn <- MCMaxTxn
    MaxFault = 1
    MaxFrame = 3
    MaxCkpt = 1
    MaxCall = 2
SYMMETRY Symmetry
INVARIANTS
    AtomicCommit
    KillLosesNothing
    ReadsCommitted
