SPECIFICATION FairSpec
CONSTANTS
    Tx = {t1, t2, t3}
    MaxBatch = 2
    MaxCrashes = 2
    Faults = {"io_error"}
INVARIANTS
    TypeOK
    AckedDurable
    AckedVisible
    VisibleLogged
    AckedSynced
PROPERTIES
    ImplementsDurableCommit
    EveryRequestAnswered
CHECK_DEADLOCK FALSE
