SPECIFICATION FairSpec
CONSTANTS
    Tx = {t1, t2, t3}
    MaxBatch = 2
    MaxCrashes = 1
    Harvests = {}
    Faults = {"io_error", "write_error"}
INVARIANTS
    TypeOK
    AckedStored
PROPERTIES
    RestartShowsAcked
    KeepsPromise
    LoggedIsConverted
CHECK_DEADLOCK FALSE
