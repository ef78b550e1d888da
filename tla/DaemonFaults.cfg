SPECIFICATION FairSpec
CONSTANTS
    Tx = {t1, t2}
    MaxBatch = 2
    MaxCrashes = 2
    Harvests = {t1}
    Faults = {"io_error", "torn_frame", "write_error", "refresh"}
INVARIANTS
    ReadYourCommits
PROPERTIES
    StoredStays
    HarvestAnswered
CHECK_DEADLOCK FALSE
