SPECIFICATION FairSpec
CONSTANTS
    Tx = {t1, t2}
    MaxBatch = 2
    MaxCrashes = 0
    Harvests = {t1}
    Faults = {}
PROPERTIES
    LoggedIsConverted
CHECK_DEADLOCK FALSE
