SPECIFICATION Spec
CONSTANTS
    Tx = {t1, t2, t3}
    MaxBatch = 2
    MaxCrashes = 1
    Faults = {"torn_frame"}
INVARIANTS
    AckedDurable
CHECK_DEADLOCK FALSE
