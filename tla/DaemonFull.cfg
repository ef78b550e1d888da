SPECIFICATION Spec
CONSTANTS
    Tx = {t1, t2, t3}
    MaxBatch = 2
    MaxCrashes = 1
    Harvests = {t1}
    Faults = {}
SYMMETRY Symmetry
INVARIANTS
    FilesArePrefix
    HarvestedHasFile
PROPERTIES
    FullReadsAll
CHECK_DEADLOCK FALSE
