SPECIFICATION FairSpec
CONSTANTS
    Daemon = {d1, d2, d3}
    Client = {c1}
    Faults = {"crash", "start_error"}
INVARIANTS
    TypeOK
    OneDaemon
    ServingIsReachable
    CommandRuns
PROPERTIES
    EveryStartEnds
    EveryCommandEnds
CHECK_DEADLOCK FALSE
