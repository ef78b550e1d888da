SPECIFICATION FairSpec
CONSTANTS
    t1 = t1
    t2 = t2
    Tx = {t1, t2}
    Logged = {t2}
    Proc = {p1, p2}
    Daemon = {p1}
    Shards = 2
    ShardOf <- TwoShards
    Old = 3
    MaxOpens = 3
    Faults = {}
INVARIANTS
    TypeOK
    OpenSeesAll
    LogIsReplayed
    KnownIsLoaded
    FinishedOnly
PROPERTIES
    EveryOperationEnds
CHECK_DEADLOCK FALSE
