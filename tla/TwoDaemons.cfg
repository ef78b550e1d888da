SPECIFICATION Spec
CONSTANTS
    Daemon = {d1, d2, d3}
    Client = {c1}
    Faults = {"crash", "lock_race"}
SYMMETRY Symmetry
INVARIANTS
    OneDaemon
CHECK_DEADLOCK FALSE
