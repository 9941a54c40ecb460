CONSTANTS
    i1 = i1
    i2 = i2
    i3 = i3
    Instances = {i1, i2}
    Nobody = Nobody
    HEARTBEAT_INTERVAL = 2
    LEASE_TIMEOUT = 6
    DB_OP_TIMEOUT = 1
    MAX_HB_FAILURES = 3
    JITTER = 1
    LATENESS = 0
    DbMayFail = TRUE
SPECIFICATION Spec
SYMMETRY Interchangeable
INVARIANTS
    AtMostOneLeader
