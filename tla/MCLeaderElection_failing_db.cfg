CONSTANTS
    i1 = i1
    i2 = i2
    i3 = i3
    Instances = {i1, i2, i3}
    Nobody = Nobody
    HEARTBEAT_INTERVAL = 1
    LEASE_TIMEOUT = 8
    DB_OP_TIMEOUT = 1
    MAX_HB_FAILURES = 2
    JITTER = 1
    LATENESS = 1
    DbMayFail = TRUE
SPECIFICATION FairSpec
INVARIANTS
    AtMostOneLeader
    LeaderHoldsLease
PROPERTIES
    LeaseTakenOnlyWhenExpired
    LeadershipSettles
