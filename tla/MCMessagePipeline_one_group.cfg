CONSTANTS
    g1 = g1
    g2 = g2
    m1 = m1
    m2 = m2
    m3 = m3
    NoTask = NoTask
    TaskIds = {}
    TaskJid <- NoTaskJid
    Outcomes = {"success", "failure"}
    MAX_PENDING_TASKS_PER_GROUP = 1
    MAX_WAITING_GROUPS = 2
    MAX_RETRIES = 1
    Jids = {g1}
    Messages = {m1, m2, m3}
    MsgJid <- AllInG1
    Triggers = {m1, m3}
    InitiallyRegistered = {}
    ContainerFailures = {"error", "raise"}
    SameMillisecond = FALSE
    GROUP_MAX_FAILS = 2
    TimeBound = 2
    CrashBound = 1
    MAX_CONCURRENT_CONTAINERS = 1
SPECIFICATION FairPipelineSpec
CHECK_DEADLOCK FALSE

    
    
PROPERTIES
    EveryMessageHandled
