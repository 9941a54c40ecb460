CONSTANTS
    g1 = g1
    g2 = g2
    m1 = m1
    m2 = m2
    m3 = m3
    NoTask = NoTask
    TaskIds = {}
    TaskJid <- NoTaskJid
    Outcomes = {"success", "failure"}
    MAX_PENDING_TASKS_PER_GROUP = 1
    MAX_WAITING_GROUPS = 2
    MAX_RETRIES = 1
    Jids = {g1, g2}
    Messages = {m1, m3}
    MsgJid <- LastInG2
    Triggers = {m1, m3}
    InitiallyRegistered = {g1, g2}
    ContainerFailures = {}
    SameMillisecond = FALSE
    GROUP_MAX_FAILS = 1
    TimeBound = 2
    CrashBound = 1
    MAX_CONCURRENT_CONTAINERS = 2
SPECIFICATION PipelineSpec
CHECK_DEADLOCK FALSE
INVARIANTS
    NoMessageSkipped
