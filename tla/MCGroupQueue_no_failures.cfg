CONSTANTS
    g1 = g1
    g2 = g2
    g3 = g3
    t1 = t1
    t2 = t2
    Jids = {g1, g2, g3}
    TaskIds = {t1, t2}
    NoTask = NoTask
    TaskJid <- AllToG1
    Outcomes = {"success"}
    MAX_CONCURRENT_CONTAINERS = 2
    MAX_RETRIES = 1
    MAX_PENDING_TASKS_PER_GROUP = 1
    MAX_WAITING_GROUPS = 2
    RetryTimerBound = 2
SPECIFICATION FairQueueSpec
INVARIANTS
    QueueSound
PROPERTIES
    TasksFirst
    DrainsWhenCallersStop
