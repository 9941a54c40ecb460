SPECIFICATION Spec
CONSTANTS
    r1 = r1
    r2 = r2
    f1 = f1
    NoParent = NoParent
    Runs = {r1, r2}
    Folders = {f1}
    FolderOf <- OneFolder
    MAX_CONCURRENT_CONTAINERS = 1
    DOCKER_CIRCUIT_THRESHOLD = 1
    DOCKER_HALF_OPEN_SECS = 1
    Settings <- SmallSettings
    CrashBound = 1
    AgentOutputs = {"valid", "truncated", "bad_json", "crashed"}
CHECK_DEADLOCK FALSE
INVARIANTS
    RunnerSound
    ContainersContained
PROPERTIES
    EveryCallReturns
    OrphansRemoved
