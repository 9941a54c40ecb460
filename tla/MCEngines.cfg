CONSTANTS
    WfSteps = {"a", "b", "c", "d"}
    Graphs <- SmallGraphs
    WfRetries = 1
    Memories = {"m1", "m2"}
    Logs = {"l1"}
    OwnerOf <- Owners
    ScopeOf <- Scopes
    HotMax = 2
    BATCH_SIZE = 2
    MaxDbFaults = 1
    MaxMemCrashes = 1
    Updaters = {"auto", "ipc"}
    Overlap = FALSE
    LastCommit = 3
    Broken = {2}
    Modes = {"worktree", "inplace"}
    AiModes = {"off", "no_key", "human", "inline"}
    MAX_RETRIES = 2
    Faults = {"fetch", "remove", "add", "test", "crash", "restart_host"}
    FaultBound = 2
    Folders = {"main", "g"}
    MainFolder = "main"
    Requests = {"r1", "r2", "r3"}
    Plans <- SmallPlans
    _IPC_MAX_FILES_PER_CYCLE = 1
    MaxCrashes = 1
SPECIFICATION EngineSpec
CHECK_DEADLOCK FALSE
INVARIANTS
    WorkflowSound
    
    
PROPERTIES
    EveryWorkflowEnds
    LogsVectorised
    
    IpcSound
    IpcDrains
