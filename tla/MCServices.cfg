CONSTANTS
    Senders = {"u", "x"}
    Chats = {"g"}
    Texts = {"hi", "inj"}
    Injections = {"inj"}
    Allowlist = {}
    Grants = {"u"}
    SENDER_MAX = 2
    GROUP_MAX = 3
    WINDOW = 1
    SENDERS_MAX = 1
    DEDUP_TTL = 2
    DEDUP_MAX = 2
    SPAM_THRESHOLD = 2
    THREAT_BLOCK_THRESHOLD = 2
    HOUR = 3
    QUARTER = 4
    MaxDeliveries = 5
    MaxInFaults = 1
    Replies = {"r1", "r2"}
    ChunksOf <- TwoChunks
    ChatOf <- OneChat
    Unroutable = {"r2"}
    OutChats = {"g"}
    CHUNK_MAX_RETRIES = 1
    PortalSessions = {"s1", "s2"}
    MAX_SESSIONS = 1
    MAX_SESSION_MESSAGES = 2
    SESSION_TTL = 1
    MaxOpenPolls = 2
    MaxPosts = 1
    MaxOutFaults = 2
    WsAgents = {"a", "b"}
    Conns = {"c1", "c2"}
    MAX_CONNECTIONS = 1
    TokenRequired = TRUE
    EvoGroups = {"g"}
    RunKinds <- AllKinds
    MIN_SAMPLES = 3
    StartRuns <- Weeks
    StartGenomes <- Genomes
    INTERVAL <- Intervals
    MaxRuns = 4
    MaxRunChanges = 1
    MaxCycles = 2
    MaxEvoFaults = 1
    DevGroups = {"main", "g"}
    DashboardGroup = "main"
    Sessions = {"s1"}
    MaxRequests = 2
    MaxCancels = 1
    MaxDevCrashes = 1
    Procs = {"host", "cli"}
    Skills <- AllSkills
    Files <- AllFiles
    BaseFiles = {"core"}
    Adds <- Added
    Modifies <- Modified
    Deletes <- NoneOf
    Structured <- Merged
    Depends <- Needed
    Conflicts <- NoneOf
    Env = "env"
    HasTools = {"voice"}
    HasPost = {"mail"}
    HasTest = {"mail", "voice"}
    Faults = {"file_ops", "no_file", "conflict", "post", "test", "late_exception", "no_dir", "replay", "patch", "crash"}
    FaultBound = 2
    LockProcs = {"host", "cli"}
SPECIFICATION ServiceSpec
CONSTRAINT Covered
CHECK_DEADLOCK FALSE
INVARIANTS
    DeliverySound
    BridgeSound
    
    

    
    
    
