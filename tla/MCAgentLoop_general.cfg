SPECIFICATION AgentSpec
CONSTANTS
    MaxIter = 4
    MaxHistory = 4
    MaxAttempts = 3
    PoolSize = 2
    NoToolCap = 3
    NotifyTurns = 2
    OnlyNotifyTurns = 1
    MaxFails = 1
    Priors = {1}
    FaultyTurns = {1}
CHECK_DEADLOCK FALSE
INVARIANTS
    AgentSound
PROPERTIES
    AgentAnswers
