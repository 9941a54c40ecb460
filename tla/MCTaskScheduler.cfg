CONSTANTS
    t1 = t1
    t2 = t2
    Tasks = {t1, t2}
    NewKinds = {"once", "recurring", "nonpositive", "unparsable"}
    UpdateKinds = {"once", "recurring", "nonpositive", "unparsable"}
    Outcomes = {"success", "reply_error", "null_result", "timeout", "exception"}
    GracefulStops = TRUE
    MAX_TASK_FAILURES = 2
SPECIFICATION MCSpec
INVARIANTS
    RunningIsBacked
    PauseHolds
    ScheduleKept
PROPERTIES
    AutoPauses
    DueTaskDispatched
