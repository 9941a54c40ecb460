--------------------------- MODULE MCTaskScheduler ---------------------------
(* Small instances of TaskScheduler for TLC, two in one: two tasks with valid  *)
(* schedules that succeed or time out, and one task with every kind of         *)
(* schedule, schedule changes, every outcome and graceful stops.               *)
EXTENDS TaskScheduler, TLC

CONSTANTS t1, t2

\* The outcomes of the runs of two tasks.
ASSUME ScenarioAssumption == {"success", "timeout"} \subseteq Outcomes

VARIABLE scenario   \* "two": two tasks, valid schedules; "one": one task, everything

MCInit ==
    /\ Init
    /\ scenario \in {"two", "one"}
    /\ rows[t2].kind = "recurring"
    /\ scenario = "two" => \A t \in Tasks : rows[t].kind \in {"once", "recurring"}

\* No schedule is changed, no signal stops the host, runs succeed or time out.
TwoTasks ==
    \/ \E t \in Tasks : \/ ScheduleTask(t) \/ PauseTask(t) \/ ResumeTask(t) \/ CancelTask(t)
                        \/ TimePasses(t) \/ RunTaskWithoutGroup(t) \/ RunTaskBegins(t)
                        \/ \E o \in {"success", "timeout"} : RunTaskEnds(t, o)
    \/ PollReads
    \/ \E refused \in SUBSET Tasks : PollEnqueues(refused)
    \/ Crash
    \/ Restart

\* The second task is never scheduled.
OneTask == Next /\ rows'[t2] = rows[t2]

MCNext ==
    \/ scenario = "two" /\ TwoTasks /\ UNCHANGED scenario
    \/ scenario = "one" /\ OneTask /\ UNCHANGED scenario

MCSpec == MCInit /\ [][MCNext]_<<vars, scenario>> /\ Fairness

-----------------------------------------------------------------------------
(* What holds while schedules are valid and stay as they are.                  *)

\* The tables keep their types, a recurring task always has a next run and a single run
\* is not lost before it was made: run_task's finally block, the recovery at start-up and
\* the IPC operations leave no task active without one.
ScheduleKept ==
    /\ TypeOK
    /\ scenario = "two" => RecurringStaysScheduled /\ OnceNotForgotten

\* The end of a run pauses a task when it completes _MAX_TASK_FAILURES consecutive
\* failures, and only then (AutoPausesInTime, AutoPausesOnlyThen).
AutoPauses ==
    [][\A t \in Tasks :
          (scenario = "two" /\ RunEnds(t) /\ entries[t].kind = "recurring") =>
              /\ streak[t] < streak'[t] /\ streak'[t] = MAX_TASK_FAILURES
                    => rows'[t].status \in {"paused", "absent"}
              /\ rows'[t].status = "paused" => streak'[t] = MAX_TASK_FAILURES]_vars

=============================================================================
