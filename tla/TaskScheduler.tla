---------------------------- MODULE TaskScheduler ----------------------------
(***************************************************************************)
(* host/task_scheduler.py over the scheduled_tasks and task_run_logs       *)
(* tables: polling, dispatch through the group queue, the end of a run,    *)
(* the IPC operations on a task, and what a crash, a graceful stop and a   *)
(* restart make of the rows.                                               *)
(*                                                                         *)
(* Wall-clock time is kept as what get_due_tasks sees of it: next_run is   *)
(* NULL, in the future, or past.  compute_next_run returns a time strictly *)
(* in the future or None.  The group queue is kept as what enqueue_task    *)
(* promises: one entry per task id, queued or running; GroupQueue models   *)
(* the queue itself.  DB calls are synchronous on the event loop, so a     *)
(* handler is one action up to its next await.                             *)
(*                                                                         *)
(* A definition X preceded by one named X<Variant> has a plausible slip    *)
(* beside it, never part of the specification.                             *)
(***************************************************************************)
EXTENDS Integers, Sequences, FiniteSets

CONSTANTS
    Tasks,              \* task ids; ids are fresh uuids, never used again
    NewKinds,           \* kinds of schedule a task may be created with
    UpdateKinds,        \* kinds update_task may change a schedule to
    Outcomes,           \* how a run may end, see RunOutcomes
    GracefulStops,      \* whether the host may be stopped by a signal
    MAX_TASK_FAILURES   \* _MAX_TASK_FAILURES

\* "nonpositive" is an interval <= 0, which the IPC handler accepts and the
\* scheduler rejects; "unparsable" is rejected by both.
Kinds == {"once", "recurring", "nonpositive", "unparsable"}

\* reply_error: the agent's answer has status "error" and a string result or
\* none; null_result: its result is None, whose slice raises TypeError.
RunOutcomes == {"success", "reply_error", "null_result", "timeout", "exception"}

ASSUME SchedulerAssumption ==
    /\ NewKinds \subseteq Kinds
    /\ UpdateKinds \subseteq Kinds
    /\ Outcomes \subseteq RunOutcomes
    /\ GracefulStops \in BOOLEAN
    /\ MAX_TASK_FAILURES \in Nat \ {0}

VARIABLES
    rows,       \* scheduled_tasks: the row of each task
    recent,     \* the newest MAX_TASK_FAILURES statuses in task_run_logs, newest first
    entries,    \* the queue's entry of each task, with the schedule it was read with
    snapshot,   \* the due rows read by a poll that has not resumed yet
    polling,    \* the scheduler awaits async_get_due_tasks
    host,       \* the host process
    held,       \* history: tasks paused while at rest and not resumed since
    streak,     \* history: consecutive failed runs, up to MAX_TASK_FAILURES
    ran         \* history: tasks that have begun a run

dbVars == <<rows, recent>>
loopVars == <<snapshot, polling, host>>
historyVars == <<held, streak, ran>>
vars == <<rows, recent, entries, snapshot, polling, host, held, streak, ran>>

Row == [status : {"absent", "active", "running", "paused", "failed"},
        kind : Kinds, next_run : {"none", "future", "past"}]
Entry == [state : {"none", "queued", "running"}, kind : Kinds]

\* An id not in the table: a task not created yet, or cancelled for good.
NoRow(kind) == [status |-> "absent", kind |-> kind, next_run |-> "none"]
NewRow(kind) == [status |-> "absent", kind |-> kind, next_run |-> "future"]
NoEntry == [state |-> "none", kind |-> "once"]

\* A row not yet created is told from a cancelled one by its next_run.
Fresh(t) == rows[t].status = "absent" /\ rows[t].next_run = "future"
Exists(t) == rows[t].status # "absent"

Init ==
    /\ rows \in [Tasks -> {NewRow(k) : k \in NewKinds}]
    /\ recent = [t \in Tasks |-> <<>>]
    /\ entries = [t \in Tasks |-> NoEntry]
    /\ snapshot = {}
    /\ polling = FALSE
    /\ host = "up"
    /\ held = {}
    /\ streak = [t \in Tasks |-> 0]
    /\ ran = {}

-----------------------------------------------------------------------------
(* The database. *)

\* UPDATE ... WHERE id = t: nothing happens when the row is gone.
UpdateTask(t, row) ==
    rows' = IF Exists(t) THEN [rows EXCEPT ![t] = row] ELSE rows

DueWhenever(t) == rows[t].status # "absent" /\ rows[t].next_run = "past"

Due(t) == rows[t].status = "active" /\ rows[t].next_run = "past"

\* log_task_run, as the failure count's query with its LIMIT sees the table.
Logged(log, statuses) ==
    LET all == statuses \o log
    IN  SubSeq(all, 1, IF Len(all) < MAX_TASK_FAILURES THEN Len(all) ELSE MAX_TASK_FAILURES)

\* _count_recent_failures: the length of the leading run of failures.
CountRecentFailures(log) ==
    CHOOSE n \in 0..Len(log) :
        /\ \A i \in 1..n : log[i] \in {"error", "timeout"}
        /\ n = Len(log) \/ log[n + 1] \notin {"error", "timeout"}

\* compute_next_run, after a run.
NextRunAfter(kind) == IF kind = "recurring" THEN "future" ELSE "none"

\* ipc_watcher._compute_next_run, for a schedule as given: "once" may name a
\* time that is over.
FirstRun(kind) ==
    CASE kind = "once" -> {"future", "past"}
      [] kind = "recurring" -> {"future"}
      [] kind = "nonpositive" -> {"past"}
      [] kind = "unparsable" -> {"none"}

-----------------------------------------------------------------------------
(* IPC operations. *)

ScheduleTask(t) ==
    /\ host # "down"
    /\ Fresh(t)
    /\ \E n \in FirstRun(rows[t].kind) :
          rows' = [rows EXCEPT ![t].status = "active", ![t].next_run = n]
    /\ UNCHANGED <<recent, entries, loopVars, historyVars>>

\* Nothing of t is queued, running or read by the poll.
AtRest(t) == entries[t].state = "none" /\ \A d \in snapshot : d.task # t

PauseTask(t) ==
    /\ host # "down"
    /\ Exists(t)
    /\ rows' = [rows EXCEPT ![t].status = "paused"]
    /\ held' = IF AtRest(t) THEN held \cup {t} ELSE held
    /\ UNCHANGED <<recent, entries, loopVars, streak, ran>>

ResumeTask(t) ==
    /\ host # "down"
    /\ Exists(t)
    /\ rows' = [rows EXCEPT ![t].status = "active"]
    /\ held' = held \ {t}
    /\ UNCHANGED <<recent, entries, loopVars, streak, ran>>

CancelTask(t) ==
    /\ host # "down"
    /\ Exists(t)
    /\ rows' = [rows EXCEPT ![t] = NoRow(rows[t].kind)]
    /\ UNCHANGED <<recent, entries, loopVars, historyVars>>

\* update_task with a new schedule; other fields do not matter here.
ChangeSchedule(t) ==
    /\ host # "down"
    /\ Exists(t)
    /\ \E k \in UpdateKinds : \E n \in FirstRun(k) :
          rows' = [rows EXCEPT ![t].kind = k, ![t].next_run = n]
    /\ UNCHANGED <<recent, entries, loopVars, historyVars>>

-----------------------------------------------------------------------------
(* The scheduler loop. *)

TimePasses(t) ==
    /\ Exists(t)
    /\ rows[t].next_run = "future"
    /\ rows' = [rows EXCEPT ![t].next_run = "past"]
    /\ UNCHANGED <<recent, entries, loopVars, historyVars>>

\* get_due_tasks in a worker thread.
PollReads ==
    /\ host = "up"
    /\ ~polling
    /\ polling' = TRUE
    /\ snapshot' = {[task |-> t, kind |-> rows[t].kind] : t \in {u \in Tasks : Due(u)}}
    /\ UNCHANGED <<dbVars, entries, host, historyVars>>

PollEnqueuesStuck(refused) ==
    /\ host = "up"
    /\ polling
    /\ snapshot' = {}
    /\ UNCHANGED <<dbVars, entries, polling, host, historyVars>>

\* The loop resumes and enqueues what it read.  enqueue_task ignores a task
\* that is queued or running, may refuse one when the queue is full, and
\* refuses all once the host is stopping.
PollEnqueues(refused) ==
    /\ host # "down"
    /\ polling
    /\ entries' = [t \in Tasks |->
          IF /\ host = "up"
             /\ t \notin refused
             /\ entries[t].state = "none"
             /\ \E d \in snapshot : d.task = t
          THEN [state |-> "queued", kind |-> (CHOOSE d \in snapshot : d.task = t).kind]
          ELSE entries[t]]
    /\ polling' = FALSE
    /\ snapshot' = {}
    /\ UNCHANGED <<dbVars, host, historyVars>>

-----------------------------------------------------------------------------
(* run_task. *)

RunTaskWithoutGroupDrops(t) ==
    /\ host # "down"
    /\ entries[t].state = "queued"
    /\ UpdateTask(t, [rows[t] EXCEPT !.next_run = "none"])
    /\ entries' = [entries EXCEPT ![t] = NoEntry]
    /\ UNCHANGED <<recent, loopVars, historyVars>>

\* The group is not registered: an hour's back-off and no run.
RunTaskWithoutGroup(t) ==
    /\ host # "down"
    /\ entries[t].state = "queued"
    /\ UpdateTask(t, [rows[t] EXCEPT !.next_run = "future"])
    /\ entries' = [entries EXCEPT ![t] = NoEntry]
    /\ UNCHANGED <<recent, loopVars, historyVars>>

RunTaskBegins(t) ==
    /\ host # "down"
    /\ entries[t].state = "queued"
    /\ UpdateTask(t, [rows[t] EXCEPT !.status = "running"])
    /\ entries' = [entries EXCEPT ![t].state = "running"]
    /\ ran' = ran \cup {t}
    /\ UNCHANGED <<recent, loopVars, held, streak>>

\* The rows a run adds to task_run_logs.  A None result is logged with the
\* reply's status first, and again by the handler of the TypeError.
LogOf(outcome) ==
    CASE outcome = "success" -> <<"success">>
      [] outcome = "reply_error" -> <<"error">>
      [] outcome = "null_result" -> <<"error", "error">>
      [] outcome = "timeout" -> <<"timeout">>
      [] outcome = "exception" -> <<"error">>

\* failed = True in run_task
Raised(outcome) == outcome \in {"null_result", "timeout", "exception"}

FinalRowNeverPaused(kind, outcome, log, row) ==
    [row EXCEPT !.status = "active", !.next_run = NextRunAfter(kind)]

FinalRowEager(kind, outcome, log, row) ==
    [row EXCEPT !.status = IF Raised(outcome) THEN "paused" ELSE "active",
                !.next_run = NextRunAfter(kind)]

FinalRowNotAdvanced(kind, outcome, log, row) ==
    [row EXCEPT !.status = "active",
                !.next_run = IF Raised(outcome) THEN "none" ELSE NextRunAfter(kind)]

\* The finally block: the row after a run of a task read with the given kind,
\* log being the run log with this run in it.
FinalRow(kind, outcome, log, row) ==
    LET next == NextRunAfter(kind)
    IN  IF next = "none" /\ kind # "once"
        THEN [row EXCEPT !.status = "paused", !.next_run = "none"]
        ELSE IF Raised(outcome) /\ CountRecentFailures(log) >= MAX_TASK_FAILURES
        THEN [row EXCEPT !.status = "paused", !.next_run = next]
        ELSE [row EXCEPT !.status = "active", !.next_run = next]

Failed(outcome) == outcome # "success"

RunTaskEnds(t, outcome) ==
    LET log == Logged(recent[t], LogOf(outcome))
    IN  /\ host # "down"
        /\ entries[t].state = "running"
        /\ UpdateTask(t, FinalRow(entries[t].kind, outcome, log, rows[t]))
        /\ recent' = [recent EXCEPT ![t] = log]
        /\ entries' = [entries EXCEPT ![t] = NoEntry]
        /\ streak' = [streak EXCEPT ![t] =
                        IF ~Failed(outcome) THEN 0
                        ELSE IF @ = MAX_TASK_FAILURES THEN @ ELSE @ + 1]
        /\ UNCHANGED <<loopVars, held, ran>>

\* CancelledError: no except clause applies, next_run_ts is still None when
\* the finally block looks at it, and nothing is logged.
RunTaskCancelled(t) ==
    /\ host = "stopping"
    /\ entries[t].state = "running"
    /\ UpdateTask(t, [rows[t] EXCEPT
          !.status = IF entries[t].kind = "once" THEN "active" ELSE "paused",
          !.next_run = "none"])
    /\ entries' = [entries EXCEPT ![t] = NoEntry]
    /\ UNCHANGED <<recent, loopVars, historyVars>>

-----------------------------------------------------------------------------
(* The host process. *)

Stop ==
    /\ GracefulStops
    /\ host = "up"
    /\ host' = "stopping"
    /\ UNCHANGED <<dbVars, entries, snapshot, polling, historyVars>>

\* The end of the process, from a graceful stop or at any moment: the queue
\* and the poll are gone, the rows stay.
Crash ==
    /\ host # "down"
    /\ host' = "down"
    /\ entries' = [t \in Tasks |-> NoEntry]
    /\ snapshot' = {}
    /\ polling' = FALSE
    /\ UNCHANGED <<dbVars, historyVars>>

RecoveredKept(row) == row

\* recover_stale_running_tasks, one row.
Recovered(row) ==
    CASE row.status # "running" -> row
      [] row.status = "running" /\ row.kind = "once" -> [row EXCEPT !.status = "failed"]
      [] row.status = "running" /\ row.kind # "once" ->
            [row EXCEPT !.status = "active", !.next_run = NextRunAfter(row.kind)]

Restart ==
    /\ host = "down"
    /\ host' = "up"
    /\ rows' = [t \in Tasks |-> Recovered(rows[t])]
    /\ UNCHANGED <<recent, entries, snapshot, polling, historyVars>>

Next ==
    \/ \E t \in Tasks : ScheduleTask(t)
    \/ \E t \in Tasks : PauseTask(t)
    \/ \E t \in Tasks : ResumeTask(t)
    \/ \E t \in Tasks : CancelTask(t)
    \/ \E t \in Tasks : ChangeSchedule(t)
    \/ \E t \in Tasks : TimePasses(t)
    \/ PollReads
    \/ \E refused \in SUBSET Tasks : PollEnqueues(refused)
    \/ \E t \in Tasks : RunTaskWithoutGroup(t)
    \/ \E t \in Tasks : RunTaskBegins(t)
    \/ \E t \in Tasks : \E o \in Outcomes : RunTaskEnds(t, o)
    \/ \E t \in Tasks : RunTaskCancelled(t)
    \/ Stop
    \/ Crash
    \/ Restart

Spec == Init /\ [][Next]_vars

-----------------------------------------------------------------------------
(* Properties. *)

\* The type invariant of the scheduler's tables and of its process state.
TypeOK ==
    /\ rows \in [Tasks -> Row]
    /\ recent \in [Tasks -> Seq({"success", "error", "timeout"})]
    /\ entries \in [Tasks -> Entry]
    /\ snapshot \subseteq [task : Tasks, kind : Kinds]
    /\ polling \in BOOLEAN
    /\ host \in {"up", "stopping", "down"}
    /\ held \subseteq Tasks
    /\ streak \in [Tasks -> 0..MAX_TASK_FAILURES]
    /\ ran \subseteq Tasks

\* No row is left in status 'running' without a run that will take it out of
\* it: finally and the start-up recovery between them cover every way a run
\* can end, and get_due_tasks would never pick such a row up again.
RunningIsBacked ==
    \A t \in Tasks : rows[t].status = "running" =>
        host = "down" \/ entries[t].state = "running"

\* An active recurring task always has a time for its next run ("next_run is
\* ALWAYS advanced regardless of success or failure").
RecurringStaysScheduled ==
    \A t \in Tasks :
        rows[t].status = "active" /\ rows[t].kind = "recurring"
            => rows[t].next_run # "none"

\* A single run is not lost before it was made: while it is active and has
\* not run, it is due some time.
OnceNotForgotten ==
    \A t \in Tasks :
        rows[t].status = "active" /\ rows[t].kind = "once" /\ t \notin ran
            => rows[t].next_run # "none" \/ entries[t].state = "running"

\* A run of t ends while the host lives on.
RunEnds(t) ==
    entries[t].state = "running" /\ entries'[t].state = "none" /\ host' # "down"

\* The end of a run that completes _MAX_TASK_FAILURES consecutive failures
\* pauses the task ("automatically paused to prevent an infinite error loop").
AutoPausesInTime ==
    [][\A t \in Tasks :
        RunEnds(t) /\ streak[t] < streak'[t] /\ streak'[t] = MAX_TASK_FAILURES
            /\ entries[t].kind = "recurring"
        => rows'[t].status \in {"paused", "absent"}]_vars

\* Conversely a run's end pauses a task with a valid schedule only after that
\* many consecutive failures (run_task's finally block).
AutoPausesOnlyThen ==
    [][\A t \in Tasks :
        RunEnds(t) /\ entries[t].kind = "recurring" /\ rows'[t].status = "paused"
        => streak'[t] = MAX_TASK_FAILURES]_vars

\* "Pause a scheduled task (it will not run until resumed)": so it is for a
\* task paused while no run of it is queued, under way or about to be queued,
\* through polls, schedule changes, crashes and the start-up recovery.
PauseHolds ==
    \A t \in held : AtRest(t) /\ rows[t].status \in {"paused", "absent"}

-----------------------------------------------------------------------------
(* Fairness: the scheduler loop keeps polling, the queue accepts a task that *)
(* is offered again and again, queued tasks get their turn, runs end (they   *)
(* run under a time-out), time passes and a dead host is restarted (pm2).    *)
Accepts(t) ==
    /\ \E d \in snapshot : d.task = t
    /\ entries[t].state = "none"
    /\ host = "up"
    /\ PollEnqueues({})

Fairness ==
    /\ WF_vars(PollReads)
    /\ WF_vars(\E refused \in SUBSET Tasks : PollEnqueues(refused))
    /\ \A t \in Tasks : SF_vars(Accepts(t))
    /\ \A t \in Tasks : WF_vars(RunTaskBegins(t) \/ RunTaskWithoutGroup(t))
    /\ \A t \in Tasks : WF_vars(\E o \in Outcomes : RunTaskEnds(t, o))
    /\ \A t \in Tasks : WF_vars(TimePasses(t))
    /\ WF_vars(Restart)

FairSpec == Spec /\ Fairness

\* A due task does not stay due: it is run, paused or cancelled, or its group
\* is gone and it backs off, unless the host goes down first.
DueTaskDispatched ==
    \A t \in Tasks : []<>(~Due(t) \/ host # "up")

=============================================================================
