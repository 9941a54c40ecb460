------------------------------ MODULE GroupQueue ------------------------------
(***************************************************************************)
(* host/group_queue.py: the per-group queue that decides when a container  *)
(* may run.  One event loop runs every handler to its next await, so one   *)
(* action below is one synchronous stretch of code: a public call          *)
(* (enqueue_message_check, enqueue_task, shutdown), the first step of a    *)
(* runner coroutine, its last step (the except/finally blocks and          *)
(* _drain_group), or the body of a back-off timer.                         *)
(*                                                                         *)
(* The fields idle_waiting and is_task_container of _GroupState are        *)
(* written and never read, and the time stamp of the first pending message *)
(* serves a latency log; they are left out.                                *)
(*                                                                         *)
(* A definition X preceded by one named X<Variant> has a plausible slip    *)
(* beside it, never part of the specification: putting it in X's place     *)
(* must break a property, which shows that the property can fail.          *)
(***************************************************************************)
EXTENDS Integers, Sequences, FiniteSets, Functions

CONSTANTS
    Jids,                          \* the groups
    TaskIds,                       \* ids of scheduled tasks
    NoTask,                        \* None in running_task_id
    TaskJid,                       \* chat_jid of each task
    Outcomes,                      \* results process_messages_fn may produce
    MAX_CONCURRENT_CONTAINERS,
    MAX_RETRIES,
    MAX_PENDING_TASKS_PER_GROUP,
    MAX_WAITING_GROUPS

ASSUME QueueAssumption ==
    /\ IsFiniteSet(Jids)
    /\ NoTask \notin TaskIds
    /\ TaskJid \in [TaskIds -> Jids]
    /\ Outcomes \subseteq {"success", "failure"}
    /\ MAX_CONCURRENT_CONTAINERS \in Nat \ {0}
    /\ MAX_RETRIES \in Nat
    /\ MAX_PENDING_TASKS_PER_GROUP \in Nat
    /\ MAX_WAITING_GROUPS \in Nat

VARIABLES
    groups,          \* _groups: the _GroupState of each group
    active_count,    \* _active_count
    waiting_groups,  \* _waiting_groups, FIFO
    waiting_set,     \* _waiting_set
    shutting_down,   \* _shutting_down
    retry_timers,    \* number of sleeping _retry() coroutines of each group
    runners          \* the _run_for_group / _run_task coroutines alive

slotVars == <<active_count, runners>>
waitVars == <<waiting_groups, waiting_set>>
queueVars == <<groups, active_count, waiting_groups, waiting_set,
               shutting_down, retry_timers, runners>>

GroupState ==
    [active           : BOOLEAN,
     running_task_id  : TaskIds \cup {NoTask},
     pending_messages : BOOLEAN,
     pending_tasks    : Seq(TaskIds),
     pending_task_ids : SUBSET TaskIds,
     retry_count      : 0..MAX_RETRIES,
     retry_ready      : BOOLEAN]

\* task = NoTask for a message run.  The slot tells two coroutines of one
\* group apart, should there ever be two.
Runner == [jid : Jids, slot : Nat, task : TaskIds \cup {NoTask},
           phase : {"created", "running"}]

NewGroupState ==
    [active |-> FALSE, running_task_id |-> NoTask,
     pending_messages |-> FALSE,
     pending_tasks |-> <<>>, pending_task_ids |-> {},
     retry_count |-> 0, retry_ready |-> FALSE]

QueueInit ==
    /\ groups = [g \in Jids |-> NewGroupState]
    /\ active_count = 0
    /\ waiting_groups = <<>>
    /\ waiting_set = {}
    /\ shutting_down = FALSE
    /\ retry_timers = [g \in Jids |-> 0]
    /\ runners = {}

-----------------------------------------------------------------------------
(* Changes of one group's state, as values. *)

MarkPending(st) == [st EXCEPT !.pending_messages = TRUE]

MessageRunCreatedInactive(st) ==
    [st EXCEPT !.retry_ready = FALSE]

\* A message run started by enqueue_message_check or _drain_group: the
\* coroutine itself clears pending_messages when it first runs.
MessageRunCreated(st) ==
    [st EXCEPT !.active = TRUE, !.retry_ready = FALSE]

\* A task run started by enqueue_task.
TaskRunCreated(st, t) ==
    [st EXCEPT !.active = TRUE, !.retry_ready = FALSE, !.running_task_id = t]

PendingTaskStartedIdKept(st) ==
    [st EXCEPT !.active = TRUE,
               !.running_task_id = Head(st.pending_tasks),
               !.pending_tasks = Tail(st.pending_tasks)]

\* The head of pending_tasks started by _drain_group or _drain_waiting.
PendingTaskStarted(st) ==
    [st EXCEPT !.active = TRUE,
               !.running_task_id = Head(st.pending_tasks),
               !.pending_tasks = Tail(st.pending_tasks),
               !.pending_task_ids = @ \ {Head(st.pending_tasks)}]

TaskQueued(st, t) ==
    [st EXCEPT !.pending_tasks = Append(@, t), !.pending_task_ids = @ \cup {t}]

RetryPendingIgnored(st) == FALSE

\* The back-off guard of _drain_group and _drain_waiting.
RetryPending(st) == st.retry_count > 0 /\ ~st.retry_ready

\* What _drain_waiting starts when it pops a group.
ReadyToRun(st) ==
    \/ st.pending_tasks # <<>>
    \/ st.pending_messages /\ ~RetryPending(st)

WaitingRunCreated(st) ==
    IF st.pending_tasks # <<>>
    THEN PendingTaskStarted(st)
    ELSE [MessageRunCreated(st) EXCEPT !.pending_messages = FALSE]

NextRunMessagesFirst(st) ==
    IF st.pending_tasks # <<>> /\ ~st.pending_messages
    THEN Head(st.pending_tasks) ELSE NoTask

NextRun(st) == IF st.pending_tasks # <<>> THEN Head(st.pending_tasks) ELSE NoTask

FreeSlot(g, rs) ==
    CHOOSE n \in 1..(Cardinality(rs) + 1) : \A r \in rs : r.jid = g => r.slot # n

\* asyncio.create_task(...) of a runner, next to the runners rs.
NewRunner(g, t, rs) ==
    [jid |-> g, slot |-> FreeSlot(g, rs), task |-> t, phase |-> "created"]

-----------------------------------------------------------------------------
AtLimitOffByOne == active_count > MAX_CONCURRENT_CONTAINERS

\* The test of both enqueue operations for a free slot.
AtLimit == active_count >= MAX_CONCURRENT_CONTAINERS

(* A group that finds no free slot joins the FIFO list once, while the list  *)
(* has room.                                                                 *)
JoinWaitingPastCap(g) ==
    IF g \notin waiting_set /\ Len(waiting_groups) <= MAX_WAITING_GROUPS
    THEN waiting_groups' = Append(waiting_groups, g) /\ waiting_set' = waiting_set \cup {g}
    ELSE UNCHANGED waitVars

JoinWaiting(g) ==
    IF g \notin waiting_set /\ Len(waiting_groups) < MAX_WAITING_GROUPS
    THEN waiting_groups' = Append(waiting_groups, g) /\ waiting_set' = waiting_set \cup {g}
    ELSE UNCHANGED waitVars

MayWaitAlways(g) == TRUE

MayWait(g) == g \in waiting_set \/ Len(waiting_groups) < MAX_WAITING_GROUPS

(* enqueue_message_check, from the state st of group g. *)
MessageCheck(g, st, from_retry) ==
    LET deferred == st.active \/ (st.retry_count > 0 /\ ~from_retry)
    IN  \/ /\ deferred
           /\ groups' = [groups EXCEPT ![g] = MarkPending(st)]
           /\ UNCHANGED <<slotVars, waitVars>>
        \/ /\ ~deferred
           /\ AtLimit
           /\ groups' = [groups EXCEPT ![g] = MarkPending(st)]
           /\ JoinWaiting(g)
           /\ UNCHANGED slotVars
        \/ /\ ~deferred
           /\ ~AtLimit
           /\ groups' = [groups EXCEPT ![g] = MessageRunCreated(st)]
           /\ active_count' = active_count + 1
           /\ runners' = runners \cup {NewRunner(g, NoTask, runners)}
           /\ UNCHANGED waitVars

EnqueueMessageCheckAnyTime(g) ==
    /\ MessageCheck(g, groups[g], FALSE)
    /\ UNCHANGED <<shutting_down, retry_timers>>

EnqueueMessageCheck(g) ==
    /\ ~shutting_down
    /\ MessageCheck(g, groups[g], FALSE)
    /\ UNCHANGED <<shutting_down, retry_timers>>

RetryTimerFiresUnready(g) ==
    /\ retry_timers[g] > 0
    /\ ~shutting_down
    /\ retry_timers' = [retry_timers EXCEPT ![g] = @ - 1]
    /\ MessageCheck(g, groups[g], FALSE)
    /\ UNCHANGED shutting_down

\* The body of the _retry() coroutine once its sleep is over.
RetryTimerFires(g) ==
    /\ retry_timers[g] > 0
    /\ retry_timers' = [retry_timers EXCEPT ![g] = @ - 1]
    /\ \/ /\ ~shutting_down
          /\ MessageCheck(g, [groups[g] EXCEPT !.retry_ready = TRUE], TRUE)
       \/ /\ shutting_down
          /\ UNCHANGED <<groups, slotVars, waitVars>>
    /\ UNCHANGED shutting_down

TaskKnown(st, t) == st.running_task_id = t \/ t \in st.pending_task_ids

\* enqueue_task(TaskJid[t], t, fn); a duplicate or a call that finds a queue
\* full returns without a change.
EnqueueTask(t) ==
    LET g == TaskJid[t]
        st == groups[g]
        room == Len(st.pending_tasks) < MAX_PENDING_TASKS_PER_GROUP
    IN  /\ ~shutting_down
        /\ ~TaskKnown(st, t)
        /\ \/ /\ st.active /\ room
              /\ groups' = [groups EXCEPT ![g] = TaskQueued(st, t)]
              /\ UNCHANGED <<slotVars, waitVars>>
           \/ /\ ~st.active
              /\ AtLimit
              /\ MayWait(g)
              /\ room
              /\ groups' = [groups EXCEPT ![g] = TaskQueued(st, t)]
              /\ JoinWaiting(g)
              /\ UNCHANGED slotVars
           \/ /\ ~st.active
              /\ ~AtLimit
              /\ groups' = [groups EXCEPT ![g] = TaskRunCreated(st, t)]
              /\ active_count' = active_count + 1
              /\ runners' = runners \cup {NewRunner(g, t, runners)}
              /\ UNCHANGED waitVars
        /\ UNCHANGED <<shutting_down, retry_timers>>

-----------------------------------------------------------------------------
DrainWaitingSkipped(gs, rs, count) ==
    /\ groups' = gs
    /\ runners' = rs
    /\ active_count' = count
    /\ UNCHANGED waitVars

(* _drain_waiting, when the groups are in the states gs, the runners rs are *)
(* alive and count of them are accounted for.  The while loop pops the      *)
(* prefix of k groups: every popped group finds a free slot, and the loop   *)
(* stops when the list is empty or the limit is reached.                    *)
DrainWaiting(gs, rs, count) ==
    LET Starts(j) == {i \in 1..j : ReadyToRun(gs[waiting_groups[i]])}
    IN  \E k \in 0..Len(waiting_groups) :
          /\ \A j \in 0..(k - 1) :
                count + Cardinality(Starts(j)) < MAX_CONCURRENT_CONTAINERS
          /\ \/ k = Len(waiting_groups)
             \/ count + Cardinality(Starts(k)) >= MAX_CONCURRENT_CONTAINERS
          /\ LET started == {waiting_groups[i] : i \in Starts(k)}
             IN  /\ groups' = [h \in Jids |-> IF h \in started
                                              THEN WaitingRunCreated(gs[h])
                                              ELSE gs[h]]
                 /\ runners' = rs \cup {NewRunner(h, NextRun(gs[h]), rs) : h \in started}
                 /\ active_count' = count + Cardinality(started)
          /\ waiting_groups' = SubSeq(waiting_groups, k + 1, Len(waiting_groups))
          /\ waiting_set' = waiting_set \ {waiting_groups[i] : i \in 1..k}

(* The end of a runner r: the finally block has brought its group to the    *)
(* state st and given its slot back; _drain_group goes on from there.       *)
DrainGroup(r, st) ==
    LET g == r.jid
        rs == runners \ {r}
        count == active_count - 1
    IN  \/ /\ shutting_down
           /\ groups' = [groups EXCEPT ![g] = st]
           /\ runners' = rs
           /\ active_count' = count
           /\ UNCHANGED waitVars
        \/ /\ ~shutting_down
           /\ st.pending_tasks # <<>>
           /\ groups' = [groups EXCEPT ![g] = PendingTaskStarted(st)]
           /\ runners' = rs \cup {NewRunner(g, Head(st.pending_tasks), rs)}
           /\ active_count' = count + 1
           /\ UNCHANGED waitVars
        \/ /\ ~shutting_down
           /\ st.pending_tasks = <<>>
           /\ st.pending_messages
           /\ RetryPending(st)
           /\ groups' = [groups EXCEPT ![g] = st]
           /\ runners' = rs
           /\ active_count' = count
           /\ UNCHANGED waitVars
        \/ /\ ~shutting_down
           /\ st.pending_tasks = <<>>
           /\ st.pending_messages
           /\ ~RetryPending(st)
           /\ groups' = [groups EXCEPT ![g] = MessageRunCreated(st)]
           /\ runners' = rs \cup {NewRunner(g, NoTask, rs)}
           /\ active_count' = count + 1
           /\ UNCHANGED waitVars
        \/ /\ ~shutting_down
           /\ st.pending_tasks = <<>>
           /\ ~st.pending_messages
           /\ DrainWaiting([groups EXCEPT ![g] = st], rs, count)

-----------------------------------------------------------------------------
(* The runner coroutines. *)

Running(r) == [r EXCEPT !.phase = "running"]

\* _run_for_group up to its await of process_messages_fn.
RunForGroupStarts(r) ==
    /\ r.phase = "created"
    /\ r.task = NoTask
    /\ runners' = (runners \ {r}) \cup {Running(r)}
    /\ groups' = [groups EXCEPT ![r.jid].pending_messages = FALSE]
    /\ UNCHANGED <<active_count, waitVars, shutting_down, retry_timers>>

\* _run_task up to its await of the task's coroutine.
RunTaskStarts(r) ==
    /\ r.phase = "created"
    /\ r.task # NoTask
    /\ runners' = (runners \ {r}) \cup {Running(r)}
    /\ UNCHANGED <<groups, active_count, waitVars, shutting_down, retry_timers>>

MessageRunEndedForgetful(st) == NewGroupState

MessageRunEnded(st) == [st EXCEPT !.active = FALSE]

\* success: the consecutive failure count is reset.
RunForGroupSucceeds(r) ==
    /\ r.phase = "running"
    /\ r.task = NoTask
    /\ "success" \in Outcomes
    /\ DrainGroup(r, MessageRunEnded([groups[r.jid] EXCEPT !.retry_count = 0]))
    /\ UNCHANGED <<shutting_down, retry_timers>>

\* False or an exception: _schedule_retry, then the finally block.
RunForGroupFails(r) ==
    LET st == groups[r.jid]
        giveUp == st.retry_count + 1 > MAX_RETRIES
    IN  /\ r.phase = "running"
        /\ r.task = NoTask
        /\ "failure" \in Outcomes
        /\ DrainGroup(r, MessageRunEnded(
                IF giveUp THEN [st EXCEPT !.retry_count = 0, !.retry_ready = FALSE]
                          ELSE [st EXCEPT !.retry_count = @ + 1]))
        /\ retry_timers' = IF giveUp
                           THEN retry_timers
                           ELSE [retry_timers EXCEPT ![r.jid] = @ + 1]
        /\ UNCHANGED shutting_down

RunTaskEndsIdKept(r) ==
    /\ r.phase = "running"
    /\ r.task # NoTask
    /\ DrainGroup(r, [groups[r.jid] EXCEPT !.active = FALSE])
    /\ UNCHANGED <<shutting_down, retry_timers>>

\* A task's coroutine ends, with or without an exception.
RunTaskEnds(r) ==
    /\ r.phase = "running"
    /\ r.task # NoTask
    /\ DrainGroup(r, [groups[r.jid] EXCEPT !.active = FALSE,
                                           !.running_task_id = NoTask])
    /\ UNCHANGED <<shutting_down, retry_timers>>

\* Shutdown cancels the coroutines that are left: a running one goes through
\* its finally block without counting a failure, one that never ran just ends.
RunnerCancelled(r) ==
    /\ shutting_down
    /\ \/ /\ r.phase = "running"
          /\ DrainGroup(r, IF r.task = NoTask
                           THEN MessageRunEnded(groups[r.jid])
                           ELSE [groups[r.jid] EXCEPT !.active = FALSE,
                                                      !.running_task_id = NoTask])
       \/ /\ r.phase = "created"
          /\ runners' = runners \ {r}
          /\ UNCHANGED <<groups, active_count, waitVars>>
    /\ UNCHANGED <<shutting_down, retry_timers>>

\* The signal handler's shutdown_sync().
ShutdownSync ==
    /\ shutting_down' = TRUE
    /\ UNCHANGED <<groups, slotVars, waitVars, retry_timers>>

\* shutdown(): also cancels the sleeping retries.
Shutdown ==
    /\ shutting_down' = TRUE
    /\ retry_timers' = [g \in Jids |-> 0]
    /\ UNCHANGED <<groups, slotVars, waitVars>>

RunnerStep(r) ==
    \/ RunForGroupStarts(r)
    \/ RunTaskStarts(r)
    \/ RunForGroupSucceeds(r)
    \/ RunForGroupFails(r)
    \/ RunTaskEnds(r)

QueueNext ==
    \/ \E g \in Jids : EnqueueMessageCheck(g)
    \/ \E t \in TaskIds : EnqueueTask(t)
    \/ \E g \in Jids : RetryTimerFires(g)
    \/ \E r \in runners : RunnerStep(r)
    \/ \E r \in runners : RunnerCancelled(r)
    \/ ShutdownSync
    \/ Shutdown

QueueSpec == QueueInit /\ [][QueueNext]_queueVars

-----------------------------------------------------------------------------
(* Properties. *)

RunnersOf(g) == {r \in runners : r.jid = g}

\* The type invariant of the queue's state (GroupQueue.__init__, _GroupState).
TypeOK ==
    /\ groups \in [Jids -> GroupState]
    /\ active_count \in Nat
    /\ waiting_groups \in Seq(Jids)
    /\ waiting_set \in SUBSET Jids
    /\ shutting_down \in BOOLEAN
    /\ retry_timers \in [Jids -> Nat]
    /\ runners \in SUBSET Runner

\* Every start, direct, drained or woken, stays under the global limit, and
\* _active_count counts exactly the coroutines alive until shutdown cancels
\* some that never ran ("enforces a global MAX_CONCURRENT_CONTAINERS limit").
ConcurrencyLimit ==
    /\ IsFiniteSet(runners)
    /\ Cardinality(runners) <= active_count
    /\ active_count <= MAX_CONCURRENT_CONTAINERS
    /\ ~shutting_down => Cardinality(runners) = active_count

\* _waiting_set mirrors _waiting_groups, which holds no group twice and never
\* grows past its cap (issue #446): a stale member would never be woken.
WaitingListSound ==
    /\ waiting_set = Range(waiting_groups)
    /\ \A i, j \in 1..Len(waiting_groups) :
          waiting_groups[i] = waiting_groups[j] => i = j
    /\ Len(waiting_groups) <= MAX_WAITING_GROUPS

\* pending_task_ids mirrors pending_tasks, which holds no task twice, only
\* tasks of its own group, and stays within its cap (issue #446): a stale id
\* would make the scheduler skip its task for ever.
PendingTasksSound ==
    \A g \in Jids :
        LET pending == groups[g].pending_tasks
        IN  /\ groups[g].pending_task_ids = Range(pending)
            /\ \A i, j \in 1..Len(pending) : pending[i] = pending[j] => i = j
            /\ \A i \in 1..Len(pending) : TaskJid[pending[i]] = g
            /\ Len(pending) <= MAX_PENDING_TASKS_PER_GROUP

\* A queued task always has something that will wake it: a runner of its group
\* that will drain it, or a place in the waiting list (enqueue_task's comment
\* on the waiting cap names the alternative, a task that is skipped for ever).
NoStrandedTask ==
    \A g \in Jids : groups[g].pending_tasks # <<>> =>
        \/ g \in waiting_set
        \/ RunnersOf(g) # {}
        \/ shutting_down

\* No container starts once shutdown has been signalled, whichever of the
\* timers, drains and callers still in flight comes next.
NoStartAfterShutdown ==
    [][shutting_down => active_count' <= active_count]_queueVars

\* An accepted task leaves pending_tasks only by being run: neither a drain, a
\* failure, a retry nor a shutdown drops it from a live queue.
PendingTaskLeavesByRunning ==
    [][\A g \in Jids :
        \A t \in groups[g].pending_task_ids \ groups'[g].pending_task_ids :
            \E r \in runners' \ runners : r.jid = g /\ r.task = t]_queueVars

\* "Ensures only one container runs per group at a time".
OneContainerPerGroup ==
    \A g \in Jids : Cardinality(RunnersOf(g)) <= 1

\* The state a group shows its callers is the state of its coroutine: active
\* while one is alive, and running_task_id the task it runs.  Deduplication
\* in enqueue_task and the one-container rule both rest on it.
StateMatchesRunner ==
    ~shutting_down =>
        \A g \in Jids :
            /\ groups[g].active <=> RunnersOf(g) # {}
            /\ \A r \in RunnersOf(g) : r.task = groups[g].running_task_id

\* No slot is idle while a group waits for one.
WorkConserving ==
    waiting_groups # <<>> /\ ~shutting_down =>
        active_count = MAX_CONCURRENT_CONTAINERS

\* "Tasks are prioritized over pending messages": no message run starts for a
\* group that has a task waiting.
TaskPriority ==
    [][\A r \in runners' \ runners :
        r.phase = "created" /\ r.task = NoTask
            => groups[r.jid].pending_tasks = <<>>]_queueVars

\* While a group is backing off it has a timer that ends the back-off, a fired
\* one that a drain will honour, or a run under way: its messages are not
\* deferred for ever.
RetryNotLost ==
    \A g \in Jids : groups[g].retry_count > 0 /\ ~shutting_down =>
        \/ retry_timers[g] > 0
        \/ groups[g].retry_ready
        \/ \E r \in RunnersOf(g) : r.task = NoTask

\* The back-off holds: no message run of a group while its timer sleeps, and
\* never two timers (the circuit-breaker guards of the two drains).
BackoffRespected ==
    \A g \in Jids :
        /\ retry_timers[g] <= 1
        /\ retry_timers[g] = 1 => \A r \in RunnersOf(g) : r.task # NoTask

-----------------------------------------------------------------------------
(* Fairness: the event loop runs every ready coroutine, containers and tasks *)
(* end (both run under time-outs) and a sleep ends.  No caller is obliged to *)
(* call.                                                                     *)
QueueFairness ==
    /\ \A g \in Jids : WF_queueVars(\E r \in RunnersOf(g) : RunnerStep(r))
    /\ \A g \in Jids : WF_queueVars(RetryTimerFires(g))

FairQueueSpec == QueueSpec /\ QueueFairness

Arrival ==
    \/ \E g \in Jids : EnqueueMessageCheck(g)
    \/ \E t \in TaskIds : EnqueueTask(t)

Idle ==
    /\ runners = {}
    /\ waiting_groups = <<>>
    /\ \A g \in Jids : groups[g].pending_tasks = <<>> /\ retry_timers[g] = 0

\* Once callers stop, everything accepted is run, every retry is settled and
\* the waiting list empties, unless the host shuts down first.
DrainsWhenCallersStop ==
    <>[][~Arrival]_queueVars => <>[](shutting_down \/ Idle)

\* While no message run fails, the state of the queue is consistent: one container per
\* group, flags that match the runners, task lists within their limits, and no group
\* waiting beside a free slot.
QueueSound ==
    /\ TypeOK /\ OneContainerPerGroup /\ StateMatchesRunner
    /\ PendingTasksSound /\ WorkConserving

\* Tasks come before messages, and a pending one leaves its list only to run
\* (_drain_group, _drain_waiting).
TasksFirst == TaskPriority /\ PendingTaskLeavesByRunning

=============================================================================
