--------------------------- MODULE MessagePipeline ---------------------------
(***************************************************************************)
(* host/main.py: a message's way from the channel through the messages     *)
(* table and the group queue to a container run, and the per-group cursor  *)
(* that decides which messages a run is given.  It composes the pipeline   *)
(* with GroupQueue: every call of enqueue_message_check and every end of a *)
(* message run is an action of that module.                                *)
(*                                                                         *)
(* Scheduled tasks and shutdown are left to TaskScheduler and GroupQueue;  *)
(* a stop of the host, graceful or not, is Crash: what survives it is the  *)
(* database.  The host is taken to be the leader (LeaderElection) and a    *)
(* message to have passed the filters of _on_message.                      *)
(*                                                                         *)
(* A definition X preceded by one named X<Variant> has a plausible slip    *)
(* beside it, never part of the specification.                             *)
(***************************************************************************)
EXTENDS GroupQueue

CONSTANTS
    Messages,           \* messages that may arrive
    MsgJid,             \* chat_jid of each message
    Triggers,           \* messages that pass the trigger filter of their group
    InitiallyRegistered,\* groups registered before the host first starts
    ContainerFailures,  \* how a run may fail: subset of {"error", "raise"}
    SameMillisecond,    \* whether two messages of a group may share a time stamp
    GROUP_MAX_FAILS,    \* _GROUP_MAX_FAILS
    TimeBound,          \* last millisecond explored
    CrashBound          \* most crashes explored

ASSUME PipelineAssumption ==
    /\ IsFiniteSet(Messages)
    /\ MsgJid \in [Messages -> Jids]
    /\ Triggers \subseteq Messages
    /\ InitiallyRegistered \subseteq Jids
    /\ ContainerFailures \subseteq {"error", "raise"}
    /\ SameMillisecond \in BOOLEAN
    /\ GROUP_MAX_FAILS \in Nat \ {0}
    /\ TimeBound \in Nat \ {0}
    /\ CrashBound \in Nat

VARIABLES
    now,             \* wall clock in milliseconds
    at,              \* timestamp of each row of messages, 0 before it arrives
    arriving,        \* stored, its _on_message has not reached the queue yet
    registered,      \* registered_groups
    loaded,          \* _registered_groups
    refresh_flag,    \* refresh_groups.flag
    cursors,         \* _per_jid_cursors, Missing without a key
    saved_cursors,   \* cursorJID:<jid> in router_state, 0 when unset
    last_timestamp,  \* _last_timestamp
    saved_last,      \* lastTimestamp in router_state
    polled,          \* groups whose new messages the poll has seen
    jobs,            \* the calls of _process_messages_for_jid under way
    fails,           \* _group_fail_counts
    cooling,         \* the last failure is within its cool-down
    up,              \* the host process runs
    crashes,         \* crashes so far
    handled          \* history: how often a message's batch was acknowledged, up to 2

clockVars == <<now, crashes>>
tableVars == <<at, registered, saved_cursors, saved_last>>
cursorVars == <<cursors, last_timestamp>>
groupVars == <<loaded, refresh_flag>>
failVars == <<fails, cooling>>
hostVars == <<arriving, polled, jobs, up>>
pipelineVars == <<queueVars, clockVars, tableVars, cursorVars, groupVars, failVars,
                  handled, hostVars>>

Stages == {"fetching", "container", "replying", "passed", "failed"}

\* from: the cursor the call read; batch and upto: the messages it fetched
\* and the latest of their time stamps.
Job == [jid : Jids, slot : Nat, stage : Stages, from : 0..TimeBound,
        batch : SUBSET Messages, upto : 0..TimeBound]

Missing == -1

PipelineInit ==
    /\ QueueInit
    /\ now = 1
    /\ at = [m \in Messages |-> 0]
    /\ arriving = {}
    /\ registered = InitiallyRegistered
    /\ loaded = InitiallyRegistered
    /\ refresh_flag = FALSE
    /\ cursors = [g \in Jids |-> IF g \in InitiallyRegistered THEN 0 ELSE Missing]
    /\ saved_cursors = [g \in Jids |-> 0]
    /\ last_timestamp = 0
    /\ saved_last = 0
    /\ polled = {}
    /\ jobs = {}
    /\ fails = [g \in Jids |-> 0]
    /\ cooling = [g \in Jids |-> FALSE]
    /\ up = TRUE
    /\ crashes = 0
    /\ handled = [m \in Messages |-> 0]

\* _per_jid_cursors.get(jid, _last_timestamp).
Cursor(g) == IF cursors[g] = Missing THEN last_timestamp ELSE cursors[g]

NewMessagesFromCursor(g, from) == {m \in Messages : MsgJid[m] = g /\ at[m] >= from}

\* get_new_messages.
NewMessages(g, from) == {m \in Messages : MsgJid[m] = g /\ at[m] > from}

Later(a, b) == IF a > b THEN a ELSE b

-----------------------------------------------------------------------------
(* _on_message. *)

\* store_message, with the time read just before.
OnMessageStores(m) ==
    /\ up
    /\ at[m] = 0
    /\ SameMillisecond \/ \A n \in Messages : MsgJid[n] = MsgJid[m] => at[n] # now
    /\ at' = [at EXCEPT ![m] = now]
    /\ arriving' = arriving \cup {m}
    /\ UNCHANGED <<queueVars, clockVars, registered, saved_cursors, saved_last, cursorVars,
                   groupVars, failVars, handled, polled, jobs, up>>

\* The rest, after the welcome message was awaited.
OnMessageEnqueues(m) ==
    /\ m \in arriving
    /\ EnqueueMessageCheck(MsgJid[m])
    /\ arriving' = arriving \ {m}
    /\ UNCHANGED <<clockVars, tableVars, cursorVars, groupVars, failVars, handled,
                   polled, jobs, up>>

-----------------------------------------------------------------------------
(* _message_loop, for one group: the query in a worker thread, and the call *)
(* made when the loop resumes.                                              *)

PollFinds(g) ==
    /\ up
    /\ g \in loaded
    /\ polled = {}
    /\ NewMessages(g, Cursor(g)) # {}
    /\ polled' = {g}
    /\ UNCHANGED <<queueVars, clockVars, tableVars, cursorVars, groupVars, failVars,
                   handled, arriving, jobs, up>>

PollEnqueues(g) ==
    /\ g \in polled
    /\ EnqueueMessageCheck(g)
    /\ polled' = {}
    /\ UNCHANGED <<clockVars, tableVars, cursorVars, groupVars, failVars, handled,
                   arriving, jobs, up>>

\* The refresh_groups flag: new groups inherit the global cursor.
RefreshGroups ==
    /\ up
    /\ refresh_flag
    /\ refresh_flag' = FALSE
    /\ loaded' = registered
    /\ cursors' = [g \in Jids |-> IF g \in registered /\ cursors[g] = Missing
                                  THEN last_timestamp ELSE cursors[g]]
    /\ UNCHANGED <<queueVars, clockVars, tableVars, last_timestamp, failVars, handled,
                   hostVars>>

\* register_group and refresh_groups over IPC, or /monitor in the chat, which
\* reloads the groups and gives the new one no cursor.
RegisterGroup(g) ==
    /\ up
    /\ g \notin registered
    /\ registered' = registered \cup {g}
    /\ \/ refresh_flag' = TRUE /\ loaded' = loaded
       \/ refresh_flag' = refresh_flag /\ loaded' = registered'
    /\ UNCHANGED <<queueVars, clockVars, at, saved_cursors, saved_last, cursorVars,
                   failVars, handled, hostVars>>

-----------------------------------------------------------------------------
(* _process_messages_for_jid and _process_group_messages. *)

JobOf(r, stage, from) ==
    [jid |-> r.jid, slot |-> r.slot, stage |-> stage, from |-> from, batch |-> {}, upto |-> 0]

Replace(j, k) == jobs' = (jobs \ {j}) \cup {k}

\* Up to the query for new messages; a group that is not known has none.
RunBegins(r) ==
    /\ RunForGroupStarts(r)
    /\ jobs' = jobs \cup
          {JobOf(r, IF r.jid \in loaded THEN "fetching" ELSE "passed", Cursor(r.jid))}
    /\ UNCHANGED <<clockVars, tableVars, cursorVars, groupVars, failVars, handled,
                   arriving, polled, up>>

RestingForever(g) == fails[g] >= GROUP_MAX_FAILS

\* The failure guard: a group that failed too often rests.
Resting(g) == fails[g] >= GROUP_MAX_FAILS /\ cooling[g]

DecayedNever(g) == fails[g]

Decayed(g) ==
    IF fails[g] >= GROUP_MAX_FAILS THEN Later(0, fails[g] - 2) ELSE fails[g]

LatestNow(batch) == now

Latest(batch) == CHOOSE t \in {at[m] : m \in batch} : \A m \in batch : at[m] <= t

\* From the result of the query to the call of run_container_agent.
Fetched(j) ==
    LET g == j.jid
        batch == NewMessages(g, j.from)
    IN  /\ j.stage = "fetching"
        /\ \/ /\ batch = {}
              /\ Replace(j, [j EXCEPT !.stage = "passed"])
              /\ UNCHANGED failVars
           \/ /\ batch # {}
              /\ Resting(g)
              /\ Replace(j, [j EXCEPT !.stage = "failed"])
              /\ UNCHANGED failVars
           \/ /\ batch # {}
              /\ ~Resting(g)
              /\ fails' = [fails EXCEPT ![g] = Decayed(g)]
              /\ cooling' = [cooling EXCEPT ![g] = @ /\ fails[g] < GROUP_MAX_FAILS]
              /\ \/ /\ batch \cap Triggers = {}
                    /\ Replace(j, [j EXCEPT !.stage = "failed"])
                 \/ /\ batch \cap Triggers # {}
                    /\ Replace(j, [j EXCEPT !.stage = "container", !.batch = batch,
                                            !.upto = Latest(batch)])
        /\ UNCHANGED <<queueVars, clockVars, tableVars, cursorVars, groupVars, handled,
                       arriving, polled, up>>

\* advance(): the group's cursor and the global one, in memory and saved.
Advance(g, upto) ==
    /\ cursors' = [cursors EXCEPT ![g] = Later(@, upto)]
    /\ saved_cursors' = [saved_cursors EXCEPT ![g] = cursors'[g]]
    /\ last_timestamp' = Later(last_timestamp, upto)
    /\ saved_last' = IF upto > last_timestamp THEN upto ELSE saved_last

\* _on_success_tracked, called before the reply is delivered.
ContainerAnswers(j) ==
    /\ j.stage = "container"
    /\ Advance(j.jid, j.upto)
    /\ fails' = [fails EXCEPT ![j.jid] = 0]
    /\ cooling' = [cooling EXCEPT ![j.jid] = FALSE]
    /\ handled' = [m \in Messages |-> IF m \in j.batch /\ handled[m] < 2
                                      THEN handled[m] + 1 ELSE handled[m]]
    /\ Replace(j, [j EXCEPT !.stage = "replying"])
    /\ UNCHANGED <<queueVars, clockVars, at, registered, groupVars, arriving,
                   polled, up>>

CountFailure(g) ==
    /\ fails' = [fails EXCEPT ![g] = @ + 1]
    /\ cooling' = [cooling EXCEPT ![g] = TRUE]

\* A status "error" or the backstop time-out is counted; an exception of
\* run_container_agent goes through to the queue uncounted.
ContainerFails(j) ==
    /\ j.stage = "container"
    /\ \/ "error" \in ContainerFailures /\ CountFailure(j.jid)
       \/ "raise" \in ContainerFailures /\ UNCHANGED failVars
    /\ Replace(j, [j EXCEPT !.stage = "failed"])
    /\ UNCHANGED <<queueVars, clockVars, tableVars, cursorVars, groupVars, handled,
                   arriving, polled, up>>

\* on_output: delivered, failed, or cut off by the backstop time-out.
ReplyEnds(j) ==
    /\ j.stage = "replying"
    /\ UNCHANGED failVars \/ ("error" \in ContainerFailures /\ CountFailure(j.jid))
    /\ Replace(j, [j EXCEPT !.stage = "passed"])
    /\ UNCHANGED <<queueVars, clockVars, tableVars, cursorVars, groupVars, handled,
                   arriving, polled, up>>

\* _process_messages_for_jid returns _success_flag, or True early.
RunReturns(r) ==
    \E j \in jobs :
        /\ j.jid = r.jid /\ j.slot = r.slot
        /\ \/ j.stage = "passed" /\ RunForGroupSucceeds(r)
           \/ j.stage = "failed" /\ RunForGroupFails(r)
        /\ jobs' = jobs \ {j}
        /\ UNCHANGED <<clockVars, tableVars, cursorVars, groupVars, failVars, handled,
                       arriving, polled, up>>

-----------------------------------------------------------------------------
(* Time, and the host process. *)

RetryFires(g) ==
    /\ RetryTimerFires(g)
    /\ UNCHANGED <<clockVars, tableVars, cursorVars, groupVars, failVars, handled,
                   hostVars>>

CooldownEnds(g) ==
    /\ cooling[g]
    /\ cooling' = [cooling EXCEPT ![g] = FALSE]
    /\ UNCHANGED <<queueVars, clockVars, tableVars, cursorVars, groupVars, fails,
                   handled, hostVars>>

\* The reset_group flag.
ResetGroup(g) ==
    /\ up
    /\ fails[g] > 0
    /\ fails' = [fails EXCEPT ![g] = 0]
    /\ cooling' = [cooling EXCEPT ![g] = FALSE]
    /\ UNCHANGED <<queueVars, clockVars, tableVars, cursorVars, groupVars, handled,
                   hostVars>>

Tick ==
    /\ now < TimeBound
    /\ now' = now + 1
    /\ UNCHANGED <<queueVars, crashes, tableVars, cursorVars, groupVars, failVars,
                   handled, hostVars>>

Crash ==
    /\ up
    /\ crashes < CrashBound
    /\ crashes' = crashes + 1
    /\ up' = FALSE
    /\ arriving' = {}
    /\ polled' = {}
    /\ jobs' = {}
    /\ groups' = [g \in Jids |-> NewGroupState]
    /\ active_count' = 0
    /\ waiting_groups' = <<>>
    /\ waiting_set' = {}
    /\ retry_timers' = [g \in Jids |-> 0]
    /\ runners' = {}
    /\ UNCHANGED <<shutting_down, now, tableVars, cursorVars, groupVars, failVars,
                   handled>>

RestartFromGlobal ==
    /\ ~up
    /\ up' = TRUE
    /\ last_timestamp' = saved_last
    /\ cursors' = [g \in Jids |-> IF g \in registered THEN saved_last ELSE Missing]
    /\ loaded' = registered
    /\ fails' = [g \in Jids |-> 0]
    /\ cooling' = [g \in Jids |-> FALSE]
    /\ UNCHANGED <<queueVars, clockVars, tableVars, refresh_flag, handled,
                   arriving, polled, jobs>>

\* main() with _load_state; the flag file survives.
Restart ==
    /\ ~up
    /\ up' = TRUE
    /\ last_timestamp' = saved_last
    /\ cursors' = [g \in Jids |-> IF g \notin registered THEN Missing
                                  ELSE IF saved_cursors[g] # 0 THEN saved_cursors[g]
                                  ELSE saved_last]
    /\ loaded' = registered
    /\ fails' = [g \in Jids |-> 0]
    /\ cooling' = [g \in Jids |-> FALSE]
    /\ UNCHANGED <<queueVars, clockVars, tableVars, refresh_flag, handled,
                   arriving, polled, jobs>>

JobStep(j) ==
    \/ Fetched(j)
    \/ ContainerAnswers(j)
    \/ ContainerFails(j)
    \/ ReplyEnds(j)

PipelineNext ==
    \/ \E m \in Messages : OnMessageStores(m)
    \/ \E m \in Messages : OnMessageEnqueues(m)
    \/ \E g \in Jids : PollFinds(g)
    \/ \E g \in Jids : PollEnqueues(g)
    \/ RefreshGroups
    \/ \E g \in Jids : RegisterGroup(g)
    \/ \E r \in runners : RunBegins(r)
    \/ \E j \in jobs : JobStep(j)
    \/ \E r \in runners : RunReturns(r)
    \/ \E g \in Jids : RetryFires(g)
    \/ \E g \in Jids : CooldownEnds(g)
    \/ \E g \in Jids : ResetGroup(g)
    \/ Tick
    \/ Crash
    \/ Restart

PipelineSpec == PipelineInit /\ [][PipelineNext]_pipelineVars

-----------------------------------------------------------------------------
(* Properties. *)

\* The type invariant of the pipeline's tables, dictionaries and calls.
PipelineTypeOK ==
    /\ TypeOK
    /\ now \in 1..TimeBound
    /\ at \in [Messages -> 0..TimeBound]
    /\ arriving \subseteq Messages
    /\ registered \subseteq Jids
    /\ loaded \subseteq registered
    /\ refresh_flag \in BOOLEAN
    /\ cursors \in [Jids -> Missing..TimeBound]
    /\ saved_cursors \in [Jids -> 0..TimeBound]
    /\ last_timestamp \in 0..TimeBound
    /\ saved_last \in 0..TimeBound
    /\ polled \subseteq Jids
    /\ jobs \subseteq Job
    /\ fails \in [Jids -> Nat]
    /\ cooling \in [Jids -> BOOLEAN]
    /\ up \in BOOLEAN
    /\ crashes \in 0..CrashBound
    /\ handled \in [Messages -> 0..2]

\* "No conversation is missed": a stored message of a group the host knows is
\* acknowledged or still ahead of the group's cursor, so that the next poll
\* finds it, whatever fails, crashes or is registered in between.
NoMessageSkipped ==
    up => \A m \in Messages :
        at[m] > 0 /\ MsgJid[m] \in loaded /\ handled[m] = 0
            => at[m] > Cursor(MsgJid[m])

\* Acknowledged messages are never given to a container again: the two runs
\* that would be needed never overlap, and a crash cannot undo a cursor.
HandledAtMostOnce == \A m \in Messages : handled[m] <= 1

\* What is saved is what the process goes by, across restarts and late
\* registrations: a group resumes where it was, neither earlier nor later.
SavedMatchesMemory ==
    up => \A g \in Jids : saved_cursors[g] # 0 => saved_cursors[g] = cursors[g]

\* The failure guard stops a group at _GROUP_MAX_FAILS: no container starts
\* for it until a cool-down has passed, so the count stays within the limit.
FailureGuardHolds == \A g \in Jids : fails[g] <= GROUP_MAX_FAILS

-----------------------------------------------------------------------------
(* Fairness: the event loop and its worker threads make progress, the poll   *)
(* loop goes round, sleeps end, a dead host is restarted (pm2), containers   *)
(* end, and one that is started again and again answers in the end.          *)
PipelineFairness ==
    /\ \A m \in Messages : WF_pipelineVars(OnMessageEnqueues(m))
    /\ \A g \in Jids :
          /\ WF_pipelineVars(PollFinds(g))
          /\ WF_pipelineVars(PollEnqueues(g))
          /\ WF_pipelineVars(\E r \in RunnersOf(g) : RunBegins(r) \/ RunReturns(r))
          /\ WF_pipelineVars(\E j \in jobs : j.jid = g /\ JobStep(j))
          /\ SF_pipelineVars(\E j \in jobs : j.jid = g /\ ContainerAnswers(j))
          /\ WF_pipelineVars(RetryFires(g))
          /\ SF_pipelineVars(CooldownEnds(g))
    /\ WF_pipelineVars(Restart)
    /\ WF_pipelineVars(RefreshGroups)

FairPipelineSpec == PipelineSpec /\ PipelineFairness

\* Every message that is for the assistant gets its run in the end.
EveryMessageHandled ==
    \A m \in Triggers :
        []<>(at[m] = 0 \/ MsgJid[m] \notin registered \/ handled[m] > 0)

\* Between the cursor, its saved copy and the queue, each message is handled, and once
\* (_process_group_messages, start-up).
MessagesAccounted == NoMessageSkipped /\ HandledAtMostOnce

\* The failure counter, the saved cursors and the retries of the queue stay consistent
\* with the runs under way, through crashes.
PipelineConsistent ==
    /\ PipelineTypeOK /\ FailureGuardHolds /\ SavedMatchesMemory
    /\ RetryNotLost /\ BackoffRespected

=============================================================================
