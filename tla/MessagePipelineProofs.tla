------------------------- MODULE MessagePipelineProofs -------------------------
(***************************************************************************)
(* Proofs about MessagePipeline.  The queue beneath it behaves as in       *)
(* GroupQueueProofs, with a slot for every group: a step of the pipeline   *)
(* is a step of the queue, or leaves the queue alone, or is a crash that   *)
(* puts it back to its initial state.  On top of that, a group has at most *)
(* one call of _process_messages_for_jid under way, so that nobody else    *)
(* moves the cursor the call has read.                                     *)
(***************************************************************************)
EXTENDS MessagePipeline, GroupQueueProofs, WellFoundedInduction

\* No more groups than containers: see SoundWithRoom.
EnoughSlots == Cardinality(Jids) <= MAX_CONCURRENT_CONTAINERS

QueueInv == CountInv /\ PendingTasksSound /\ RoomInv /\ ~shutting_down

\* The process that does not run has nothing under way.
DownInv ==
    ~up => /\ arriving = {} /\ polled = {} /\ jobs = {} /\ runners = {}
           /\ \A g \in Jids : retry_timers[g] = 0

TablesOK ==
    /\ now \in 1..TimeBound
    /\ at \in [Messages -> 0..TimeBound]
    /\ arriving \subseteq Messages
    /\ registered \subseteq Jids
    /\ loaded \subseteq registered
    /\ refresh_flag \in BOOLEAN
    /\ cursors \in [Jids -> Missing..TimeBound]
    /\ saved_cursors \in [Jids -> 0..TimeBound]
    /\ last_timestamp \in 0..TimeBound
    /\ saved_last \in 0..TimeBound
    /\ polled \subseteq Jids
    /\ jobs \subseteq Job
    /\ fails \in [Jids -> Nat]
    /\ cooling \in [Jids -> BOOLEAN]
    /\ up \in BOOLEAN
    /\ crashes \in 0..CrashBound
    /\ handled \in [Messages -> 0..2]

\* A call under way belongs to a running coroutine, one for each group.
JobsInv ==
    /\ \A j \in jobs : \E r \in runners : /\ r.jid = j.jid /\ r.slot = j.slot
                                          /\ r.phase = "running"
    /\ \A i, j \in jobs : i.jid = j.jid => i = j
    /\ \A j \in jobs : j.stage \in {"fetching", "container", "replying"} => j.jid \in loaded

\* The failure guard has let a call pass that runs a container.
FailsInv ==
    /\ FailureGuardHolds
    /\ \A j \in jobs : j.stage \in {"container", "replying"} => fails[j.jid] < GROUP_MAX_FAILS

\* Acknowledged messages are behind the saved cursor, which is the cursor in
\* memory; what a call reads or has read is ahead of it.
CursorInv ==
    /\ SavedMatchesMemory
    /\ \A g \in Jids : saved_cursors[g] # 0 => g \in registered
    /\ \A m \in Messages : handled[m] > 0 => /\ at[m] > 0
                                             /\ at[m] <= saved_cursors[MsgJid[m]]
    /\ \A j \in jobs : j.stage = "fetching" => j.from >= saved_cursors[j.jid]
    /\ \A j \in jobs : j.stage = "container" =>
          \A m \in j.batch : /\ MsgJid[m] = j.jid /\ handled[m] = 0
                             /\ at[m] > 0 /\ at[m] <= j.upto
    /\ HandledAtMostOnce

PipelineInv == QueueInv /\ DownInv /\ TablesOK /\ JobsInv /\ FailsInv /\ CursorInv

\* With one group, whose messages have distinct time stamps, the cursor in memory
\* and its two saved copies are one, and exactly the messages ahead of it are
\* unacknowledged.
OneCursor ==
    /\ last_timestamp = saved_last
    /\ last_timestamp <= now
    /\ \A g \in Jids : saved_cursors[g] = last_timestamp
    /\ up => \A g \in Jids : cursors[g] \in {Missing, last_timestamp}
    /\ last_timestamp # 0 => \E m \in Messages : at[m] = last_timestamp
    /\ \A m \in Messages : at[m] <= now
    /\ \A m \in Messages : at[m] > 0 /\ handled[m] = 0 => at[m] > last_timestamp
    /\ \A j \in jobs : j.stage \in {"fetching", "container"} => j.from = last_timestamp
    /\ \A j \in jobs : j.stage = "container" =>
          /\ \A m \in Messages : at[m] > j.from /\ at[m] <= j.upto => m \in j.batch
          /\ \E m \in j.batch : at[m] = j.upto
          /\ j.upto > j.from /\ j.upto <= now

-----------------------------------------------------------------------------
(* Helpers. *)

\* Latest is the latest time stamp of a batch that is not empty: one of its
\* messages has it and none is later.
LEMMA LatestFacts ==
    ASSUME at \in [Messages -> 0..TimeBound], NEW STATE batch,
           batch \in SUBSET Messages, batch # {}
    PROVE  /\ Latest(batch) \in 0..TimeBound
           /\ \E m \in batch : at[m] = Latest(batch)
           /\ \A m \in batch : at[m] <= Latest(batch)
<1> DEFINE U == {u \in Nat : \A m \in batch : at[m] <= u}
<1>1. TimeBound \in Nat /\ TimeBound \in U
  BY PipelineAssumption
<1>2. \E u \in U : \A v \in U : ~ (<<v, u>> \in OpToRel(<, Nat))
  <2>1. U \subseteq Nat /\ U # {}
    BY <1>1
  <2> HIDE DEF U
  <2>2. QED
    BY <2>1, NatLessThanWellFounded, WFMin
<1>3. PICK u \in U : \A v \in U : u <= v
  <2>1. PICK u \in U : \A v \in U : ~ (<<v, u>> \in OpToRel(<, Nat))
    BY <1>2
  <2>2. ASSUME NEW v \in U PROVE u <= v
    <3>1. u \in Nat /\ v \in Nat
      OBVIOUS
    <3>2. ~ (<<v, u>> \in OpToRel(<, Nat))
      BY <2>1
    <3> HIDE DEF U
    <3>3. ~ (v < u)
      BY <3>1, <3>2 DEF OpToRel
    <3>4. QED
      BY <3>1, <3>3
  <2>3. QED
    BY <2>2
<1>4. \E m \in batch : at[m] = u
  <2>1. SUFFICES ASSUME \A m \in batch : at[m] < u PROVE FALSE
    BY <1>3
  <2>2. u \in Nat /\ u > 0
    BY <1>3, <2>1
  <2>3. u - 1 \in U
    BY <2>1, <2>2
  <2>4. QED
    BY <1>3, <2>2, <2>3
<1>5. PICK m \in batch : at[m] = u
  BY <1>4
<1>6. /\ at[m] \in {at[n] : n \in batch}
      /\ \A n \in batch : at[n] <= at[m]
  BY <1>3, <1>5
<1>7. /\ Latest(batch) \in {at[n] : n \in batch}
      /\ \A n \in batch : at[n] <= Latest(batch)
  BY <1>6 DEF Latest
<1>8. QED
  BY <1>7

\* The end of a runner leaves the other runners alone.
LEMMA DrainKeeps ==
    ASSUME NEW r, NEW STATE st, DrainGroup(r, st)
    PROVE  runners \ {r} \subseteq runners'
BY DEF DrainGroup, DrainWaiting

\* So does a message check, which may only add one.
LEMMA CheckKeeps ==
    ASSUME NEW g, NEW STATE st, NEW b, MessageCheck(g, st, b)
    PROVE  runners \subseteq runners'
BY DEF MessageCheck, slotVars

\* The queue's invariant under the steps the pipeline takes in the queue.
LEMMA QueueStep ==
    ASSUME EnoughSlots, QueueInv, QueueNext, UNCHANGED shutting_down
    PROVE  QueueInv'
<1>1. CountInv'
  BY CountNext DEF QueueInv
<1>2. PendingTasksSound'
  BY TasksNext DEF QueueInv, TasksKept, TaskListSound, PendingTasksSound
<1>3. RoomInv'
  BY RoomNext DEF QueueInv, EnoughSlots
<1>4. QED
  BY <1>1, <1>2, <1>3 DEF QueueInv

\* What leaves the queue alone keeps what is known of it.
LEMMA QueueSame == QueueInv /\ UNCHANGED queueVars => QueueInv'
<1>1. QueueInv /\ UNCHANGED queueVars => CountInv'
  BY CountNext DEF QueueInv
<1>2. QueueInv /\ UNCHANGED queueVars => PendingTasksSound' /\ RoomInv' /\ ~shutting_down'
  BY DEF QueueInv, queueVars, PendingTasksSound, RoomInv, Matched, RetrySound
<1>3. QED
  BY <1>1, <1>2 DEF QueueInv

\* The queue inside the pipeline starts as it does alone.
LEMMA QueueStarts == QueueInit => QueueInv
<1>1. QueueInit => CountInv
  BY CountInit
<1>2. QueueInit => RoomInv
  BY RoomInit
<1>3. QueueInit => ~shutting_down
  BY DEF QueueInit
<1>4. QueueInit => PendingTasksSound
  <2>1. SUFFICES ASSUME QueueInit, NEW g \in Jids
                 PROVE  TaskListSound(g, groups[g])
    BY DEF PendingTasksSound, TaskListSound
  <2>2. groups[g].pending_tasks = <<>> /\ groups[g].pending_task_ids = {}
    BY <2>1 DEF QueueInit, NewGroupState
  <2>3. Range(<<>>) = {} /\ Len(<<>>) = 0
    BY DEF Range
  <2>4. QED
    BY <2>2, <2>3, QueueAssumption DEF TaskListSound
<1>5. QED
  BY <1>1, <1>2, <1>3, <1>4 DEF QueueInv

\* A crash empties the queue.
LEMMA QueueCrash == QueueInv /\ Crash => QueueInv'
<1>1. QueueInv /\ Crash => QueueInit'
  BY DEF QueueInv, QueueInit, Crash
<1>2. QED
  BY <1>1, QueueStarts, PTL

\* A step of the pipeline is a step of the queue, leaves it alone, or crashes.
LEMMA QueueNextInv ==
    ASSUME EnoughSlots, QueueInv, PipelineNext
    PROVE  QueueInv'
<1>1. CASE UNCHANGED queueVars
  BY <1>1, QueueSame
<1>2. CASE QueueNext /\ UNCHANGED shutting_down
  BY <1>2, QueueStep
<1>3. CASE Crash
  BY <1>3, QueueCrash
<1>4. ASSUME NEW g \in Jids, EnqueueMessageCheck(g)
      PROVE  QueueNext /\ UNCHANGED shutting_down
  BY <1>4 DEF QueueNext, EnqueueMessageCheck
<1>5. ASSUME NEW m \in Messages, OnMessageEnqueues(m)
      PROVE  QueueNext /\ UNCHANGED shutting_down
  BY <1>4, <1>5, PipelineAssumption DEF OnMessageEnqueues
<1>6. ASSUME NEW g \in Jids, PollEnqueues(g)
      PROVE  QueueNext /\ UNCHANGED shutting_down
  BY <1>4, <1>6 DEF PollEnqueues
<1>7. ASSUME NEW r \in runners, RunBegins(r) \/ RunReturns(r)
      PROVE  QueueNext /\ UNCHANGED shutting_down
  BY <1>7 DEF RunBegins, RunReturns, RunForGroupStarts, RunForGroupSucceeds,
              RunForGroupFails, QueueNext, RunnerStep
<1>8. ASSUME NEW g \in Jids, RetryFires(g)
      PROVE  QueueNext /\ UNCHANGED shutting_down
  BY <1>8 DEF RetryFires, RetryTimerFires, QueueNext
<1>9. ASSUME NEW j \in jobs, JobStep(j) PROVE UNCHANGED queueVars
  BY <1>9 DEF JobStep, Fetched, ContainerAnswers, ContainerFails, ReplyEnds
<1>10. QED
  BY <1>1, <1>2, <1>3, <1>5, <1>6, <1>7, <1>8, <1>9
     DEF PipelineNext, OnMessageStores, PollFinds, RefreshGroups, RegisterGroup,
         CooldownEnds, ResetGroup, Tick, Restart

-----------------------------------------------------------------------------
(* The tables, the dictionaries and the calls. *)

\* The process that is down takes no step but its restart.
LEMMA DownNext == DownInv /\ PipelineNext => DownInv'
<1> SUFFICES ASSUME DownInv, PipelineNext, ~up' PROVE DownInv'
  BY DEF DownInv
<1>1. CASE Crash
  BY <1>1 DEF Crash, DownInv
<1>2. CASE ~Crash
  <2>1. ~up
    BY <1>2 DEF PipelineNext, OnMessageStores, OnMessageEnqueues, PollFinds, PollEnqueues,
         RefreshGroups, RegisterGroup, RunBegins, JobStep, Fetched, ContainerAnswers,
         ContainerFails, ReplyEnds, RunReturns, RetryFires, CooldownEnds, ResetGroup,
         Tick, Restart, clockVars, hostVars
  <2>2. arriving = {} /\ polled = {} /\ jobs = {} /\ runners = {}
    BY <2>1 DEF DownInv
  <2>3. \A g \in Jids : ~RetryFires(g)
    <3>1. \A g \in Jids : ~ (retry_timers[g] > 0)
      BY <2>1 DEF DownInv
    <3>2. QED
      BY <3>1 DEF RetryFires, RetryTimerFires
  <2>4. \/ \E g \in Jids : CooldownEnds(g)
        \/ Tick
    BY <1>2, <2>1, <2>2, <2>3
       DEF PipelineNext, OnMessageStores, OnMessageEnqueues, PollFinds, PollEnqueues,
           RefreshGroups, RegisterGroup, ResetGroup, Crash, Restart
  <2>5. QED
    BY <2>1, <2>4 DEF DownInv, CooldownEnds, Tick, hostVars, queueVars
<1>3. QED
  BY <1>1, <1>2

\* The bounds of the pipeline are numbers, and every message has its group.
LEMMA Constants ==
    /\ TimeBound \in Nat \ {0} /\ CrashBound \in Nat /\ GROUP_MAX_FAILS \in Nat \ {0}
    /\ MsgJid \in [Messages -> Jids]
    /\ Missing = -1
BY PipelineAssumption DEF Missing

\* A call that is given to a container had fetched a batch and passed the guard.
Given(j, k) ==
    /\ Fetched(j) /\ j.stage = "fetching"
    /\ k.batch = NewMessages(j.jid, j.from) /\ k.batch # {}
    /\ k.upto = Latest(k.batch)
    /\ ~Resting(j.jid)
    /\ fails' = [fails EXCEPT ![j.jid] = Decayed(j.jid)]

\* A call reaches its end from every stage.
Falls(j) == Fetched(j) \/ ContainerFails(j) \/ ReplyEnds(j)

\* How a call goes on: as a call of the same coroutine, which is given to a
\* container, is answered by one, or is at its end.
GoesOn(j, k) ==
    /\ k \in Job
    /\ jobs' = (jobs \ {j}) \cup {k}
    /\ k.jid = j.jid /\ k.slot = j.slot /\ k.from = j.from
    /\ j.stage \in {"fetching", "container", "replying"}
    /\ \/ k.stage = "container" /\ Given(j, k)
       \/ k.stage = "replying" /\ ContainerAnswers(j)
       \/ k.stage \in {"passed", "failed"} /\ Falls(j)

\* A step of a call leaves a call of the same group and messages.
LEMMA CallGoesOn ==
    ASSUME TablesOK, NEW j \in jobs, JobStep(j)
    PROVE  \E k \in Job : GoesOn(j, k)
<1>0. j \in Job
  BY DEF TablesOK
<1>1. ASSUME NEW s \in Stages
      PROVE  /\ [j EXCEPT !.stage = s] \in Job
             /\ [j EXCEPT !.stage = s].stage = s
             /\ [j EXCEPT !.stage = s].jid = j.jid
             /\ [j EXCEPT !.stage = s].slot = j.slot
             /\ [j EXCEPT !.stage = s].from = j.from
  BY <1>0, <1>1 DEF Job
<1>2. /\ "fetching" \in Stages /\ "container" \in Stages /\ "replying" \in Stages
      /\ "passed" \in Stages /\ "failed" \in Stages
  BY DEF Stages
<1>3. CASE ContainerAnswers(j)
  <2> DEFINE k == [j EXCEPT !.stage = "replying"]
  <2>1. GoesOn(j, k)
    BY <1>1, <1>2, <1>3 DEF GoesOn, ContainerAnswers, Replace
  <2>2. QED
    BY <2>1 DEF GoesOn
<1>4. ASSUME Falls(j),
             NEW s \in {"passed", "failed"}, Replace(j, [j EXCEPT !.stage = s]),
             j.stage \in {"fetching", "container", "replying"}
      PROVE  \E k \in Job : GoesOn(j, k)
  <2> DEFINE k == [j EXCEPT !.stage = s]
  <2>1. k \in Job /\ k.stage = s /\ k.jid = j.jid /\ k.slot = j.slot /\ k.from = j.from
    BY <1>1, <1>2
  <2>2. QED
    BY <1>4, <2>1 DEF GoesOn, Replace
<1>5. ASSUME ContainerFails(j) \/ ReplyEnds(j)
      PROVE  /\ j.stage \in {"fetching", "container", "replying"}
             /\ \E s \in {"passed", "failed"} : Replace(j, [j EXCEPT !.stage = s])
  BY <1>5 DEF ContainerFails, ReplyEnds
<1>6. ASSUME Fetched(j), ~ \E s \in {"passed", "failed"} : Replace(j, [j EXCEPT !.stage = s])
      PROVE  \E k \in Job : GoesOn(j, k)
  <2> DEFINE batch == NewMessages(j.jid, j.from)
             k == [j EXCEPT !.stage = "container", !.batch = batch, !.upto = Latest(batch)]
  <2>1. /\ j.stage = "fetching" /\ batch # {} /\ Replace(j, k) /\ ~Resting(j.jid)
        /\ fails' = [fails EXCEPT ![j.jid] = Decayed(j.jid)]
    BY <1>6 DEF Fetched
  <2>2. batch \in SUBSET Messages
    BY DEF NewMessages
  <2>3. Latest(batch) \in 0..TimeBound
    <3> HIDE DEF batch
    <3>1. QED
      BY <2>1, <2>2, LatestFacts DEF TablesOK
  <2>4. /\ k \in Job /\ k.jid = j.jid /\ k.slot = j.slot /\ k.from = j.from
        /\ k.stage = "container" /\ k.batch = batch /\ k.upto = Latest(batch)
    BY <1>0, <2>2, <2>3 DEF Job, Stages
  <2>5. QED
    BY <1>6, <2>1, <2>4 DEF GoesOn, Given, Replace
<1>7. QED
  BY <1>3, <1>4, <1>5, <1>6 DEF JobStep, Fetched, Falls

\* Both cursors stay time stamps when the calls of a group advance them.
LEMMA AdvanceType ==
    ASSUME TablesOK, NEW g \in Jids, NEW upto \in 0..TimeBound, Advance(g, upto)
    PROVE  /\ cursors' \in [Jids -> Missing..TimeBound]
           /\ cursors'[g] \in 0..TimeBound
           /\ saved_cursors' = [saved_cursors EXCEPT ![g] = cursors'[g]]
           /\ saved_cursors' \in [Jids -> 0..TimeBound]
           /\ last_timestamp' \in 0..TimeBound
           /\ saved_last' \in 0..TimeBound
<1>1. cursors' = [cursors EXCEPT ![g] = Later(cursors[g], upto)]
  BY DEF Advance
<1>2. Later(cursors[g], upto) \in 0..TimeBound
  BY Constants DEF Later, TablesOK
<1>3. QED
  BY <1>1, <1>2, Constants DEF Advance, TablesOK, Later

\* Every step keeps the types of the tables, the cursors and the calls.
LEMMA TablesNext == TypeOK /\ TablesOK /\ PipelineNext => TablesOK'
<1> SUFFICES ASSUME TypeOK, TablesOK, PipelineNext PROVE TablesOK'
  OBVIOUS
<1> USE Constants
<1>1. ASSUME NEW m \in Messages, OnMessageStores(m) \/ OnMessageEnqueues(m)
      PROVE  TablesOK'
  BY <1>1 DEF TablesOK, OnMessageStores, OnMessageEnqueues, clockVars, cursorVars,
              groupVars, failVars, tableVars
<1>2. ASSUME NEW g \in Jids, PollFinds(g) \/ PollEnqueues(g) \/ RetryFires(g)
      PROVE  TablesOK'
  BY <1>2 DEF TablesOK, PollFinds, PollEnqueues, RetryFires, clockVars, cursorVars,
              groupVars, failVars, tableVars, hostVars
<1>3. CASE RefreshGroups
  <2>1. cursors' \in [Jids -> Missing..TimeBound]
    BY <1>3 DEF TablesOK, RefreshGroups
  <2>2. loaded' \subseteq registered' /\ refresh_flag' \in BOOLEAN
    BY <1>3 DEF RefreshGroups, tableVars
  <2>3. QED
    BY <1>3, <2>1, <2>2 DEF TablesOK, RefreshGroups, clockVars, failVars, tableVars, hostVars
<1>4. ASSUME NEW g \in Jids, RegisterGroup(g) PROVE TablesOK'
  <2>1. /\ registered' \subseteq Jids /\ loaded' \subseteq registered'
        /\ refresh_flag' \in BOOLEAN
    BY <1>4 DEF TablesOK, RegisterGroup
  <2>2. QED
    BY <1>4, <2>1 DEF TablesOK, RegisterGroup, clockVars, failVars, cursorVars, hostVars
<1>5. ASSUME NEW r \in runners, RunBegins(r) PROVE TablesOK'
  <2>1. r.jid \in Jids /\ r.slot \in Nat
    BY DEF TypeOK, Runner
  <2>2. Cursor(r.jid) \in 0..TimeBound
    BY <2>1 DEF Cursor, TablesOK
  <2>3. \A s \in Stages : JobOf(r, s, Cursor(r.jid)) \in Job
    BY <2>1, <2>2 DEF JobOf, Job
  <2>4. jobs' \subseteq Job
    BY <1>5, <2>3 DEF RunBegins, Stages, TablesOK
  <2>5. QED
    BY <1>5, <2>4 DEF TablesOK, RunBegins, clockVars, failVars, tableVars, cursorVars,
                      groupVars
<1>6. ASSUME NEW j \in jobs, JobStep(j) PROVE TablesOK'
  <2>0. j \in Job /\ j.jid \in Jids /\ j.upto \in 0..TimeBound
    BY DEF TablesOK, Job
  <2>1. jobs' \subseteq Job
    BY <1>6, CallGoesOn DEF TablesOK, GoesOn
  <2>2. fails' \in [Jids -> Nat] /\ cooling' \in [Jids -> BOOLEAN]
    <3>1. Decayed(j.jid) \in Nat
      BY <2>0 DEF Decayed, Later, TablesOK
    <3>2. fails \in [Jids -> Nat] /\ cooling \in [Jids -> BOOLEAN]
      BY DEF TablesOK
    <3>3. CASE Fetched(j)
      <4>1. ASSUME NEW b \in BOOLEAN PROVE [cooling EXCEPT ![j.jid] = b] \in [Jids -> BOOLEAN]
        BY <3>2
      <4>2. (cooling[j.jid] /\ fails[j.jid] < GROUP_MAX_FAILS) \in BOOLEAN
        OBVIOUS
      <4>3. \/ UNCHANGED failVars
            \/ /\ fails' = [fails EXCEPT ![j.jid] = Decayed(j.jid)]
               /\ cooling' = [cooling EXCEPT ![j.jid] =
                                 cooling[j.jid] /\ fails[j.jid] < GROUP_MAX_FAILS]
        BY <3>3 DEF Fetched
      <4>4. cooling' \in [Jids -> BOOLEAN]
        BY <3>2, <4>1, <4>2, <4>3 DEF failVars
      <4>5. fails' \in [Jids -> Nat]
        BY <3>1, <3>2, <4>3 DEF failVars
      <4>6. QED
        BY <4>4, <4>5
    <3>4. CASE ContainerAnswers(j)
      BY <2>0, <3>2, <3>4 DEF ContainerAnswers
    <3>5. CASE ContainerFails(j) \/ ReplyEnds(j)
      <4>1. UNCHANGED failVars \/ CountFailure(j.jid)
        BY <3>5 DEF ContainerFails, ReplyEnds
      <4>2. fails[j.jid] + 1 \in Nat
        BY <2>0, <3>2
      <4>3. fails' \in [Jids -> Nat]
        BY <3>2, <4>1, <4>2 DEF CountFailure, failVars
      <4>4. cooling' \in [Jids -> BOOLEAN]
        BY <3>2, <4>1 DEF CountFailure, failVars
      <4>5. QED
        BY <4>3, <4>4
    <3>6. QED
      BY <1>6, <3>3, <3>4, <3>5 DEF JobStep
  <2>3. handled' \in [Messages -> 0..2]
    <3>1. CASE ContainerAnswers(j)
      BY <3>1 DEF ContainerAnswers, TablesOK
    <3>2. QED
      BY <1>6, <3>1 DEF JobStep, Fetched, ContainerFails, ReplyEnds, TablesOK
  <2>4. /\ cursors' \in [Jids -> Missing..TimeBound]
        /\ saved_cursors' \in [Jids -> 0..TimeBound]
        /\ last_timestamp' \in 0..TimeBound
        /\ saved_last' \in 0..TimeBound
    <3>1. CASE ContainerAnswers(j)
      BY <2>0, <3>1, AdvanceType DEF ContainerAnswers
    <3>2. QED
      BY <1>6, <3>1 DEF JobStep, Fetched, ContainerFails, ReplyEnds, TablesOK,
                        cursorVars, tableVars
  <2>5. UNCHANGED <<now, at, arriving, registered, loaded, refresh_flag, polled, up, crashes>>
    BY <1>6 DEF JobStep, Fetched, ContainerAnswers, ContainerFails, ReplyEnds, clockVars,
                groupVars, tableVars
  <2>6. QED
    BY <2>1, <2>2, <2>3, <2>4, <2>5 DEF TablesOK
<1>7. ASSUME NEW r \in runners, RunReturns(r) PROVE TablesOK'
  <2>1. jobs' \subseteq jobs
    BY <1>7 DEF RunReturns
  <2>2. UNCHANGED <<clockVars, tableVars, cursorVars, groupVars, failVars, handled,
                    arriving, polled, up>>
    BY <1>7 DEF RunReturns
  <2>3. QED
    BY <2>1, <2>2 DEF TablesOK, clockVars, failVars, tableVars, cursorVars, groupVars
<1>8. ASSUME NEW g \in Jids, CooldownEnds(g) \/ ResetGroup(g) PROVE TablesOK'
  <2>1. fails \in [Jids -> Nat] /\ cooling \in [Jids -> BOOLEAN]
    BY DEF TablesOK
  <2>2. fails' \in [Jids -> Nat]
    BY <1>8, <2>1 DEF CooldownEnds, ResetGroup
  <2>3. cooling' \in [Jids -> BOOLEAN]
    BY <1>8, <2>1 DEF CooldownEnds, ResetGroup
  <2>4. UNCHANGED <<clockVars, tableVars, cursorVars, groupVars, handled, hostVars>>
    BY <1>8 DEF CooldownEnds, ResetGroup
  <2>5. QED
    BY <2>2, <2>3, <2>4 DEF TablesOK, clockVars, tableVars, cursorVars, groupVars, hostVars
<1>9. CASE Tick \/ Crash
  <2>1. now' \in 1..TimeBound /\ crashes' \in 0..CrashBound /\ up' \in BOOLEAN
    <3>1. now \in 1..TimeBound /\ crashes \in 0..CrashBound /\ up \in BOOLEAN
      BY DEF TablesOK
    <3>2. CASE Tick
      BY <3>1, <3>2 DEF Tick, hostVars
    <3>3. CASE Crash
      <4>1. now' = now /\ crashes < CrashBound /\ crashes' = crashes + 1 /\ up' = FALSE
        BY <3>3 DEF Crash
      <4>2. now' \in 1..TimeBound /\ crashes' \in 0..CrashBound
        BY <3>1, <4>1
      <4>3. up' \in BOOLEAN
        BY <4>1
      <4>4. QED
        BY <4>2, <4>3
    <3>4. QED
      BY <1>9, <3>2, <3>3
  <2>2. arriving' \subseteq Messages /\ polled' \subseteq Jids /\ jobs' \subseteq Job
    BY <1>9 DEF TablesOK, Tick, Crash, hostVars
  <2>3. UNCHANGED <<tableVars, cursorVars, groupVars, failVars, handled>>
    BY <1>9 DEF Tick, Crash
  <2>4. QED
    BY <2>1, <2>2, <2>3 DEF TablesOK, tableVars, cursorVars, groupVars, failVars
<1>10. CASE Restart
  <2>1. /\ saved_last \in Missing..TimeBound /\ Missing \in Missing..TimeBound
        /\ \A g \in Jids : saved_cursors[g] \in Missing..TimeBound
    BY DEF TablesOK
  <2>2. cursors' \in [Jids -> Missing..TimeBound]
    BY <1>10, <2>1 DEF Restart
  <2>3. fails' \in [Jids -> Nat] /\ cooling' \in [Jids -> BOOLEAN]
    BY <1>10 DEF Restart
  <2>4. QED
    BY <1>10, <2>2, <2>3 DEF TablesOK, Restart, clockVars, tableVars
<1>11. QED
  BY <1>1, <1>2, <1>3, <1>4, <1>5, <1>6, <1>7, <1>8, <1>9, <1>10 DEF PipelineNext

-----------------------------------------------------------------------------
(* The calls and their coroutines. *)

\* What a step of the pipeline does to the coroutines that run.
RunningKept(S) == \A q \in runners : q.phase = "running" /\ q \notin S => q \in runners'

\* The end of a call is the end of its coroutine only.
LEMMA ReturnKeeps ==
    ASSUME NEW r \in runners, RunReturns(r) PROVE RunningKept({r})
<1>1. CASE RunForGroupSucceeds(r)
  BY <1>1, DrainKeeps DEF RunForGroupSucceeds, RunningKept
<1>2. CASE RunForGroupFails(r)
  BY <1>2, DrainKeeps DEF RunForGroupFails, RunningKept
<1>3. QED
  BY <1>1, <1>2 DEF RunReturns

\* Apart from the crash, a step ends at most one run of the queue.
LEMMA RunnersKept ==
    ASSUME PipelineNext, ~Crash
    PROVE  \/ RunningKept({})
           \/ \E r \in runners : RunReturns(r) /\ RunningKept({r})
<1>1. CASE UNCHANGED queueVars
  BY <1>1 DEF RunningKept, queueVars
<1>3. ASSUME NEW m \in Messages, OnMessageEnqueues(m) PROVE RunningKept({})
  <2>1. MessageCheck(MsgJid[m], groups[MsgJid[m]], FALSE) /\ MsgJid[m] \in Jids
    BY <1>3, Constants DEF OnMessageEnqueues, EnqueueMessageCheck
  <2>2. QED
    BY <2>1, CheckKeeps DEF RunningKept
<1>4. ASSUME NEW g \in Jids, PollEnqueues(g) PROVE RunningKept({})
  <2>1. MessageCheck(g, groups[g], FALSE)
    BY <1>4 DEF PollEnqueues, EnqueueMessageCheck
  <2>2. QED
    BY <2>1, CheckKeeps DEF RunningKept
<1>5. ASSUME NEW g \in Jids, RetryFires(g) PROVE RunningKept({})
  <2>1. CASE MessageCheck(g, [groups[g] EXCEPT !.retry_ready = TRUE], TRUE)
    BY <2>1, CheckKeeps DEF RunningKept
  <2>2. CASE UNCHANGED slotVars
    BY <2>2 DEF RunningKept, slotVars
  <2>3. QED
    BY <1>5, <2>1, <2>2 DEF RetryFires, RetryTimerFires
<1>6. ASSUME NEW r \in runners, RunBegins(r) PROVE RunningKept({})
  BY <1>6 DEF RunBegins, RunForGroupStarts, RunningKept
<1>7. ASSUME NEW r \in runners, RunReturns(r) PROVE RunningKept({r})
  BY <1>7, ReturnKeeps
<1>8. ASSUME NEW j \in jobs, JobStep(j) PROVE UNCHANGED queueVars
  BY <1>8 DEF JobStep, Fetched, ContainerAnswers, ContainerFails, ReplyEnds
<1>9. QED
  BY <1>1, <1>3, <1>4, <1>5, <1>6, <1>7, <1>8
     DEF PipelineNext, OnMessageStores, PollFinds, RefreshGroups, RegisterGroup,
         CooldownEnds, ResetGroup, Tick, Restart

\* What a step does to the calls: none, one more, one on, one less, or all gone.
LEMMA CallSteps ==
    ASSUME PipelineNext
    PROVE  \/ UNCHANGED jobs
           \/ \E r \in runners : RunBegins(r)
           \/ \E j \in jobs : JobStep(j)
           \/ \E r \in runners : RunReturns(r)
           \/ Crash
BY DEF PipelineNext, OnMessageStores, OnMessageEnqueues, PollFinds, PollEnqueues,
       RefreshGroups, RegisterGroup, RetryFires, CooldownEnds, ResetGroup, Tick, Restart,
       hostVars

\* The groups known to the process only grow while it runs.
LEMMA LoadedKept ==
    ASSUME TablesOK, DownInv, PipelineNext
    PROVE  /\ registered \subseteq registered'
           /\ jobs # {} => loaded \subseteq loaded'
<1>1. CASE UNCHANGED <<registered, loaded>>
  BY <1>1
<1>2. ASSUME \/ RefreshGroups \/ \E g \in Jids : RegisterGroup(g) PROVE
      /\ registered \subseteq registered'
      /\ loaded \subseteq loaded'
  BY <1>2 DEF RefreshGroups, RegisterGroup, tableVars, TablesOK
<1>3. CASE Restart
  BY <1>3 DEF Restart, tableVars, DownInv
<1>4. QED
  BY <1>1, <1>2, <1>3
     DEF PipelineNext, OnMessageStores, OnMessageEnqueues, PollFinds, PollEnqueues,
         RunBegins, JobStep, Fetched, ContainerAnswers, ContainerFails, ReplyEnds,
         RunReturns, RetryFires, CooldownEnds, ResetGroup, Tick, Crash, tableVars, groupVars

\* Every step keeps the calls in accord with the runners of the queue.
LEMMA JobsNext ==
    ASSUME TypeOK, RoomInv, TablesOK, DownInv, JobsInv, PipelineNext
    PROVE  JobsInv'
<1> USE DEF JobsInv
<1>0. jobs # {} => loaded \subseteq loaded'
  BY LoadedKept
<1>1. CASE Crash
  BY <1>1 DEF Crash
<1>2. CASE UNCHANGED jobs /\ ~Crash
  <2>1. RunningKept({}) \/ \E r \in runners : RunReturns(r)
    BY <1>2, RunnersKept
  <2>2. CASE RunningKept({})
    BY <1>0, <1>2, <2>2 DEF RunningKept
  <2>3. ASSUME NEW r \in runners, RunReturns(r) PROVE FALSE
    BY <1>2, <2>3 DEF RunReturns
  <2>4. QED
    BY <2>1, <2>2, <2>3
<1>3. ASSUME NEW r \in runners, RunBegins(r) PROVE JobsInv'
  <2> DEFINE k == JobOf(r, IF r.jid \in loaded THEN "fetching" ELSE "passed", Cursor(r.jid))
  <2>1. /\ jobs' = jobs \cup {k}
        /\ k.jid = r.jid /\ k.slot = r.slot
        /\ k.stage = "fetching" => k.jid \in loaded
        /\ k.stage \notin {"container", "replying"}
        /\ UNCHANGED loaded
    BY <1>3 DEF RunBegins, JobOf, groupVars
  <2> HIDE DEF k
  <2>2. /\ r.phase = "created" /\ r \in Runner
        /\ runners' = (runners \ {r}) \cup {Running(r)}
        /\ Running(r).jid = r.jid /\ Running(r).slot = r.slot /\ Running(r).phase = "running"
    BY <1>3 DEF RunBegins, RunForGroupStarts, TypeOK, Running, Runner
  <2>3. \A j \in jobs : j.jid # r.jid
    <3>1. SUFFICES ASSUME NEW j \in jobs, j.jid = r.jid PROVE FALSE
      OBVIOUS
    <3>2. PICK q \in runners : q.jid = j.jid /\ q.phase = "running"
      OBVIOUS
    <3>3. q = r
      BY <3>1, <3>2 DEF RoomInv
    <3>4. QED
      BY <2>2, <3>2, <3>3
  <2>4. \A j \in jobs' : \E q \in runners' : /\ q.jid = j.jid /\ q.slot = j.slot
                                             /\ q.phase = "running"
    BY <2>1, <2>2
  <2>5. \A i, j \in jobs' : i.jid = j.jid => i = j
    BY <2>1, <2>3
  <2>6. QED
    BY <2>1, <2>4, <2>5
<1>4. ASSUME NEW j \in jobs, JobStep(j) PROVE JobsInv'
  <2>1. PICK k \in Job : GoesOn(j, k)
    BY <1>4, CallGoesOn
  <2>2. UNCHANGED <<runners, loaded>>
    BY <1>4 DEF JobStep, Fetched, ContainerAnswers, ContainerFails, ReplyEnds, queueVars,
                groupVars
  <2>3. /\ jobs' = (jobs \ {j}) \cup {k} /\ k.jid = j.jid /\ k.slot = j.slot
        /\ j.jid \in loaded
    BY <2>1 DEF GoesOn
  <2>4. QED
    BY <2>2, <2>3
<1>5. ASSUME NEW r \in runners, RunReturns(r) PROVE JobsInv'
  <2>1. PICK j \in jobs : /\ j.jid = r.jid /\ jobs' = jobs \ {j}
    BY <1>5 DEF RunReturns
  <2>2. UNCHANGED loaded
    BY <1>5 DEF RunReturns, groupVars
  <2>3. RunningKept({r})
    BY <1>5, ReturnKeeps
  <2>4. \A i \in jobs' : \E q \in runners' : /\ q.jid = i.jid /\ q.slot = i.slot
                                             /\ q.phase = "running"
    BY <2>1, <2>3 DEF RunningKept
  <2>5. QED
    BY <2>1, <2>2, <2>4
<1>6. QED
  BY <1>1, <1>2, <1>3, <1>4, <1>5, CallSteps

\* The counter decays below the limit when the guard lets a call pass, and only
\* the call itself counts its failure.
LEMMA FailsNext ==
    ASSUME TablesOK, DownInv, JobsInv, FailsInv, PipelineNext
    PROVE  FailsInv'
<1> USE Constants
<1>0. /\ fails \in [Jids -> Nat] /\ jobs \subseteq Job
      /\ \A g \in Jids : fails[g] <= GROUP_MAX_FAILS
      /\ \A j \in jobs : j.jid \in Jids
      /\ \A j \in jobs : j.stage \in {"container", "replying"}
                           => fails[j.jid] < GROUP_MAX_FAILS
  BY DEF TablesOK, FailsInv, FailureGuardHolds, Job
<1>1. SUFFICES /\ \A g \in Jids : fails'[g] <= GROUP_MAX_FAILS
               /\ \A j \in jobs' : j.stage \in {"container", "replying"}
                                     => fails'[j.jid] < GROUP_MAX_FAILS
  BY DEF FailsInv, FailureGuardHolds
<1>2. ASSUME NEW g \in Jids, ResetGroup(g) PROVE FailsInv'
  <2>1. fails' = [fails EXCEPT ![g] = 0] /\ jobs' = jobs
    BY <1>2 DEF ResetGroup, hostVars
  <2>2. QED
    BY <1>0, <2>1 DEF FailsInv, FailureGuardHolds
<1>3. CASE Restart
  BY <1>0, <1>3 DEF Restart, DownInv, FailsInv, FailureGuardHolds
<1>4. ASSUME NEW r \in runners, RunBegins(r) PROVE FailsInv'
  <2>1. fails' = fails /\ \A j \in jobs' \ jobs : j.stage \in {"fetching", "passed"}
    BY <1>4 DEF RunBegins, JobOf, failVars
  <2>2. QED
    BY <1>0, <2>1 DEF FailsInv, FailureGuardHolds
<1>5. ASSUME NEW j \in jobs, JobStep(j) PROVE FailsInv'
  <2> DEFINE g == j.jid
  <2>1. PICK k \in Job : GoesOn(j, k)
    BY <1>5, CallGoesOn
  <2>2. g \in Jids /\ \A i \in jobs : i # j => i.jid # g
    BY <1>0 DEF JobsInv
  <2>3. jobs' = (jobs \ {j}) \cup {k} /\ k.jid = g
    BY <2>1 DEF GoesOn
  <2>4. \/ /\ k.stage = "container"
           /\ fails' = [fails EXCEPT ![g] = Decayed(g)]
        \/ k.stage = "replying" /\ fails' = [fails EXCEPT ![g] = 0]
        \/ /\ k.stage \in {"passed", "failed"}
           /\ \/ fails' = fails
              \/ fails' = [fails EXCEPT ![g] = Decayed(g)]
              \/ /\ j.stage \in {"container", "replying"}
                 /\ fails' = [fails EXCEPT ![g] = @ + 1]
    <3>1. ASSUME Falls(j)
          PROVE  \/ fails' = fails
                 \/ fails' = [fails EXCEPT ![g] = Decayed(g)]
                 \/ /\ j.stage \in {"container", "replying"}
                    /\ fails' = [fails EXCEPT ![g] = @ + 1]
      BY <3>1 DEF Falls, Fetched, ContainerFails, ReplyEnds, CountFailure, failVars
    <3>2. QED
      BY <2>1, <3>1 DEF GoesOn, Given, ContainerAnswers
  <2>5. Decayed(g) \in Nat /\ Decayed(g) < GROUP_MAX_FAILS
    BY <1>0, <2>2 DEF Decayed, Later
  <2>6. /\ \A h \in Jids : h # g => fails'[h] = fails[h]
        /\ fails'[g] <= GROUP_MAX_FAILS
        /\ k.stage \in {"container", "replying"} => fails'[g] < GROUP_MAX_FAILS
    BY <1>0, <2>2, <2>4, <2>5
  <2>7. QED
    BY <1>0, <2>2, <2>3, <2>6 DEF FailsInv, FailureGuardHolds
<1>6. CASE fails' = fails /\ jobs' \subseteq jobs
  BY <1>0, <1>6
<1>7. QED
  BY <1>1, <1>2, <1>3, <1>4, <1>5, <1>6
     DEF PipelineNext, OnMessageStores, OnMessageEnqueues, PollFinds, PollEnqueues,
         RefreshGroups, RegisterGroup, RunReturns, RetryFires, CooldownEnds, Tick, Crash,
         failVars, hostVars, FailsInv, FailureGuardHolds

-----------------------------------------------------------------------------
(* The cursors and what is acknowledged. *)

cursorState == <<at, registered, cursors, saved_cursors, handled, up>>

\* What a group's cursor in memory is worth: it is never behind the saved one.
LEMMA CursorAhead ==
    ASSUME TablesOK, SavedMatchesMemory, up, NEW g \in Jids
    PROVE  /\ Cursor(g) \in 0..TimeBound
           /\ Cursor(g) >= saved_cursors[g]
<1>1. /\ cursors[g] \in Missing..TimeBound /\ saved_cursors[g] \in 0..TimeBound
      /\ last_timestamp \in 0..TimeBound
      /\ saved_cursors[g] # 0 => saved_cursors[g] = cursors[g]
  BY DEF TablesOK, SavedMatchesMemory
<1>2. QED
  BY <1>1, Constants DEF Cursor

\* An answered call acknowledges its batch for the first time and moves the
\* cursor of its group past it.
LEMMA AnswerCursor ==
    ASSUME TablesOK, DownInv, JobsInv, CursorInv,
           NEW j \in jobs, NEW k \in Job, ContainerAnswers(j), GoesOn(j, k),
           k.stage = "replying"
    PROVE  CursorInv'
<1> USE Constants
<1> DEFINE g == j.jid
<1>0. /\ up /\ j.stage = "container" /\ g \in Jids /\ g \in registered
      /\ j.upto \in 0..TimeBound
      /\ \A i \in jobs : i # j => i.jid # g
      /\ \A m \in j.batch : MsgJid[m] = g /\ handled[m] = 0 /\ at[m] > 0 /\ at[m] <= j.upto
  <2>1. j \in Job
    BY DEF TablesOK
  <2>2. up
    BY DEF DownInv
  <2>3. j.stage = "container"
    BY DEF ContainerAnswers
  <2>4. \A i \in jobs : i # j => i.jid # g
    BY DEF JobsInv
  <2>5. g \in registered
    BY <2>3 DEF JobsInv, TablesOK
  <2>6. QED
    BY <2>1, <2>2, <2>3, <2>4, <2>5 DEF Job, CursorInv
<1>1. /\ cursors \in [Jids -> Missing..TimeBound]
      /\ saved_cursors \in [Jids -> 0..TimeBound]
      /\ handled \in [Messages -> 0..2] /\ at \in [Messages -> 0..TimeBound]
      /\ cursors' = [cursors EXCEPT ![g] = Later(cursors[g], j.upto)]
      /\ saved_cursors' = [saved_cursors EXCEPT ![g] = cursors'[g]]
      /\ handled' = [m \in Messages |-> IF m \in j.batch /\ handled[m] < 2
                                        THEN handled[m] + 1 ELSE handled[m]]
      /\ UNCHANGED <<at, registered, up>>
  BY DEF TablesOK, ContainerAnswers, Advance
<1>2. /\ cursors'[g] \in 0..TimeBound
      /\ cursors'[g] >= j.upto
      /\ saved_cursors'[g] = cursors'[g]
      /\ saved_cursors'[g] >= saved_cursors[g]
      /\ \A h \in Jids : h # g => /\ cursors'[h] = cursors[h]
                                  /\ saved_cursors'[h] = saved_cursors[h]
  <2>1. saved_cursors[g] # 0 => saved_cursors[g] = cursors[g]
    BY <1>0 DEF CursorInv, SavedMatchesMemory
  <2>2. /\ Later(cursors[g], j.upto) \in 0..TimeBound
        /\ Later(cursors[g], j.upto) >= j.upto
        /\ Later(cursors[g], j.upto) >= cursors[g]
    BY <1>0, <1>1 DEF Later
  <2>3. cursors'[g] = Later(cursors[g], j.upto) /\ saved_cursors'[g] = cursors'[g]
    BY <1>0, <1>1
  <2>4. QED
    BY <1>0, <1>1, <2>1, <2>2, <2>3
<1>3. SavedMatchesMemory'
  <2>1. \A h \in Jids : saved_cursors'[h] # 0 => saved_cursors'[h] = cursors'[h]
    BY <1>0, <1>2 DEF CursorInv, SavedMatchesMemory
  <2>2. QED
    BY <2>1 DEF SavedMatchesMemory
<1>4. \A h \in Jids : saved_cursors'[h] # 0 => h \in registered'
  BY <1>0, <1>1, <1>2 DEF CursorInv
<1>5. \A m \in Messages : handled'[m] =
          IF m \in j.batch THEN 1 ELSE handled[m]
  BY <1>0, <1>1
<1>6. \A m \in Messages : handled'[m] > 0 => /\ at'[m] > 0
                                             /\ at'[m] <= saved_cursors'[MsgJid[m]]
  <2>1. SUFFICES ASSUME NEW m \in Messages, handled'[m] > 0
                 PROVE  at[m] > 0 /\ at[m] <= saved_cursors'[MsgJid[m]]
    BY <1>1
  <2>2. CASE m \in j.batch
    BY <1>0, <1>1, <1>2, <2>2
  <2>3. CASE m \notin j.batch
    <3>1. at[m] > 0 /\ at[m] <= saved_cursors[MsgJid[m]] /\ MsgJid[m] \in Jids
      BY <1>5, <2>1, <2>3 DEF CursorInv
    <3>2. saved_cursors[MsgJid[m]] <= saved_cursors'[MsgJid[m]]
      BY <1>1, <1>2, <3>1
    <3>3. saved_cursors'[MsgJid[m]] \in Int /\ saved_cursors[MsgJid[m]] \in Int
      BY <1>1, <1>2, <3>1
    <3>4. QED
      BY <1>1, <3>1, <3>2, <3>3
  <2>4. QED
    BY <2>2, <2>3
<1>7. jobs' = (jobs \ {j}) \cup {k} /\ k.stage = "replying"
  BY DEF GoesOn
<1>8. \A i \in jobs' : i.stage = "fetching" => i.from >= saved_cursors'[i.jid]
  <2>1. \A i \in jobs : i.jid \in Jids
    BY DEF TablesOK, Job
  <2>2. QED
    BY <1>0, <1>2, <1>7, <2>1 DEF CursorInv
<1>9. \A i \in jobs' : i.stage = "container" =>
          \A m \in i.batch : /\ MsgJid[m] = i.jid /\ handled'[m] = 0
                             /\ at'[m] > 0 /\ at'[m] <= i.upto
  <2>1. SUFFICES ASSUME NEW i \in jobs, i # j, i.stage = "container", NEW m \in i.batch
                 PROVE  MsgJid[m] = i.jid /\ handled'[m] = 0 /\ at[m] > 0 /\ at[m] <= i.upto
    BY <1>1, <1>7
  <2>2. MsgJid[m] = i.jid /\ handled[m] = 0 /\ at[m] > 0 /\ at[m] <= i.upto
    BY <2>1 DEF CursorInv
  <2>3. m \notin j.batch /\ m \in Messages
    BY <1>0, <2>1, <2>2 DEF TablesOK, Job
  <2>4. QED
    BY <1>5, <2>2, <2>3
<1>10. HandledAtMostOnce'
  BY <1>5, <1>1 DEF CursorInv, HandledAtMostOnce
<1>11. QED
  BY <1>3, <1>4, <1>6, <1>8, <1>9, <1>10 DEF CursorInv

\* A call that is given to a container was given messages ahead of the cursor,
\* which nobody has acknowledged.
LEMMA GivenCursor ==
    ASSUME TablesOK, CursorInv, NEW j \in jobs, NEW k \in Job,
           GoesOn(j, k), Given(j, k), k.stage = "container"
    PROVE  CursorInv'
<1> USE Constants
<1>0. /\ at \in [Messages -> 0..TimeBound] /\ saved_cursors \in [Jids -> 0..TimeBound]
      /\ handled \in [Messages -> 0..2]
      /\ j.jid \in Jids /\ j.from \in 0..TimeBound
      /\ j.from >= saved_cursors[j.jid]
      /\ k.jid = j.jid /\ k.batch = NewMessages(j.jid, j.from) /\ k.upto = Latest(k.batch)
      /\ jobs' = (jobs \ {j}) \cup {k}
      /\ k.batch # {}
  BY DEF TablesOK, CursorInv, GoesOn, Given, Job
<1>1. UNCHANGED cursorState
  BY DEF Given, Fetched, cursorState, tableVars, cursorVars
<1>2. \A m \in k.batch : m \in Messages /\ MsgJid[m] = k.jid /\ at[m] > j.from
  BY <1>0 DEF NewMessages
<1>3. \A m \in k.batch : at[m] <= k.upto
  <2>1. k.batch \in SUBSET Messages
    BY <1>2
  <2>2. QED
    BY <1>0, <2>1, LatestFacts
<1>4. \A m \in k.batch : at[m] > 0 /\ handled[m] = 0
  <2>1. SUFFICES ASSUME NEW m \in k.batch PROVE at[m] > 0 /\ handled[m] = 0
    OBVIOUS
  <2>2. /\ at[m] \in 0..TimeBound /\ at[m] > j.from /\ handled[m] \in 0..2
        /\ saved_cursors[j.jid] \in 0..TimeBound
    BY <1>0, <1>2
  <2>3. handled[m] > 0 => at[m] <= saved_cursors[j.jid]
    BY <1>0, <1>2 DEF CursorInv
  <2>4. QED
    BY <1>0, <2>2, <2>3
<1>5. \A i \in jobs' : i.stage = "container" =>
          \A m \in i.batch : /\ MsgJid[m] = i.jid /\ handled[m] = 0
                             /\ at[m] > 0 /\ at[m] <= i.upto
  BY <1>0, <1>2, <1>3, <1>4 DEF CursorInv
<1>6. QED
  BY <1>0, <1>1, <1>5 DEF CursorInv, cursorState, SavedMatchesMemory, HandledAtMostOnce

\* Every step keeps the cursors in memory, on disk and in the calls in accord.
LEMMA CursorNext ==
    ASSUME TypeOK, TablesOK, DownInv, JobsInv, CursorInv, PipelineNext
    PROVE  CursorInv'
<1> USE Constants
<1>1. CASE UNCHANGED cursorState /\ \A k \in jobs' : k \in jobs \/ k.stage \in {"passed", "failed"}
  BY <1>1 DEF CursorInv, cursorState, SavedMatchesMemory, HandledAtMostOnce
<1>2. ASSUME NEW m \in Messages, OnMessageStores(m) PROVE CursorInv'
  <2>1. /\ at[m] = 0 /\ at' = [at EXCEPT ![m] = now] /\ now > 0
        /\ at \in [Messages -> 0..TimeBound] /\ handled \in [Messages -> 0..2]
        /\ UNCHANGED <<registered, cursors, saved_cursors, handled, up, jobs>>
        /\ jobs \subseteq Job
    BY <1>2 DEF OnMessageStores, TablesOK, cursorVars
  <2>2. handled[m] = 0
    BY <2>1 DEF CursorInv
  <2>3. \A n \in Messages : handled'[n] > 0 => /\ at'[n] > 0
                                               /\ at'[n] <= saved_cursors'[MsgJid[n]]
    BY <2>1, <2>2 DEF CursorInv
  <2>4. \A i \in jobs' : i.stage = "container" =>
            \A n \in i.batch : /\ MsgJid[n] = i.jid /\ handled'[n] = 0
                               /\ at'[n] > 0 /\ at'[n] <= i.upto
    <3>1. SUFFICES ASSUME NEW i \in jobs, i.stage = "container", NEW n \in i.batch
                   PROVE  /\ MsgJid[n] = i.jid /\ handled[n] = 0
                          /\ at'[n] > 0 /\ at'[n] <= i.upto
      BY <2>1
    <3>2. MsgJid[n] = i.jid /\ handled[n] = 0 /\ at[n] > 0 /\ at[n] <= i.upto
      BY <3>1 DEF CursorInv
    <3>3. n \in Messages /\ n # m
      BY <2>1, <3>2 DEF Job
    <3>4. QED
      BY <2>1, <3>2, <3>3
  <2>5. QED
    BY <2>1, <2>3, <2>4 DEF CursorInv, SavedMatchesMemory, HandledAtMostOnce
<1>3. CASE RefreshGroups
  <2>1. /\ UNCHANGED <<at, registered, saved_cursors, handled, up, jobs>>
        /\ cursors' = [g \in Jids |-> IF g \in registered /\ cursors[g] = Missing
                                      THEN last_timestamp ELSE cursors[g]]
        /\ saved_cursors \in [Jids -> 0..TimeBound]
    BY <1>3 DEF RefreshGroups, tableVars, hostVars, TablesOK
  <2>2. SavedMatchesMemory'
    BY <2>1 DEF CursorInv, SavedMatchesMemory
  <2>3. QED
    BY <2>1, <2>2 DEF CursorInv, HandledAtMostOnce
<1>4. ASSUME NEW g \in Jids, RegisterGroup(g) PROVE CursorInv'
  BY <1>4 DEF RegisterGroup, CursorInv, SavedMatchesMemory, HandledAtMostOnce, cursorVars,
              hostVars
<1>5. ASSUME NEW r \in runners, RunBegins(r) PROVE CursorInv'
  <2> DEFINE k == JobOf(r, IF r.jid \in loaded THEN "fetching" ELSE "passed", Cursor(r.jid))
  <2>1. /\ jobs' = jobs \cup {k}
        /\ k.jid = r.jid /\ k.from = Cursor(r.jid) /\ k.stage \in {"fetching", "passed"}
        /\ UNCHANGED cursorState
    BY <1>5 DEF RunBegins, JobOf, cursorState, tableVars, cursorVars
  <2> HIDE DEF k
  <2>2. Cursor(r.jid) >= saved_cursors[r.jid]
    <3>1. up /\ r.jid \in Jids /\ SavedMatchesMemory
      BY DEF DownInv, CursorInv, TypeOK, Runner
    <3>2. QED
      BY <3>1, CursorAhead
  <2>3. \A i \in jobs' : i.stage = "fetching" => i.from >= saved_cursors[i.jid]
    BY <2>1, <2>2 DEF CursorInv
  <2>4. QED
    BY <2>1, <2>3 DEF CursorInv, cursorState, SavedMatchesMemory, HandledAtMostOnce
<1>6. ASSUME NEW j \in jobs, JobStep(j) PROVE CursorInv'
  <2>1. PICK k \in Job : GoesOn(j, k)
    BY <1>6, CallGoesOn
  <2>2. CASE k.stage = "container" /\ Given(j, k)
    BY <2>1, <2>2, GivenCursor
  <2>3. CASE k.stage = "replying" /\ ContainerAnswers(j)
    BY <2>1, <2>3, AnswerCursor
  <2>4. CASE k.stage \in {"passed", "failed"} /\ Falls(j)
    <3>1. UNCHANGED cursorState
      BY <2>4 DEF Falls, Fetched, ContainerFails, ReplyEnds, cursorState, tableVars, cursorVars
    <3>2. jobs' = (jobs \ {j}) \cup {k}
      BY <2>1 DEF GoesOn
    <3>3. QED
      BY <1>1, <2>4, <3>1, <3>2
  <2>5. QED
    BY <2>1, <2>2, <2>3, <2>4 DEF GoesOn
<1>7. CASE Crash
  BY <1>7 DEF Crash, CursorInv, SavedMatchesMemory, HandledAtMostOnce, tableVars, cursorVars
<1>8. CASE Restart
  <2>1. /\ UNCHANGED <<at, registered, saved_cursors, handled, jobs>> /\ jobs = {}
        /\ cursors' = [g \in Jids |-> IF g \notin registered THEN Missing
                                      ELSE IF saved_cursors[g] # 0 THEN saved_cursors[g]
                                      ELSE saved_last]
    BY <1>8 DEF Restart, tableVars, DownInv
  <2>2. SavedMatchesMemory'
    BY <2>1 DEF CursorInv, SavedMatchesMemory
  <2>3. QED
    BY <2>1, <2>2 DEF CursorInv, HandledAtMostOnce
<1>9. QED
  BY <1>1, <1>2, <1>3, <1>4, <1>5, <1>6, <1>7, <1>8
     DEF PipelineNext, OnMessageEnqueues, PollFinds, PollEnqueues, RunReturns, RetryFires,
         CooldownEnds, ResetGroup, Tick, cursorState, tableVars, cursorVars, hostVars

-----------------------------------------------------------------------------
(* The invariant. *)

\* The pipeline starts with no call and with every cursor before the first message.
LEMMA PipelineStarts == PipelineInit => PipelineInv
<1> SUFFICES ASSUME PipelineInit PROVE PipelineInv
  OBVIOUS
<1> USE Constants
<1>1. QueueInv
  BY QueueStarts DEF PipelineInit
<1>2. TablesOK
  <2>1. /\ now = 1 /\ at = [m \in Messages |-> 0] /\ arriving = {}
        /\ registered = InitiallyRegistered /\ loaded = InitiallyRegistered
        /\ refresh_flag = FALSE
        /\ saved_cursors = [g \in Jids |-> 0]
        /\ last_timestamp = 0 /\ saved_last = 0 /\ polled = {} /\ jobs = {}
        /\ fails = [g \in Jids |-> 0] /\ cooling = [g \in Jids |-> FALSE]
        /\ up = TRUE /\ crashes = 0 /\ handled = [m \in Messages |-> 0]
    BY DEF PipelineInit
  <2>2. cursors \in [Jids -> Missing..TimeBound]
    <3>1. cursors = [g \in Jids |-> IF g \in InitiallyRegistered THEN 0 ELSE Missing]
      BY DEF PipelineInit
    <3>2. QED
      BY <3>1
  <2>3. /\ at \in [Messages -> 0..TimeBound] /\ handled \in [Messages -> 0..2]
        /\ saved_cursors \in [Jids -> 0..TimeBound]
        /\ fails \in [Jids -> Nat] /\ cooling \in [Jids -> BOOLEAN]
    BY <2>1
  <2>4. now \in 1..TimeBound /\ crashes \in 0..CrashBound
    BY <2>1
  <2>5. registered \subseteq Jids
    BY <2>1, PipelineAssumption
  <2>6. refresh_flag \in BOOLEAN /\ up \in BOOLEAN
    BY <2>1
  <2>7. QED
    BY <2>1, <2>2, <2>3, <2>4, <2>5, <2>6 DEF TablesOK
<1>3. DownInv /\ JobsInv
  BY DEF PipelineInit, DownInv, JobsInv
<1>4. FailsInv /\ CursorInv
  BY DEF PipelineInit, FailsInv, FailureGuardHolds, CursorInv, SavedMatchesMemory,
         HandledAtMostOnce
<1>5. QED
  BY <1>1, <1>2, <1>3, <1>4 DEF PipelineInv

\* Every step keeps the invariant of the pipeline, with a slot for every group.
LEMMA PipelineInvNext ==
    ASSUME EnoughSlots
    PROVE  PipelineInv /\ [PipelineNext]_pipelineVars => PipelineInv'
<1>1. ASSUME PipelineInv, PipelineNext PROVE PipelineInv'
  <2>1. TypeOK /\ RoomInv
    BY <1>1 DEF PipelineInv, QueueInv, CountInv
  <2>2. QueueInv'
    BY <1>1, QueueNextInv DEF PipelineInv
  <2>3. TablesOK' /\ DownInv'
    BY <1>1, <2>1, TablesNext, DownNext DEF PipelineInv
  <2>4. JobsInv' /\ FailsInv' /\ CursorInv'
    BY <1>1, <2>1, JobsNext, FailsNext, CursorNext DEF PipelineInv
  <2>5. QED
    BY <2>2, <2>3, <2>4 DEF PipelineInv
<1>2. ASSUME PipelineInv, UNCHANGED pipelineVars PROVE PipelineInv'
  <2>1. QueueInv'
    BY <1>2, QueueSame DEF PipelineInv, pipelineVars
  <2>2. UNCHANGED <<now, crashes, at, registered, saved_cursors, saved_last, cursors,
                    last_timestamp, loaded, refresh_flag, fails, cooling, handled,
                    arriving, polled, jobs, up, runners, retry_timers>>
    BY <1>2 DEF pipelineVars, queueVars, clockVars, tableVars, cursorVars, groupVars,
                failVars, hostVars
  <2>3. TablesOK' /\ DownInv'
    BY <1>2, <2>2 DEF PipelineInv, TablesOK, DownInv
  <2>4. JobsInv' /\ FailsInv' /\ CursorInv'
    BY <1>2, <2>2 DEF PipelineInv, JobsInv, FailsInv, FailureGuardHolds, CursorInv,
                      SavedMatchesMemory, HandledAtMostOnce
  <2>5. QED
    BY <2>1, <2>3, <2>4 DEF PipelineInv
<1>3. QED
  BY <1>1, <1>2

\* With a slot for every group, the invariant of the pipeline holds in every reachable state.
LEMMA PipelineInvariant == ASSUME EnoughSlots PROVE PipelineSpec => []PipelineInv
<1>1. PipelineInit => PipelineInv
  BY PipelineStarts
<1>2. PipelineInv /\ [PipelineNext]_pipelineVars => PipelineInv'
  BY PipelineInvNext
<1>3. QED
  BY <1>1, <1>2, PTL DEF PipelineSpec

\* The failure counter, the saved cursors and the retries of the queue stay
\* consistent with the calls under way, through crashes and restarts, however many
\* groups there are: the guard of _process_group_messages and _load_state hold.
THEOREM PipelineStaysConsistent ==
    ASSUME EnoughSlots PROVE PipelineSpec => []PipelineConsistent
<1>1. PipelineInv => PipelineConsistent
  BY RoomImplies DEF PipelineInv, QueueInv, CountInv, TablesOK, FailsInv, CursorInv,
     PipelineConsistent, PipelineTypeOK
<1>2. QED
  BY <1>1, PipelineInvariant, PTL

\* No message is given to a container a second time once its batch was
\* acknowledged (_on_success_tracked advances the cursor first), even when several
\* groups share a millisecond, calls overlap and the host crashes.
THEOREM HandledOnce == ASSUME EnoughSlots PROVE PipelineSpec => []HandledAtMostOnce
<1>1. PipelineInv => HandledAtMostOnce
  BY DEF PipelineInv, CursorInv
<1>2. QED
  BY <1>1, PipelineInvariant, PTL

-----------------------------------------------------------------------------
(* One group, as in a host with the main group only: nothing is skipped.    *)

OneGroup == \A g, h \in Jids : g = h

\* One group always finds a slot.
LEMMA OneGroupFits == OneGroup => EnoughSlots
<1> SUFFICES ASSUME OneGroup PROVE Cardinality(Jids) <= MAX_CONCURRENT_CONTAINERS
  BY DEF EnoughSlots
<1>1. CASE Jids = {}
  BY <1>1, QueueAssumption, FS_EmptySet
<1>2. ASSUME NEW g \in Jids PROVE Cardinality(Jids) <= MAX_CONCURRENT_CONTAINERS
  <2>1. Jids = {g}
    BY DEF OneGroup
  <2>2. Cardinality(Jids) = 1
    BY <2>1, FS_Singleton
  <2>3. QED
    BY <2>2, QueueAssumption
<1>3. QED
  BY <1>1, <1>2

\* A new row has a later time stamp than every cursor and every batch under way.
LEMMA StoreKeepsOne ==
    ASSUME OneGroup, ~SameMillisecond, PipelineInv, OneCursor,
           NEW m \in Messages, OnMessageStores(m)
    PROVE  OneCursor'
<1> USE Constants
<1>0. /\ at[m] = 0 /\ at' = [at EXCEPT ![m] = now]
      /\ \A n \in Messages : at[n] # now
      /\ now \in 1..TimeBound /\ at \in [Messages -> 0..TimeBound]
      /\ last_timestamp \in 0..TimeBound
      /\ UNCHANGED <<now, cursors, saved_cursors, last_timestamp, saved_last, handled, jobs, up>>
  <2>1. \A n \in Messages : at[n] # now
    <3>1. \A n \in Messages : MsgJid[n] = MsgJid[m]
      BY DEF OneGroup
    <3>2. QED
      BY <3>1 DEF OnMessageStores
  <2>2. /\ now \in 1..TimeBound /\ at \in [Messages -> 0..TimeBound]
        /\ last_timestamp \in 0..TimeBound
    BY DEF PipelineInv, TablesOK
  <2>3. QED
    BY <2>1, <2>2 DEF OnMessageStores, cursorVars, clockVars
<1>1. last_timestamp < now
  BY <1>0 DEF OneCursor
<1>2. \A n \in Messages : n # m => at'[n] = at[n]
  BY <1>0
<1>3. at'[m] = now
  BY <1>0
<1>4. last_timestamp # 0 => \E n \in Messages : at'[n] = last_timestamp
  <2>1. SUFFICES ASSUME last_timestamp # 0 PROVE \E n \in Messages : at'[n] = last_timestamp
    OBVIOUS
  <2>2. PICK n \in Messages : at[n] = last_timestamp
    BY <2>1 DEF OneCursor
  <2>3. QED
    BY <1>0, <1>2, <2>1, <2>2
<1>5. \A j \in jobs : j.stage = "container" =>
          /\ \A n \in Messages : at'[n] > j.from /\ at'[n] <= j.upto => n \in j.batch
          /\ \E n \in j.batch : at'[n] = j.upto
  <2>1. SUFFICES ASSUME NEW j \in jobs, j.stage = "container"
                 PROVE  /\ \A n \in Messages : at'[n] > j.from /\ at'[n] <= j.upto
                                                  => n \in j.batch
                        /\ \E n \in j.batch : at'[n] = j.upto
    OBVIOUS
  <2>2. j \in Job
    BY DEF PipelineInv, TablesOK
  <2>3. PICK n \in j.batch : at[n] = j.upto
    BY <2>1 DEF OneCursor
  <2>4. n \in Messages /\ at[n] > 0
    BY <2>1, <2>2 DEF Job, PipelineInv, CursorInv
  <2>5. n # m /\ at'[n] = j.upto
    BY <1>0, <1>2, <2>3, <2>4
  <2>6. j.upto < now
    BY <1>0, <2>1, <2>2, <2>3, <2>4 DEF OneCursor, Job
  <2>7. \A p \in Messages : at'[p] > j.from /\ at'[p] <= j.upto => p # m
    BY <1>0, <1>3, <2>2, <2>6 DEF Job
  <2>8. QED
    BY <1>2, <2>1, <2>5, <2>7 DEF OneCursor
<1>6. QED
  BY <1>0, <1>1, <1>2, <1>3, <1>4, <1>5 DEF OneCursor

\* What is given to a container is everything that is not acknowledged yet.
LEMMA GivenKeepsOne ==
    ASSUME OneGroup, PipelineInv, OneCursor,
           NEW j \in jobs, NEW k \in Job, GoesOn(j, k), Given(j, k)
    PROVE  OneCursor'
<1> USE Constants
<1>0. /\ at \in [Messages -> 0..TimeBound] /\ now \in 1..TimeBound
      /\ j \in Job /\ j.stage = "fetching" /\ j.from = last_timestamp
      /\ k.from = j.from /\ k.jid = j.jid
      /\ k.batch = NewMessages(j.jid, j.from) /\ k.upto = Latest(k.batch)
      /\ jobs' = (jobs \ {j}) \cup {k}
      /\ k.batch # {}
      /\ last_timestamp \in 0..TimeBound
  BY DEF PipelineInv, TablesOK, OneCursor, GoesOn, Given
<1>1. UNCHANGED <<now, at, cursors, saved_cursors, last_timestamp, saved_last, handled, up>>
  BY DEF Given, Fetched, tableVars, cursorVars, clockVars
<1>2. k.batch \in SUBSET Messages /\ j.jid \in Jids
  BY <1>0 DEF NewMessages, Job
<1>3. PICK n \in k.batch : at[n] = k.upto
  BY <1>0, <1>2, LatestFacts
<1>4. n \in Messages /\ at[n] > j.from /\ at[n] <= now
  BY <1>0, <1>2 DEF NewMessages, OneCursor
<1>5. \A m \in Messages : at[m] > k.from => m \in k.batch
  BY <1>0, <1>2 DEF NewMessages, OneGroup
<1>6. QED
  BY <1>0, <1>1, <1>3, <1>4, <1>5 DEF OneCursor

\* An answer moves the cursor, in memory and saved, past its batch and no further.
LEMMA AnswerKeepsOne ==
    ASSUME OneGroup, PipelineInv, OneCursor,
           NEW j \in jobs, NEW k \in Job, GoesOn(j, k), k.stage = "replying",
           ContainerAnswers(j)
    PROVE  OneCursor'
<1> USE Constants
<1> DEFINE g == j.jid
           u == j.upto
<1>0. /\ at \in [Messages -> 0..TimeBound] /\ now \in 1..TimeBound
      /\ cursors \in [Jids -> Missing..TimeBound] /\ saved_cursors \in [Jids -> 0..TimeBound]
      /\ last_timestamp \in 0..TimeBound
      /\ handled \in [Messages -> 0..2]
      /\ j \in Job /\ g \in Jids /\ u \in 0..TimeBound
      /\ j.stage = "container" /\ j.from = last_timestamp
      /\ u > last_timestamp /\ u <= now
      /\ jobs' = (jobs \ {j}) \cup {k}
  BY DEF PipelineInv, TablesOK, OneCursor, GoesOn, ContainerAnswers, Job
<1>1. jobs' = {k}
  <2>1. \A i \in jobs : i.jid \in Jids
    BY DEF PipelineInv, TablesOK, Job
  <2>2. \A i \in jobs : i = j
    BY <1>0, <2>1 DEF PipelineInv, JobsInv, OneGroup
  <2>3. QED
    BY <1>0, <2>2
<1>2. cursors[g] \in {Missing, last_timestamp}
  <2>1. up
    BY DEF PipelineInv, DownInv
  <2>2. QED
    BY <1>0, <2>1 DEF OneCursor
<1>3. /\ cursors' = [cursors EXCEPT ![g] = u]
      /\ saved_cursors' = [saved_cursors EXCEPT ![g] = u]
      /\ last_timestamp' = u /\ saved_last' = u
  <2>1. Later(cursors[g], u) = u /\ Later(last_timestamp, u) = u
    BY <1>0, <1>2 DEF Later
  <2>2. cursors'[g] = u
    BY <1>0, <2>1 DEF ContainerAnswers, Advance
  <2>3. QED
    BY <1>0, <2>1, <2>2 DEF ContainerAnswers, Advance
<1>4. \A h \in Jids : saved_cursors'[h] = u /\ cursors'[h] = u
  BY <1>0, <1>3 DEF OneGroup
<1>5. /\ UNCHANGED <<now, at, up>>
      /\ handled' = [m \in Messages |-> IF m \in j.batch /\ handled[m] < 2
                                        THEN handled[m] + 1 ELSE handled[m]]
      /\ j.batch \subseteq Messages
  BY <1>0 DEF ContainerAnswers, clockVars, Job
<1>6. \E n \in Messages : at[n] = u
  BY <1>0, <1>5 DEF OneCursor
<1>7. ASSUME NEW m \in Messages, at[m] > 0, handled'[m] = 0 PROVE at[m] > u
  <2>1. handled[m] = 0
    BY <1>0, <1>5, <1>7
  <2>2. m \notin j.batch
    BY <1>5, <1>7, <2>1
  <2>3. at[m] > j.from
    BY <1>0, <1>7, <2>1 DEF OneCursor
  <2>4. QED
    BY <1>0, <2>2, <2>3 DEF OneCursor
<1>8. QED
  BY <1>0, <1>1, <1>3, <1>4, <1>5, <1>6, <1>7 DEF OneCursor

\* With one group and no two messages in a millisecond, every step keeps the cursor exact.
LEMMA OneCursorNext ==
    ASSUME OneGroup, ~SameMillisecond, PipelineInv, OneCursor, PipelineNext
    PROVE  OneCursor'
<1> USE Constants
<1> DEFINE Still == UNCHANGED <<at, saved_cursors, saved_last, last_timestamp, handled>>
<1>1. CASE /\ Still /\ UNCHANGED <<now, cursors, up>>
           /\ \A k \in jobs' : k \in jobs \/ k.stage \notin {"fetching", "container"}
  BY <1>1 DEF OneCursor
<1>2. ASSUME NEW m \in Messages, OnMessageStores(m) PROVE OneCursor'
  BY <1>2, StoreKeepsOne
<1>3. CASE RefreshGroups
  <2>1. /\ Still /\ UNCHANGED <<now, up, jobs>>
        /\ \A g \in Jids : cursors'[g] \in {cursors[g], last_timestamp}
    BY <1>3 DEF RefreshGroups, tableVars, clockVars, hostVars
  <2>2. QED
    BY <2>1 DEF OneCursor
<1>4. ASSUME NEW r \in runners, RunBegins(r) PROVE OneCursor'
  <2> DEFINE k == JobOf(r, IF r.jid \in loaded THEN "fetching" ELSE "passed", Cursor(r.jid))
  <2>1. /\ jobs' = jobs \cup {k}
        /\ k.from = Cursor(r.jid) /\ k.stage # "container"
        /\ Still /\ UNCHANGED <<now, cursors, up>>
    BY <1>4 DEF RunBegins, JobOf, tableVars, cursorVars, clockVars
  <2> HIDE DEF k
  <2>2. Cursor(r.jid) = last_timestamp
    <3>1. up /\ r.jid \in Jids
      BY DEF PipelineInv, DownInv, QueueInv, CountInv, TypeOK, Runner
    <3>2. QED
      BY <3>1 DEF OneCursor, Cursor
  <2>3. QED
    BY <2>1, <2>2 DEF OneCursor
<1>5. ASSUME NEW j \in jobs, JobStep(j) PROVE OneCursor'
  <2>1. PICK k \in Job : GoesOn(j, k)
    BY <1>5, CallGoesOn DEF PipelineInv
  <2>2. CASE k.stage = "container" /\ Given(j, k)
    BY <2>1, <2>2, GivenKeepsOne
  <2>3. CASE k.stage = "replying" /\ ContainerAnswers(j)
    BY <2>1, <2>3, AnswerKeepsOne
  <2>4. CASE k.stage \in {"passed", "failed"} /\ Falls(j)
    <3>1. Still /\ UNCHANGED <<now, cursors, up>>
      BY <2>4 DEF Falls, Fetched, ContainerFails, ReplyEnds, tableVars, cursorVars, clockVars
    <3>2. jobs' = (jobs \ {j}) \cup {k}
      BY <2>1 DEF GoesOn
    <3>3. QED
      BY <1>1, <2>4, <3>1, <3>2
  <2>5. QED
    BY <2>1, <2>2, <2>3, <2>4 DEF GoesOn
<1>6. CASE Tick
  <2>1. /\ Still /\ UNCHANGED <<cursors, up, jobs>> /\ now' = now + 1
        /\ now \in 1..TimeBound /\ at \in [Messages -> 0..TimeBound]
        /\ last_timestamp \in 0..TimeBound /\ jobs \subseteq Job
    BY <1>6 DEF Tick, tableVars, cursorVars, hostVars, PipelineInv, TablesOK
  <2>2. \A j \in jobs : j.upto \in 0..TimeBound
    BY <2>1 DEF Job
  <2>3. QED
    BY <2>1, <2>2 DEF OneCursor
<1>7. CASE Crash
  BY <1>7 DEF Crash, OneCursor, tableVars, cursorVars
<1>8. CASE Restart
  <2>1. /\ jobs' = {}
        /\ UNCHANGED <<at, saved_cursors, saved_last, handled, now>>
        /\ last_timestamp' = saved_last
        /\ cursors' = [g \in Jids |-> IF g \notin registered THEN Missing
                                      ELSE IF saved_cursors[g] # 0 THEN saved_cursors[g]
                                      ELSE saved_last]
    BY <1>8 DEF Restart, tableVars, clockVars, PipelineInv, DownInv
  <2>2. \A g \in Jids : cursors'[g] \in {Missing, last_timestamp'}
    BY <2>1 DEF OneCursor
  <2>3. QED
    BY <2>1, <2>2 DEF OneCursor
<1>9. QED
  BY <1>1, <1>2, <1>3, <1>4, <1>5, <1>6, <1>7, <1>8
     DEF PipelineNext, OnMessageEnqueues, PollFinds, PollEnqueues, RegisterGroup,
         RunReturns, RetryFires, CooldownEnds, ResetGroup, tableVars, cursorVars, clockVars,
         hostVars

\* With one group and no two messages in a millisecond, the cursor is exact in every reachable state.
LEMMA OneCursorInvariant ==
    ASSUME OneGroup, ~SameMillisecond
    PROVE  PipelineSpec => [](PipelineInv /\ OneCursor)
<1>1. PipelineInit => PipelineInv /\ OneCursor
  <2>1. PipelineInit => OneCursor
    BY Constants DEF PipelineInit, OneCursor
  <2>2. QED
    BY <2>1, PipelineStarts
<1>2. PipelineInv /\ OneCursor /\ [PipelineNext]_pipelineVars => (PipelineInv /\ OneCursor)'
  <2>1. ASSUME PipelineInv, [PipelineNext]_pipelineVars PROVE PipelineInv'
    BY <2>1, OneGroupFits, PipelineInvNext
  <2>2. ASSUME PipelineInv, OneCursor, PipelineNext PROVE OneCursor'
    BY <2>2, OneCursorNext
  <2>3. ASSUME OneCursor, UNCHANGED pipelineVars PROVE OneCursor'
    BY <2>3 DEF OneCursor, pipelineVars, clockVars, tableVars, cursorVars, groupVars, hostVars
  <2>4. QED
    BY <2>1, <2>2, <2>3
<1>3. QED
  BY <1>1, <1>2, PTL DEF PipelineSpec

\* "No conversation is missed": with one group and a clock that tells its messages
\* apart, every stored message is acknowledged, once, or ahead of the cursor from
\* which the next poll reads, through failures, crashes and late registrations.  With
\* two groups the global cursor of a group without its own may pass messages by (see
\* the run shared_cursor), so that the hypothesis cannot go.
THEOREM NothingSkipped ==
    ASSUME OneGroup, ~SameMillisecond
    PROVE  PipelineSpec => []MessagesAccounted
<1>1. PipelineInv /\ OneCursor => MessagesAccounted
  <2>1. PipelineInv /\ OneCursor => NoMessageSkipped
    <3>1. SUFFICES ASSUME PipelineInv, OneCursor, up, NEW m \in Messages,
                          at[m] > 0, handled[m] = 0
                   PROVE  at[m] > Cursor(MsgJid[m])
      BY DEF NoMessageSkipped
    <3>2. Cursor(MsgJid[m]) = last_timestamp
      BY <3>1, Constants DEF Cursor, OneCursor
    <3>3. QED
      BY <3>1, <3>2 DEF OneCursor
  <2>2. QED
    BY <2>1 DEF MessagesAccounted, PipelineInv, CursorInv
<1>2. QED
  BY <1>1, OneCursorInvariant, PTL

=============================================================================
