-------------------------- MODULE GroupQueueProofs --------------------------
(***************************************************************************)
(* Proofs about GroupQueue.  The type of active_count and the concurrency  *)
(* limit need one another: the end of a runner subtracts one from the      *)
(* count, which stays a natural number because no fewer than the runners   *)
(* alive are counted.  The two are proved together (CountInv).             *)
(***************************************************************************)
EXTENDS GroupQueue, FiniteSetTheorems, SequenceTheorems, TLAPS

Slots == MAX_CONCURRENT_CONTAINERS

\* Two coroutines of a group have different slots, so that a step of one
\* never makes it equal to another.
Apart(rs) == \A a, b \in rs : a.jid = b.jid /\ a.slot = b.slot => a = b

-----------------------------------------------------------------------------
(* Helpers: a new coroutine is a new member of the set of runners. *)

\* Some slot number is free: the runners cannot occupy one more than they are.
LEMMA FreeSlotFacts ==
    ASSUME NEW rs \in SUBSET Runner, IsFiniteSet(rs), NEW g \in Jids
    PROVE  /\ FreeSlot(g, rs) \in Nat
           /\ \A r \in rs : r.jid = g => r.slot # FreeSlot(g, rs)
<1> DEFINE N == 1..(Cardinality(rs) + 1)
<1>1. /\ Cardinality(rs) \in Nat
      /\ IsFiniteSet(N)
      /\ Cardinality(N) = Cardinality(rs) + 1
  <2>1. Cardinality(rs) \in Nat
    BY FS_CardinalityType
  <2>2. Cardinality(rs) + 1 \in Int /\ 1 \in Int
    BY <2>1
  <2>3. IsFiniteSet(N) /\ Cardinality(N) = IF 1 > Cardinality(rs) + 1 THEN 0
                                           ELSE (Cardinality(rs) + 1) - 1 + 1
    BY <2>2, FS_Interval
  <2>4. QED
    BY <2>1, <2>3
<1>2. \E n \in N : \A r \in rs : r.jid = g => r.slot # n
  <2>1. SUFFICES ASSUME \A n \in N : \E r \in rs : r.slot = n
                 PROVE  FALSE
    OBVIOUS
  <2> DEFINE f == [n \in N |-> CHOOSE r \in rs : r.slot = n]
  <2>2. \A n \in N : f[n] \in rs /\ f[n].slot = n
    BY <2>1
  <2>3. f \in [N -> rs]
    BY <2>2
  <2> HIDE DEF f
  <2>4. \E x, y \in N : x # y /\ f[x] = f[y]
    <3>1. Cardinality(rs) < Cardinality(N)
      BY <1>1
    <3> HIDE DEF N
    <3>2. QED
      BY <1>1, <2>3, <3>1, FS_PigeonHole
  <2>5. QED
    BY <2>2, <2>4
<1>3. FreeSlot(g, rs) \in N /\ \A r \in rs : r.jid = g => r.slot # FreeSlot(g, rs)
  BY <1>2 DEF FreeSlot
<1>4. QED
  BY <1>1, <1>3

\* n is a new coroutine of group g for task t beside the coroutines rs.
Fresh(n, g, t, rs) ==
    /\ n \in Runner \ rs
    /\ n.jid = g
    /\ n.task = t
    /\ n.phase = "created"
    /\ \A r \in rs : r.jid = g => r.slot # n.slot
    /\ IsFiniteSet(rs \cup {n})
    /\ Cardinality(rs \cup {n}) = Cardinality(rs) + 1

\* asyncio.create_task adds one coroutine to those alive.
LEMMA NewRunnerFacts ==
    ASSUME NEW rs \in SUBSET Runner, IsFiniteSet(rs),
           NEW g \in Jids, NEW t \in TaskIds \cup {NoTask}
    PROVE  Fresh(NewRunner(g, t, rs), g, t, rs)
<1> DEFINE n == NewRunner(g, t, rs)
<1>1. n \in Runner
  BY FreeSlotFacts DEF NewRunner, Runner
<1>2. n.jid = g /\ n.task = t /\ n.phase = "created" /\ n.slot = FreeSlot(g, rs)
  BY DEF NewRunner
<1>3. (\A r \in rs : r.jid = g => r.slot # n.slot) /\ n \notin rs
  BY <1>2, FreeSlotFacts
<1> HIDE DEF n
<1>4. IsFiniteSet(rs \cup {n}) /\ Cardinality(rs \cup {n}) = Cardinality(rs) + 1
  BY <1>3, FS_AddElement
<1>5. QED
  BY <1>1, <1>2, <1>3, <1>4 DEF Fresh, n

\* What the head of a non-empty list of tasks is.
LEMMA TaskOfState ==
    ASSUME NEW st \in GroupState, st.pending_tasks # <<>>
    PROVE  /\ Head(st.pending_tasks) \in TaskIds
           /\ Tail(st.pending_tasks) \in Seq(TaskIds)
           /\ PendingTaskStarted(st) \in GroupState
<1>1. st.pending_tasks \in Seq(TaskIds)
  BY DEF GroupState
<1>2. Head(st.pending_tasks) \in TaskIds /\ Tail(st.pending_tasks) \in Seq(TaskIds)
  BY <1>1, HeadTailProperties
<1>3. QED
  BY <1>2 DEF PendingTaskStarted, GroupState

\* The values the queue gives to a group's state are states.
LEMMA StateChanges ==
    ASSUME NEW st \in GroupState
    PROVE  /\ MarkPending(st) \in GroupState
           /\ MessageRunCreated(st) \in GroupState
           /\ \A t \in TaskIds : TaskRunCreated(st, t) \in GroupState
           /\ \A t \in TaskIds : TaskQueued(st, t) \in GroupState
           /\ ReadyToRun(st) => /\ WaitingRunCreated(st) \in GroupState
                                /\ NextRun(st) \in TaskIds \cup {NoTask}
<1>1. MarkPending(st) \in GroupState /\ MessageRunCreated(st) \in GroupState
  BY DEF MarkPending, MessageRunCreated, GroupState
<1>2. \A t \in TaskIds : TaskRunCreated(st, t) \in GroupState
  BY DEF TaskRunCreated, GroupState
<1>3. ASSUME NEW t \in TaskIds PROVE TaskQueued(st, t) \in GroupState
  <2>1. Append(st.pending_tasks, t) \in Seq(TaskIds)
    BY AppendProperties DEF GroupState
  <2>2. QED
    BY <2>1 DEF TaskQueued, GroupState
<1>4. WaitingRunCreated(st) \in GroupState
  <2>1. CASE st.pending_tasks # <<>>
    BY <2>1, TaskOfState DEF WaitingRunCreated
  <2>2. CASE st.pending_tasks = <<>>
    BY <2>2, <1>1 DEF WaitingRunCreated, MessageRunCreated, GroupState
  <2>3. QED
    BY <2>1, <2>2
<1>5. NextRun(st) \in TaskIds \cup {NoTask}
  BY TaskOfState DEF NextRun
<1>6. QED
  BY <1>1, <1>2, <1>3, <1>4, <1>5

\* The state after a message run has the type of a state.
LEMMA EndedType ==
    ASSUME NEW st \in GroupState PROVE MessageRunEnded(st) \in GroupState
BY DEF MessageRunEnded, GroupState

\* After a message run the group is no longer active.
LEMMA EndedInactive ==
    ASSUME NEW st \in GroupState PROVE ~MessageRunEnded(st).active
BY DEF MessageRunEnded, GroupState

\* The two states have the same tasks queued.
SameTasks(st, s0) ==
    /\ st.pending_tasks = s0.pending_tasks
    /\ st.pending_task_ids = s0.pending_task_ids

\* The state a failed message run leaves, with its retry counted or given up.
LEMMA FailedState ==
    ASSUME NEW r, groups[r.jid] \in GroupState, RunForGroupFails(r)
    PROVE  \E st \in GroupState :
              /\ ~st.active
              /\ SameTasks(st, groups[r.jid])
              /\ DrainGroup(r, st)
              /\ UNCHANGED shutting_down
<1> DEFINE s0 == groups[r.jid]
           s1 == IF s0.retry_count + 1 > MAX_RETRIES
                 THEN [s0 EXCEPT !.retry_count = 0, !.retry_ready = FALSE]
                 ELSE [s0 EXCEPT !.retry_count = @ + 1]
<1>1. s0 \in GroupState /\ MAX_RETRIES \in Nat /\ 0 \in 0..MAX_RETRIES
  BY QueueAssumption
<1>2. s1 \in GroupState
  <2>1. CASE s0.retry_count + 1 > MAX_RETRIES
    BY <1>1, <2>1 DEF GroupState
  <2>2. CASE ~(s0.retry_count + 1 > MAX_RETRIES)
    <3>1. s0.retry_count + 1 \in 0..MAX_RETRIES
      BY <1>1, <2>2 DEF GroupState
    <3>2. QED
      BY <1>1, <2>2, <3>1 DEF GroupState
  <2>3. QED
    BY <2>1, <2>2
<1>3. DrainGroup(r, MessageRunEnded(s1)) /\ UNCHANGED shutting_down
  BY DEF RunForGroupFails
<1>4. SameTasks(MessageRunEnded(s1), s0)
  BY <1>1 DEF SameTasks, MessageRunEnded, GroupState
<1> HIDE DEF s1
<1>5. QED
  BY <1>2, <1>3, <1>4, EndedType, EndedInactive

-----------------------------------------------------------------------------
(* The counting argument.  A step that frees or takes slots keeps the       *)
(* difference between the count and the runners alive, and the limit.       *)

\* The groups started by popping the first k of the list take no more slots
\* than the loop's test allows: each pop but the last left a free slot.
LEMMA StartedBound ==
    ASSUME NEW ws \in Seq(Jids), NEW P \in SUBSET Nat,
           NEW k \in 0..Len(ws), NEW count \in Nat,
           count <= Slots,
           \A j \in 0..(k - 1) : count + Cardinality({i \in 1..j : i \in P}) < Slots
    PROVE  LET started == {ws[i] : i \in {j \in 1..k : j \in P}}
           IN  /\ IsFiniteSet(started)
               /\ Cardinality(started) \in Nat
               /\ count + Cardinality(started) <= Slots
<1> DEFINE Starts(j) == {i \in 1..j : i \in P}
           started == {ws[i] : i \in Starts(k)}
<1>0. Slots \in Nat /\ k \in Nat /\ Len(ws) \in Nat
  BY QueueAssumption, LenProperties DEF Slots
<1>1. \A j \in Int : IsFiniteSet(Starts(j)) /\ Cardinality(Starts(j)) \in Nat
  <2>1. TAKE j \in Int
  <2>2. IsFiniteSet(1..j)
    BY FS_Interval
  <2>3. Starts(j) \in SUBSET (1..j)
    OBVIOUS
  <2>4. QED
    BY <2>2, <2>3, FS_Subset, FS_CardinalityType
<1>2. count + Cardinality(Starts(k)) <= Slots
  <2>1. CASE k = 0
    <3>1. Starts(k) = {}
      BY <2>1
    <3>2. Cardinality(Starts(k)) = 0
      BY <3>1, FS_EmptySet
    <3> HIDE DEF Starts
    <3>3. QED
      BY <3>2, <1>0
  <2>2. CASE k > 0
    <3>1. count + Cardinality(Starts(k - 1)) < Slots
      BY <2>2, <1>0
    <3>2. Starts(k) \in SUBSET (Starts(k - 1) \cup {k})
      BY <2>2, <1>0
    <3>3. /\ IsFiniteSet(Starts(k - 1) \cup {k})
          /\ Cardinality(Starts(k - 1) \cup {k}) <= Cardinality(Starts(k - 1)) + 1
      <4>1. IsFiniteSet(Starts(k - 1)) /\ Cardinality(Starts(k - 1)) \in Nat
        BY <1>0, <1>1
      <4> DEFINE prev == Starts(k - 1)
      <4> HIDE DEF Starts, prev
      <4>2. /\ IsFiniteSet(prev \cup {k})
            /\ Cardinality(prev \cup {k}) = IF k \in prev THEN Cardinality(prev)
                                                          ELSE Cardinality(prev) + 1
        BY <4>1, FS_AddElement DEF prev
      <4>3. QED
        BY <4>1, <4>2 DEF prev
    <3>4. Cardinality(Starts(k)) <= Cardinality(Starts(k - 1) \cup {k})
      BY <3>2, <3>3, FS_Subset
    <3>5. /\ Cardinality(Starts(k)) \in Nat
          /\ Cardinality(Starts(k - 1)) \in Nat
          /\ Cardinality(Starts(k - 1) \cup {k}) \in Nat
      BY <1>0, <1>1, <3>3, FS_CardinalityType
    <3> HIDE DEF Starts
    <3>6. QED
      BY <3>1, <3>3, <3>4, <3>5, <1>0
  <2>3. QED
    BY <2>1, <2>2, <1>0
<1>3. IsFiniteSet(started) /\ Cardinality(started) <= Cardinality(Starts(k))
  <2> DEFINE f == [i \in Starts(k) |-> ws[i]]
  <2>1. f \in Surjection(Starts(k), started)
    BY DEF Surjection
  <2>2. IsFiniteSet(Starts(k))
    BY <1>0, <1>1
  <2> HIDE DEF f, Starts, started
  <2>3. QED
    BY <2>1, <2>2, FS_Surjection
<1>4. Cardinality(started) \in Nat /\ Cardinality(Starts(k)) \in Nat
  BY <1>0, <1>1, <1>3, FS_CardinalityType
<1> HIDE DEF Starts
<1>5. count + Cardinality(started) <= Slots
  BY <1>0, <1>2, <1>3, <1>4
<1>6. QED
  BY <1>3, <1>4, <1>5 DEF Starts

\* A set of groups started at once gets one new coroutine each.
LEMMA StartedRunners ==
    ASSUME NEW rs \in SUBSET Runner, IsFiniteSet(rs), Apart(rs),
           NEW gs \in [Jids -> GroupState],
           NEW started \in SUBSET Jids, IsFiniteSet(started),
           \A h \in started : ReadyToRun(gs[h])
    PROVE  LET new == {NewRunner(h, NextRun(gs[h]), rs) : h \in started}
           IN  /\ rs \cup new \in SUBSET Runner
               /\ Apart(rs \cup new)
               /\ IsFiniteSet(rs \cup new)
               /\ Cardinality(rs \cup new) = Cardinality(rs) + Cardinality(started)
<1> DEFINE nr(h) == NewRunner(h, NextRun(gs[h]), rs)
           new == {nr(h) : h \in started}
<1>1. \A h \in started : /\ nr(h) \in Runner \ rs
                         /\ nr(h).jid = h
                         /\ \A r \in rs : r.jid = h => r.slot # nr(h).slot
  <2>1. TAKE h \in started
  <2>2. NextRun(gs[h]) \in TaskIds \cup {NoTask}
    BY StateChanges
  <2>3. Fresh(nr(h), h, NextRun(gs[h]), rs)
    <3> DEFINE t == NextRun(gs[h])
    <3>1. h \in Jids /\ t \in TaskIds \cup {NoTask}
      BY <2>2
    <3> HIDE DEF t
    <3>2. Fresh(NewRunner(h, t, rs), h, t, rs)
      BY <3>1, NewRunnerFacts
    <3>3. QED
      BY <3>2 DEF t
  <2>4. QED
    BY <2>3 DEF Fresh
<1> HIDE DEF nr
<1>2. IsFiniteSet(new) /\ Cardinality(new) = Cardinality(started)
  <2> DEFINE f == [h \in started |-> nr(h)]
  <2>1. f \in Bijection(started, new)
    BY <1>1 DEF Bijection, Injection, Surjection, IsInjective
  <2>2. ExistsBijection(started, new)
    BY <2>1 DEF ExistsBijection
  <2> HIDE DEF f, new
  <2>3. QED
    BY <2>2, FS_Bijection
<1>3. rs \cap new = {} /\ new \in SUBSET Runner /\ Apart(rs \cup new)
  BY <1>1 DEF Apart
<1>4. /\ IsFiniteSet(rs \cup new)
      /\ Cardinality(rs \cup new)
            = Cardinality(rs) + Cardinality(new) - Cardinality(rs \cap new)
  <2> HIDE DEF new
  <2>1. QED
    BY <1>2, FS_Union
<1>5. Cardinality(rs) \in Nat /\ Cardinality(started) \in Nat
  BY FS_CardinalityType
<1>6. Cardinality(rs \cup new) = Cardinality(rs) + Cardinality(started)
  <2> HIDE DEF new
  <2>1. Cardinality(rs \cap new) = 0
    BY <1>3, FS_EmptySet
  <2>2. QED
    BY <1>2, <1>4, <1>5, <2>1
<1>7. QED
  BY <1>3, <1>4, <1>6 DEF nr

\* count slots are taken, no fewer than the coroutines rs.
Counted(rs, count) ==
    /\ rs \in SUBSET Runner
    /\ IsFiniteSet(rs)
    /\ Apart(rs)
    /\ count \in Nat
    /\ Cardinality(rs) <= count
    /\ count <= Slots

\* _drain_waiting fills free slots and no more.
LEMMA DrainWaitingCounts ==
    ASSUME waiting_groups \in Seq(Jids), waiting_set \in SUBSET Jids,
           NEW STATE gs, gs \in [Jids -> GroupState], NEW STATE rs, NEW STATE count,
           Counted(rs, count),
           DrainWaiting(gs, rs, count)
    PROVE  /\ groups' \in [Jids -> GroupState]
           /\ Counted(runners', active_count')
           /\ Cardinality(rs) = count => Cardinality(runners') = active_count'
           /\ waiting_groups' \in Seq(Jids)
           /\ waiting_set' \in SUBSET Jids
<1> DEFINE ws == waiting_groups
           P == {i \in 1..Len(ws) : ReadyToRun(gs[ws[i]])}
<1>0. /\ Len(ws) \in Nat
      /\ \A i \in 1..Len(ws) : ws[i] \in Jids
      /\ P \in SUBSET Nat
  BY LenProperties, ElementOfSeq
<1>1. PICK k \in 0..Len(ws) :
        LET Starts(j) == {i \in 1..j : ReadyToRun(gs[ws[i]])}
            started == {ws[i] : i \in Starts(k)}
        IN  /\ \A j \in 0..(k - 1) : count + Cardinality(Starts(j)) < Slots
            /\ groups' = [h \in Jids |-> IF h \in started
                                         THEN WaitingRunCreated(gs[h]) ELSE gs[h]]
            /\ runners' = rs \cup {NewRunner(h, NextRun(gs[h]), rs) : h \in started}
            /\ active_count' = count + Cardinality(started)
            /\ ws' = SubSeq(ws, k + 1, Len(ws))
            /\ waiting_set' = waiting_set \ {ws[i] : i \in 1..k}
  BY DEF DrainWaiting, Slots
<1> DEFINE started == {ws[i] : i \in {j \in 1..k : ReadyToRun(gs[ws[j]])}}
<1>2. \A j \in 0..k : {i \in 1..j : ReadyToRun(gs[ws[i]])} = {i \in 1..j : i \in P}
  BY <1>0
<1>3. /\ IsFiniteSet(started)
      /\ Cardinality(started) \in Nat
      /\ count + Cardinality(started) <= Slots
  <2>1. started = {ws[i] : i \in {j \in 1..k : j \in P}}
    BY <1>0
  <2>2. \A j \in 0..(k - 1) : count + Cardinality({i \in 1..j : i \in P}) < Slots
    <3>1. TAKE j \in 0..(k - 1)
    <3>2. count + Cardinality({i \in 1..j : ReadyToRun(gs[ws[i]])}) < Slots
      BY <1>1
    <3>3. j \in 0..k
      BY <1>0
    <3>4. {i \in 1..j : ReadyToRun(gs[ws[i]])} = {i \in 1..j : i \in P}
      BY <1>2, <3>3, Zenon
    <3> HIDE DEF P
    <3>5. QED
      BY <3>2, <3>4, Zenon
  <2> HIDE DEF P, started
  <2>3. QED
    BY <1>0, <2>1, <2>2, StartedBound DEF Counted
<1>4. started \in SUBSET Jids /\ \A h \in started : ReadyToRun(gs[h])
  BY <1>0
<1>5. /\ groups' = [h \in Jids |-> IF h \in started
                                   THEN WaitingRunCreated(gs[h]) ELSE gs[h]]
      /\ runners' = rs \cup {NewRunner(h, NextRun(gs[h]), rs) : h \in started}
      /\ active_count' = count + Cardinality(started)
      /\ ws' = SubSeq(ws, k + 1, Len(ws))
      /\ waiting_set' = waiting_set \ {ws[i] : i \in 1..k}
  BY <1>1
<1> HIDE DEF started, P
<1>6. groups' \in [Jids -> GroupState]
  BY <1>4, <1>5, StateChanges
<1>7. /\ runners' \in SUBSET Runner
      /\ Apart(runners')
      /\ IsFiniteSet(runners')
      /\ Cardinality(runners') = Cardinality(rs) + Cardinality(started)
  BY <1>3, <1>4, <1>5, StartedRunners DEF Counted
<1>8. Cardinality(rs) \in Nat
  BY FS_CardinalityType DEF Counted
<1>9. Counted(runners', active_count')
  BY <1>3, <1>5, <1>7, <1>8 DEF Counted
<1>10. waiting_groups' \in Seq(Jids)
  <2>1. k + 1 \in Int /\ Len(ws) \in Int /\ \A i \in (k + 1)..Len(ws) : ws[i] \in Jids
    BY <1>0
  <2>2. QED
    BY <1>5, <2>1, SubSeqProperties
<1>11. QED
  BY <1>3, <1>5, <1>6, <1>7, <1>8, <1>9, <1>10 DEF Counted

\* A runner that ends gives its slot back.
LEMMA FreedSlot ==
    ASSUME TypeOK, ConcurrencyLimit, Apart(runners), NEW r \in runners
    PROVE  /\ Counted(runners \ {r}, active_count - 1)
           /\ (active_count - 1) + 1 = active_count
           /\ Cardinality(runners \ {r}) \in Nat
           /\ ~shutting_down => Cardinality(runners \ {r}) = active_count - 1
<1> DEFINE rs == runners \ {r}
           count == active_count - 1
<1>0. Slots \in Nat /\ active_count \in Nat /\ active_count <= Slots
  BY QueueAssumption DEF Slots, TypeOK, ConcurrencyLimit
<1>1. /\ IsFiniteSet(rs) /\ Cardinality(rs) \in Nat
      /\ Cardinality(rs) = Cardinality(runners) - 1
      /\ Cardinality(runners) \in Nat
  <2>1. IsFiniteSet(runners) /\ Cardinality(runners) \in Nat
    BY FS_CardinalityType DEF ConcurrencyLimit
  <2>2. IsFiniteSet(rs) /\ Cardinality(rs) = Cardinality(runners) - 1
    BY <2>1, FS_RemoveElement
  <2>3. QED
    BY <2>1, <2>2, FS_CardinalityType
<1>2. /\ Counted(rs, count)
      /\ count + 1 = active_count
      /\ ~shutting_down => Cardinality(rs) = count
  <2>1. rs \in SUBSET Runner /\ Apart(rs)
    BY DEF TypeOK, Apart
  <2> HIDE DEF rs
  <2>2. QED
    BY <1>0, <1>1, <2>1 DEF Counted, ConcurrencyLimit
<1>3. QED
  BY <1>1, <1>2

\* The end of a runner: its slot goes back, to its own group, to waiting ones
\* or to nobody, and after the shutdown signal to nobody.
LEMMA DrainGroupCounts ==
    ASSUME TypeOK, ConcurrencyLimit, Apart(runners),
           NEW r \in runners, NEW STATE st, st \in GroupState,
           DrainGroup(r, st)
    PROVE  /\ groups' \in [Jids -> GroupState]
           /\ Counted(runners', active_count')
           /\ ~shutting_down => Cardinality(runners') = active_count'
           /\ shutting_down => active_count' = active_count - 1
           /\ waiting_groups' \in Seq(Jids)
           /\ waiting_set' \in SUBSET Jids
<1> DEFINE g == r.jid
           rs == runners \ {r}
           count == active_count - 1
<1>0. Slots \in Nat /\ active_count \in Nat /\ active_count <= Slots
  BY QueueAssumption DEF Slots, TypeOK, ConcurrencyLimit
<1>1. IsFiniteSet(rs) /\ Cardinality(rs) \in Nat
  BY FreedSlot DEF Counted
<1>2. /\ Counted(rs, count)
      /\ count + 1 = active_count
      /\ ~shutting_down => Cardinality(rs) = count
  BY FreedSlot
<1>3. /\ g \in Jids
      /\ [groups EXCEPT ![g] = st] \in [Jids -> GroupState]
  BY DEF TypeOK, Runner
<1>4. ASSUME NEW t \in TaskIds \cup {NoTask},
             runners' = rs \cup {NewRunner(g, t, rs)},
             active_count' = count + 1,
             ~shutting_down
      PROVE  Counted(runners', active_count') /\ Cardinality(runners') = active_count'
  <2>1. Fresh(NewRunner(g, t, rs), g, t, rs)
    <3> HIDE DEF g, rs, count
    <3>1. QED
      BY <1>1, <1>2, <1>3, <1>4, NewRunnerFacts DEF Counted
  <2>a. Apart(runners')
    <3> HIDE DEF g, rs
    <3>1. QED
      BY <1>2, <1>4, <2>1 DEF Apart, Counted, Fresh
  <2> HIDE DEF rs
  <2>2. QED
    BY <1>0, <1>1, <1>2, <1>4, <2>1, <2>a DEF Counted, Fresh
<1>5. CASE shutting_down
  BY <1>2, <1>3, <1>5 DEF DrainGroup, TypeOK, waitVars
<1>6. CASE ~shutting_down /\ st.pending_tasks # <<>>
  <2>1. /\ groups' = [groups EXCEPT ![g] = PendingTaskStarted(st)]
        /\ runners' = rs \cup {NewRunner(g, Head(st.pending_tasks), rs)}
        /\ active_count' = count + 1
        /\ UNCHANGED waitVars
    BY <1>6 DEF DrainGroup
  <2>2. Head(st.pending_tasks) \in TaskIds /\ PendingTaskStarted(st) \in GroupState
    BY <1>6, TaskOfState
  <2>3. Counted(runners', active_count') /\ Cardinality(runners') = active_count'
    BY <1>4, <1>6, <2>1, <2>2
  <2>4. QED
    BY <1>3, <1>6, <2>1, <2>2, <2>3 DEF TypeOK, waitVars
<1>7. CASE ~shutting_down /\ st.pending_tasks = <<>> /\ st.pending_messages
  <2>1. CASE RetryPending(st)
    BY <1>2, <1>3, <1>7, <2>1 DEF DrainGroup, TypeOK, waitVars
  <2>2. CASE ~RetryPending(st)
    <3>1. /\ groups' = [groups EXCEPT ![g] = MessageRunCreated(st)]
          /\ runners' = rs \cup {NewRunner(g, NoTask, rs)}
          /\ active_count' = count + 1
          /\ UNCHANGED waitVars
      BY <1>7, <2>2 DEF DrainGroup
    <3>2. MessageRunCreated(st) \in GroupState
      BY StateChanges
    <3>3. Counted(runners', active_count') /\ Cardinality(runners') = active_count'
      BY <1>4, <1>7, <3>1
    <3>4. QED
      BY <1>3, <1>7, <3>1, <3>2, <3>3 DEF TypeOK, waitVars
  <2>3. QED
    BY <2>1, <2>2
<1>8. CASE ~shutting_down /\ st.pending_tasks = <<>> /\ ~st.pending_messages
  <2>1. DrainWaiting([groups EXCEPT ![g] = st], rs, count)
    BY <1>8 DEF DrainGroup
  <2>2. waiting_groups \in Seq(Jids) /\ waiting_set \in SUBSET Jids
    BY DEF TypeOK
  <2> HIDE DEF g, rs, count
  <2>3. QED
    BY <1>2, <1>3, <1>8, <2>1, <2>2, DrainWaitingCounts
<1>9. QED
  BY <1>5, <1>6, <1>7, <1>8

-----------------------------------------------------------------------------
(* The type invariant and the concurrency limit. *)

CountInv == TypeOK /\ ConcurrencyLimit /\ Apart(runners)

\* enqueue_message_check and the retry timer start a runner only below the limit.
LEMMA MessageCheckCounts ==
    ASSUME TypeOK, ConcurrencyLimit, Apart(runners),
           NEW g \in Jids, NEW STATE st, st \in GroupState, NEW b \in BOOLEAN,
           MessageCheck(g, st, b)
    PROVE  /\ groups' \in [Jids -> GroupState]
           /\ Counted(runners', active_count')
           /\ ~shutting_down => Cardinality(runners') = active_count'
           /\ waiting_groups' \in Seq(Jids)
           /\ waiting_set' \in SUBSET Jids
<1> DEFINE new == NewRunner(g, NoTask, runners)
<1>0. Slots \in Nat /\ IsFiniteSet(runners) /\ Cardinality(runners) \in Nat
  BY QueueAssumption, FS_CardinalityType DEF Slots, ConcurrencyLimit
<1>1. Counted(runners, active_count)
  BY DEF Counted, TypeOK, ConcurrencyLimit, Slots
<1>2. MarkPending(st) \in GroupState /\ MessageRunCreated(st) \in GroupState
  BY StateChanges
<1>3. Fresh(new, g, NoTask, runners)
  BY <1>0, NewRunnerFacts DEF TypeOK
<1>4. \/ /\ groups' = [groups EXCEPT ![g] = MarkPending(st)]
         /\ UNCHANGED <<slotVars, waitVars>>
      \/ /\ groups' = [groups EXCEPT ![g] = MarkPending(st)]
         /\ JoinWaiting(g)
         /\ UNCHANGED slotVars
      \/ /\ ~AtLimit
         /\ groups' = [groups EXCEPT ![g] = MessageRunCreated(st)]
         /\ active_count' = active_count + 1
         /\ runners' = runners \cup {new}
         /\ UNCHANGED waitVars
  BY DEF MessageCheck
<1>5. groups' \in [Jids -> GroupState]
  BY <1>2, <1>4 DEF TypeOK
<1>6. waiting_groups' \in Seq(Jids) /\ waiting_set' \in SUBSET Jids
  <2>1. Append(waiting_groups, g) \in Seq(Jids)
    BY AppendProperties DEF TypeOK
  <2>2. QED
    BY <1>4, <2>1 DEF TypeOK, waitVars, JoinWaiting
<1>7. CASE UNCHANGED slotVars
  BY <1>1, <1>5, <1>6, <1>7 DEF slotVars, ConcurrencyLimit
<1>8. CASE /\ ~AtLimit
           /\ active_count' = active_count + 1
           /\ runners' = runners \cup {new}
  <2> HIDE DEF new
  <2>1. runners' \in SUBSET Runner /\ Apart(runners')
    BY <1>3, <1>8 DEF TypeOK, Apart, Fresh
  <2>2. active_count + 1 <= Slots
    BY <1>0, <1>8 DEF TypeOK, AtLimit, Slots
  <2>3. QED
    BY <1>0, <1>1, <1>3, <1>5, <1>6, <1>8, <2>1, <2>2 DEF Counted, ConcurrencyLimit, Fresh
<1>9. QED
  BY <1>4, <1>7, <1>8

\* The queue starts with no runner and no slot taken.
LEMMA CountInit == QueueInit => CountInv
<1> SUFFICES ASSUME QueueInit PROVE CountInv
  OBVIOUS
<1>1. <<>> \in Seq(TaskIds) /\ <<>> \in Seq(Jids)
  BY EmptySeq
<1>2. NewGroupState \in GroupState
  BY <1>1, QueueAssumption DEF NewGroupState, GroupState
<1>3. TypeOK
  BY <1>1, <1>2 DEF QueueInit, TypeOK
<1>4. IsFiniteSet(runners) /\ Cardinality(runners) = 0
  BY FS_EmptySet DEF QueueInit
<1>5. ConcurrencyLimit
  BY <1>4, QueueAssumption DEF QueueInit, ConcurrencyLimit
<1>6. QED
  BY <1>3, <1>5 DEF CountInv, QueueInit, Apart

\* Every step keeps the count of the slots.
LEMMA CountNext == CountInv /\ [QueueNext]_queueVars => CountInv'
<1> SUFFICES ASSUME TypeOK, ConcurrencyLimit, Apart(runners), [QueueNext]_queueVars
             PROVE  CountInv'
  BY DEF CountInv
\* what every case has to show
<1>0. ASSUME groups' \in [Jids -> GroupState],
             Counted(runners', active_count'),
             ~shutting_down' => Cardinality(runners') = active_count',
             waiting_groups' \in Seq(Jids),
             waiting_set' \in SUBSET Jids,
             shutting_down' \in BOOLEAN,
             retry_timers' \in [Jids -> Nat]
      PROVE  CountInv'
  BY <1>0 DEF CountInv, TypeOK, ConcurrencyLimit, Counted, Slots
<1>t. /\ groups \in [Jids -> GroupState]
      /\ Counted(runners, active_count)
      /\ ~shutting_down => Cardinality(runners) = active_count
      /\ waiting_groups \in Seq(Jids)
      /\ waiting_set \in SUBSET Jids
      /\ shutting_down \in BOOLEAN
      /\ retry_timers \in [Jids -> Nat]
  BY DEF TypeOK, ConcurrencyLimit, Counted, Slots
<1>f. \A r \in runners : /\ r \in Runner
                         /\ r.jid \in Jids
                         /\ groups[r.jid] \in GroupState
  BY DEF TypeOK, Runner
\* the end of a runner in the state st, however it ends
<1>d. ASSUME NEW r \in runners, NEW STATE st, st \in GroupState, DrainGroup(r, st),
             UNCHANGED shutting_down, retry_timers' \in [Jids -> Nat]
      PROVE  CountInv'
  <2>1. /\ groups' \in [Jids -> GroupState]
        /\ Counted(runners', active_count')
        /\ ~shutting_down => Cardinality(runners') = active_count'
        /\ waiting_groups' \in Seq(Jids)
        /\ waiting_set' \in SUBSET Jids
    BY <1>d, DrainGroupCounts
  <2>2. QED
    BY <1>0, <1>t, <1>d, <2>1
<1>1. ASSUME NEW g \in Jids, EnqueueMessageCheck(g) PROVE CountInv'
  <2>1. MessageCheck(g, groups[g], FALSE) /\ UNCHANGED <<shutting_down, retry_timers>>
    BY <1>1 DEF EnqueueMessageCheck
  <2>2. groups[g] \in GroupState
    BY <1>t
  <2>3. /\ groups' \in [Jids -> GroupState]
        /\ Counted(runners', active_count')
        /\ ~shutting_down => Cardinality(runners') = active_count'
        /\ waiting_groups' \in Seq(Jids)
        /\ waiting_set' \in SUBSET Jids
    BY <2>1, <2>2, MessageCheckCounts
  <2>4. QED
    BY <1>0, <1>t, <2>1, <2>3
<1>2. ASSUME NEW g \in Jids, RetryTimerFires(g) PROVE CountInv'
  <2> DEFINE st == [groups[g] EXCEPT !.retry_ready = TRUE]
  <2>1. retry_timers' \in [Jids -> Nat] /\ UNCHANGED shutting_down
    BY <1>2, <1>t DEF RetryTimerFires
  <2>2. st \in GroupState
    BY <1>t DEF GroupState
  <2>3. CASE MessageCheck(g, st, TRUE)
    <3> HIDE DEF st
    <3>1. /\ groups' \in [Jids -> GroupState]
          /\ Counted(runners', active_count')
          /\ ~shutting_down => Cardinality(runners') = active_count'
          /\ waiting_groups' \in Seq(Jids)
          /\ waiting_set' \in SUBSET Jids
      BY <2>2, <2>3, MessageCheckCounts
    <3>2. QED
      BY <1>0, <1>t, <2>1, <3>1
  <2>4. CASE UNCHANGED <<groups, slotVars, waitVars>>
    BY <1>0, <1>t, <2>1, <2>4 DEF slotVars, waitVars
  <2>5. QED
    BY <1>2, <2>3, <2>4 DEF RetryTimerFires
<1>3. ASSUME NEW t \in TaskIds, EnqueueTask(t) PROVE CountInv'
  <2> DEFINE g == TaskJid[t]
             new == NewRunner(g, t, runners)
  <2>0. /\ g \in Jids /\ groups[g] \in GroupState
        /\ Slots \in Nat /\ IsFiniteSet(runners) /\ Cardinality(runners) \in Nat
    BY <1>t, QueueAssumption, FS_CardinalityType DEF Slots, ConcurrencyLimit
  <2>1. /\ TaskRunCreated(groups[g], t) \in GroupState
        /\ TaskQueued(groups[g], t) \in GroupState
    BY <2>0, StateChanges
  <2>2. Fresh(new, g, t, runners)
    <3> HIDE DEF g
    <3>1. QED
      BY <2>0, NewRunnerFacts DEF TypeOK
  <2>3. /\ UNCHANGED <<shutting_down, retry_timers>>
        /\ \/ /\ groups' = [groups EXCEPT ![g] = TaskQueued(groups[g], t)]
              /\ UNCHANGED <<slotVars, waitVars>>
           \/ /\ groups' = [groups EXCEPT ![g] = TaskQueued(groups[g], t)]
              /\ JoinWaiting(g)
              /\ UNCHANGED slotVars
           \/ /\ ~AtLimit
              /\ groups' = [groups EXCEPT ![g] = TaskRunCreated(groups[g], t)]
              /\ active_count' = active_count + 1
              /\ runners' = runners \cup {new}
              /\ UNCHANGED waitVars
    BY <1>3 DEF EnqueueTask
  <2>4. groups' \in [Jids -> GroupState]
    BY <1>t, <2>1, <2>3
  <2>5. waiting_groups' \in Seq(Jids) /\ waiting_set' \in SUBSET Jids
    <3>1. Append(waiting_groups, g) \in Seq(Jids)
      BY <1>t, <2>0, AppendProperties
    <3>2. QED
      BY <1>t, <2>0, <2>3, <3>1 DEF waitVars, JoinWaiting
  <2>6. CASE UNCHANGED slotVars
    BY <1>0, <1>t, <2>3, <2>4, <2>5, <2>6 DEF slotVars
  <2>7. CASE ~AtLimit /\ active_count' = active_count + 1 /\ runners' = runners \cup {new}
    <3> HIDE DEF new
    <3>1. runners' \in SUBSET Runner /\ Apart(runners')
      BY <2>2, <2>7 DEF TypeOK, Apart, Fresh
    <3>2. active_count + 1 <= Slots
      BY <2>0, <2>7 DEF TypeOK, AtLimit, Slots
    <3>3. Counted(runners', active_count')
      BY <1>t, <2>0, <2>2, <2>7, <3>1, <3>2 DEF Counted, Fresh
    <3>4. ~shutting_down => Cardinality(runners') = active_count'
      BY <1>t, <2>2, <2>7 DEF Fresh
    <3>5. QED
      BY <1>0, <1>t, <2>3, <2>4, <2>5, <3>3, <3>4
  <2>8. QED
    BY <2>3, <2>6, <2>7
<1>4. ASSUME NEW r \in runners, RunForGroupStarts(r) \/ RunTaskStarts(r) PROVE CountInv'
  <2>1. /\ r.phase = "created"
        /\ runners' = (runners \ {r}) \cup {Running(r)}
        /\ UNCHANGED <<active_count, waitVars, shutting_down, retry_timers>>
    BY <1>4 DEF RunForGroupStarts, RunTaskStarts
  <2>2. groups' \in [Jids -> GroupState]
    <3>1. [groups[r.jid] EXCEPT !.pending_messages = FALSE] \in GroupState
      BY <1>f DEF GroupState
    <3>2. QED
      BY <1>4, <1>f, <1>t, <3>1 DEF RunForGroupStarts, RunTaskStarts
  <2>3. /\ Running(r) \in Runner
        /\ Running(r).jid = r.jid
        /\ Running(r).slot = r.slot
        /\ Running(r).phase = "running"
    BY <1>f DEF Running, Runner
  <2>4. Running(r) \notin runners /\ Apart(runners')
    BY <2>1, <2>3 DEF Apart
  <2>5. /\ IsFiniteSet(runners')
        /\ Cardinality(runners') = Cardinality(runners)
    <3>1. /\ IsFiniteSet(runners \ {r})
          /\ Cardinality(runners \ {r}) = Cardinality(runners) - 1
      BY FS_RemoveElement DEF ConcurrencyLimit
    <3>2. Running(r) \notin runners \ {r}
      BY <2>4
    <3> DEFINE rs == runners \ {r}
    <3>3. IsFiniteSet(rs) /\ Running(r) \notin rs
      BY <3>1, <3>2
    <3> HIDE DEF rs
    <3>4. /\ IsFiniteSet(rs \cup {Running(r)})
          /\ Cardinality(rs \cup {Running(r)}) = Cardinality(rs) + 1
      BY <3>3, FS_AddElement
    <3>5. Cardinality(runners) \in Nat
      BY FS_CardinalityType DEF ConcurrencyLimit
    <3>6. QED
      BY <2>1, <3>1, <3>4, <3>5 DEF rs
  <2>6. runners' \in SUBSET Runner
    BY <1>f, <2>1, <2>3
  <2>7. Counted(runners', active_count')
    BY <1>t, <2>1, <2>4, <2>5, <2>6 DEF Counted
  <2>8. QED
    BY <1>0, <1>t, <2>1, <2>2, <2>5, <2>7 DEF waitVars
<1>5. ASSUME NEW r \in runners, RunForGroupSucceeds(r) PROVE CountInv'
  <2> DEFINE st == MessageRunEnded([groups[r.jid] EXCEPT !.retry_count = 0])
  <2>1. st \in GroupState
    <3>1. groups[r.jid] \in GroupState /\ 0 \in 0..MAX_RETRIES
      BY <1>f, QueueAssumption
    <3>2. [groups[r.jid] EXCEPT !.retry_count = 0] \in GroupState
      BY <3>1 DEF GroupState
    <3>3. QED
      BY <3>2, EndedType
  <2>2. DrainGroup(r, st) /\ UNCHANGED <<shutting_down, retry_timers>>
    BY <1>5 DEF RunForGroupSucceeds
  <2> HIDE DEF st
  <2>3. QED
    BY <1>d, <1>t, <2>1, <2>2
<1>6. ASSUME NEW r \in runners, RunForGroupFails(r) PROVE CountInv'
  <2>1. PICK st \in GroupState : DrainGroup(r, st) /\ UNCHANGED shutting_down
    BY <1>f, <1>6, FailedState
  <2>2. retry_timers' \in [Jids -> Nat]
    BY <1>6, <1>f, <1>t DEF RunForGroupFails
  <2>3. QED
    BY <1>d, <2>1, <2>2
<1>7. ASSUME NEW r \in runners, RunTaskEnds(r) PROVE CountInv'
  <2> DEFINE st == [groups[r.jid] EXCEPT !.active = FALSE, !.running_task_id = NoTask]
  <2>1. st \in GroupState
    BY <1>f DEF GroupState
  <2>2. DrainGroup(r, st) /\ UNCHANGED <<shutting_down, retry_timers>>
    BY <1>7 DEF RunTaskEnds
  <2> HIDE DEF st
  <2>3. QED
    BY <1>d, <1>t, <2>1, <2>2
<1>8. ASSUME NEW r \in runners, RunnerCancelled(r) PROVE CountInv'
  <2>1. shutting_down /\ UNCHANGED <<shutting_down, retry_timers>>
    BY <1>8 DEF RunnerCancelled
  <2>2. CASE r.phase = "running"
    <3> DEFINE st == IF r.task = NoTask
                     THEN MessageRunEnded(groups[r.jid])
                     ELSE [groups[r.jid] EXCEPT !.active = FALSE,
                                                !.running_task_id = NoTask]
    <3>1. st \in GroupState
      <4>1. MessageRunEnded(groups[r.jid]) \in GroupState
        BY <1>f, EndedType
      <4>2. [groups[r.jid] EXCEPT !.active = FALSE,
                                  !.running_task_id = NoTask] \in GroupState
        BY <1>f DEF GroupState
      <4>3. QED
        BY <4>1, <4>2
    <3>2. DrainGroup(r, st)
      BY <1>8, <2>2 DEF RunnerCancelled
    <3> HIDE DEF st
    <3>3. QED
      BY <1>d, <1>t, <2>1, <3>1, <3>2
  <2>3. CASE r.phase = "created"
    <3>1. runners' = runners \ {r} /\ UNCHANGED <<groups, active_count, waitVars>>
      BY <1>8, <2>3 DEF RunnerCancelled
    <3>2. /\ IsFiniteSet(runners')
          /\ Cardinality(runners') = Cardinality(runners) - 1
          /\ Cardinality(runners) \in Nat
      BY <3>1, FS_RemoveElement, FS_CardinalityType DEF ConcurrencyLimit
    <3>3. runners' \in SUBSET Runner /\ Apart(runners')
      BY <3>1 DEF TypeOK, Apart
    <3>4. Counted(runners', active_count')
      BY <1>t, <3>1, <3>2, <3>3 DEF Counted
    <3>5. QED
      BY <1>0, <1>t, <2>1, <3>1, <3>4 DEF waitVars
  <2>4. QED
    BY <1>8, <2>2, <2>3 DEF RunnerCancelled
<1>9. CASE ShutdownSync
  BY <1>0, <1>t, <1>9 DEF ShutdownSync, slotVars, waitVars
<1>10. CASE Shutdown
  BY <1>0, <1>t, <1>10 DEF Shutdown, slotVars, waitVars
<1>11. CASE UNCHANGED queueVars
  BY <1>0, <1>t, <1>11 DEF queueVars
<1>12. QED
  BY <1>1, <1>2, <1>3, <1>4, <1>5, <1>6, <1>7, <1>8, <1>9, <1>10, <1>11
     DEF QueueNext, RunnerStep

\* The slots are counted in every reachable state.
LEMMA CountInvariant == QueueSpec => []CountInv
<1>1. QED
  BY CountInit, CountNext, PTL DEF QueueSpec

\* The queue's state keeps its type through every sequence of calls, runs,
\* failures and cancellations, for any number of groups, tasks and slots.
THEOREM TypeCorrect == QueueSpec => []TypeOK
<1>1. CountInv => TypeOK
  BY DEF CountInv
<1>2. QED
  BY <1>1, CountInvariant, PTL

\* "enforces a global MAX_CONCURRENT_CONTAINERS limit": no interleaving of
\* callers, timers, drains and shutdown has more coroutines than the limit,
\* and until shutdown _active_count is their number.
THEOREM LimitHolds == QueueSpec => []ConcurrencyLimit
<1>1. CountInv => ConcurrencyLimit
  BY DEF CountInv
<1>2. QED
  BY <1>1, CountInvariant, PTL

\* After shutdown_sync() no timer, drain or caller still in flight takes a slot.
THEOREM StartsEndAtShutdown == QueueSpec => NoStartAfterShutdown
<1>1. CountInv /\ [QueueNext]_queueVars
        => [shutting_down => active_count' <= active_count]_queueVars
  <2> SUFFICES ASSUME TypeOK, ConcurrencyLimit, Apart(runners), QueueNext, shutting_down
               PROVE  active_count' <= active_count
    BY DEF CountInv, queueVars
  <2>0. active_count \in Nat
    BY DEF TypeOK
  <2>f. \A r \in runners : groups[r.jid] \in GroupState
    BY DEF TypeOK, Runner
  <2>d. ASSUME NEW r \in runners, NEW STATE st, DrainGroup(r, st)
        PROVE  active_count' <= active_count
    BY <2>0, <2>d DEF DrainGroup
  <2>1. ASSUME NEW g \in Jids, EnqueueMessageCheck(g) \/ RetryTimerFires(g)
        PROVE  active_count' <= active_count
    BY <2>0, <2>1 DEF EnqueueMessageCheck, RetryTimerFires, slotVars
  <2>2. ASSUME NEW t \in TaskIds, EnqueueTask(t) PROVE active_count' <= active_count
    BY <2>2 DEF EnqueueTask
  <2>3. ASSUME NEW r \in runners, RunnerStep(r) PROVE active_count' <= active_count
    <3>1. CASE RunForGroupStarts(r) \/ RunTaskStarts(r)
      <4>1. active_count' = active_count
        BY <3>1 DEF RunForGroupStarts, RunTaskStarts
      <4>2. QED
        BY <2>0, <4>1
    <3>2. CASE \/ RunForGroupSucceeds(r)
               \/ RunForGroupFails(r)
               \/ RunTaskEnds(r)
      BY <2>d, <3>2 DEF RunForGroupSucceeds, RunForGroupFails, RunTaskEnds
    <3>3. QED
      BY <2>3, <3>1, <3>2 DEF RunnerStep
  <2>4. ASSUME NEW r \in runners, RunnerCancelled(r) PROVE active_count' <= active_count
    BY <2>0, <2>d, <2>4 DEF RunnerCancelled
  <2>5. CASE ShutdownSync \/ Shutdown
    BY <2>0, <2>5 DEF ShutdownSync, Shutdown, slotVars
  <2>6. QED
    BY <2>1, <2>2, <2>3, <2>4, <2>5 DEF QueueNext
<1>2. QED
  BY <1>1, CountInvariant, PTL DEF QueueSpec, NoStartAfterShutdown

-----------------------------------------------------------------------------
(* The waiting list. *)

\* Joining keeps the list sound.
LEMMA JoinSound ==
    ASSUME TypeOK, WaitingListSound, NEW g \in Jids, JoinWaiting(g)
    PROVE  WaitingListSound'
<1> DEFINE ws == waiting_groups
<1>0. /\ ws \in Seq(Jids) /\ Len(ws) \in Nat
      /\ DOMAIN ws = 1..Len(ws)
      /\ MAX_WAITING_GROUPS \in Nat
  BY LenProperties, QueueAssumption DEF TypeOK
<1>1. CASE UNCHANGED waitVars
  BY <1>1 DEF WaitingListSound, waitVars
<1>2. CASE /\ g \notin waiting_set /\ Len(ws) < MAX_WAITING_GROUPS
           /\ ws' = Append(ws, g) /\ waiting_set' = waiting_set \cup {g}
  <2>1. /\ ws' \in Seq(Jids)
        /\ Len(ws') = Len(ws) + 1
        /\ \A i \in 1..Len(ws) : ws'[i] = ws[i]
        /\ ws'[Len(ws) + 1] = g
        /\ DOMAIN ws' = 1..(Len(ws) + 1)
    BY <1>0, <1>2, AppendProperties, LenProperties
  <2>2. \A i \in 1..Len(ws) : ws[i] # g
    BY <1>0, <1>2 DEF WaitingListSound, Range
  <2>3. waiting_set' = Range(ws')
    BY <1>0, <1>2, <2>1 DEF WaitingListSound, Range
  <2>4. \A i, j \in 1..Len(ws') : ws'[i] = ws'[j] => i = j
    BY <1>0, <2>1, <2>2 DEF WaitingListSound
  <2>5. QED
    BY <1>0, <1>2, <2>1, <2>3, <2>4 DEF WaitingListSound
<1>3. QED
  BY <1>1, <1>2 DEF JoinWaiting

\* Popping a prefix keeps the list sound.
LEMMA PopSound ==
    ASSUME TypeOK, WaitingListSound, NEW k \in 0..Len(waiting_groups),
           waiting_groups' = SubSeq(waiting_groups, k + 1, Len(waiting_groups)),
           waiting_set' = waiting_set \ {waiting_groups[i] : i \in 1..k}
    PROVE  WaitingListSound'
<1> DEFINE ws == waiting_groups
           n == Len(ws)
<1>0. /\ ws \in Seq(Jids) /\ n \in Nat
      /\ DOMAIN ws = 1..n
      /\ \A i \in 1..n : ws[i] \in Jids
      /\ MAX_WAITING_GROUPS \in Nat
  BY LenProperties, ElementOfSeq, QueueAssumption DEF TypeOK
<1>1. /\ ws' \in Seq(Jids)
      /\ Len(ws') = IF k + 1 <= n THEN n - (k + 1) + 1 ELSE 0
      /\ \A i \in 1..(n - (k + 1) + 1) : ws'[i] = ws[(k + 1) + i - 1]
  <2>1. k + 1 \in Int /\ n \in Int /\ \A i \in (k + 1)..n : ws[i] \in Jids
    BY <1>0
  <2> HIDE DEF n
  <2>2. QED
    BY <2>1, SubSeqProperties DEF n
<1>2. /\ Len(ws') = n - k
      /\ \A i \in 1..(n - k) : ws'[i] = ws[k + i]
      /\ DOMAIN ws' = 1..(n - k)
  <2>1. DOMAIN ws' = 1..Len(ws')
    BY <1>1, LenProperties
  <2>2. QED
    BY <1>0, <1>1, <2>1
<1>k. k \in Nat /\ k <= n /\ \A i \in 1..(n - k) : k + i \in 1..n
  BY <1>0
<1>3. \A i, j \in 1..Len(ws') : ws'[i] = ws'[j] => i = j
  <2>1. TAKE i, j \in 1..Len(ws')
  <2>2. HAVE ws'[i] = ws'[j]
  <2>3. i \in 1..(n - k) /\ j \in 1..(n - k)
    BY <1>2
  <2>4. ws[k + i] = ws[k + j] /\ k + i \in 1..n /\ k + j \in 1..n
    BY <1>2, <1>k, <2>2, <2>3
  <2>5. k + i = k + j
    BY <2>4 DEF WaitingListSound
  <2>6. QED
    BY <1>k, <2>3, <2>5
<1>4. waiting_set' = Range(ws')
  <2>1. \A x \in waiting_set' : x \in Range(ws')
    <3>1. TAKE x \in waiting_set'
    <3>2. PICK i \in 1..n : x = ws[i]
      BY <1>0 DEF WaitingListSound, Range
    <3>3. i \notin 1..k
      BY <3>2
    <3>4. i - k \in 1..(n - k) /\ k + (i - k) = i
      BY <1>0, <3>2, <3>3
    <3>5. ws'[i - k] = x
      BY <1>2, <3>2, <3>4
    <3>6. QED
      BY <1>2, <3>4, <3>5 DEF Range
  <2>2. \A x \in Range(ws') : x \in waiting_set'
    <3>1. TAKE x \in Range(ws')
    <3>2. PICK i \in 1..(n - k) : x = ws'[i]
      BY <1>2 DEF Range
    <3>3. k + i \in 1..n /\ x = ws[k + i]
      <4>1. k + i \in 1..n
        BY <1>k
      <4>2. ws'[i] = ws[k + i]
        BY <1>2
      <4>3. QED
        BY <3>2, <4>1, <4>2
    <3>4. x \in waiting_set
      BY <1>0, <3>3 DEF WaitingListSound, Range
    <3>5. \A j \in 1..k : ws[j] # x
      <4>1. TAKE j \in 1..k
      <4>2. j \in 1..n /\ j # k + i
        BY <1>0
      <4>3. QED
        BY <3>3, <4>2 DEF WaitingListSound
    <3>6. QED
      BY <3>4, <3>5
  <2>3. QED
    BY <2>1, <2>2
<1>5. Len(ws') <= MAX_WAITING_GROUPS
  <2>1. n <= MAX_WAITING_GROUPS
    BY DEF WaitingListSound
  <2> HIDE DEF n
  <2>2. QED
    BY <1>0, <1>2, <1>k, <2>1
<1>6. QED
  BY <1>3, <1>4, <1>5 DEF WaitingListSound

\* Every step keeps the list of those who wait in accord with its set.
LEMMA WaitingNext == TypeOK /\ WaitingListSound /\ [QueueNext]_queueVars => WaitingListSound'
<1> SUFFICES ASSUME TypeOK, WaitingListSound, [QueueNext]_queueVars
             PROVE  WaitingListSound'
  OBVIOUS
<1>u. ASSUME UNCHANGED waitVars PROVE WaitingListSound'
  BY <1>u DEF WaitingListSound, waitVars
<1>m. ASSUME NEW g \in Jids, NEW STATE st, NEW b, MessageCheck(g, st, b)
      PROVE  WaitingListSound'
  BY <1>u, <1>m, JoinSound DEF MessageCheck
<1>d. ASSUME NEW r, NEW STATE st, DrainGroup(r, st) PROVE WaitingListSound'
  <2>1. CASE UNCHANGED waitVars
    BY <1>u, <2>1
  <2>2. CASE DrainWaiting([groups EXCEPT ![r.jid] = st], runners \ {r}, active_count - 1)
    <3>1. PICK k \in 0..Len(waiting_groups) :
            /\ waiting_groups' = SubSeq(waiting_groups, k + 1, Len(waiting_groups))
            /\ waiting_set' = waiting_set \ {waiting_groups[i] : i \in 1..k}
      BY <2>2 DEF DrainWaiting
    <3>2. QED
      BY <3>1, PopSound
  <2>3. QED
    BY <1>d, <2>1, <2>2 DEF DrainGroup
<1>1. ASSUME NEW g \in Jids, EnqueueMessageCheck(g) \/ RetryTimerFires(g)
      PROVE  WaitingListSound'
  BY <1>u, <1>m, <1>1 DEF EnqueueMessageCheck, RetryTimerFires
<1>2. ASSUME NEW t \in TaskIds, EnqueueTask(t) PROVE WaitingListSound'
  <2>1. TaskJid[t] \in Jids
    BY QueueAssumption
  <2>2. UNCHANGED waitVars \/ JoinWaiting(TaskJid[t])
    BY <1>2 DEF EnqueueTask
  <2>3. QED
    BY <1>u, <2>1, <2>2, JoinSound
<1>3. ASSUME NEW r \in runners, RunnerStep(r) PROVE WaitingListSound'
  <2>1. CASE RunForGroupStarts(r) \/ RunTaskStarts(r)
    BY <1>u, <2>1 DEF RunForGroupStarts, RunTaskStarts
  <2>2. CASE RunForGroupSucceeds(r) \/ RunForGroupFails(r) \/ RunTaskEnds(r)
    BY <1>d, <2>2 DEF RunForGroupSucceeds, RunForGroupFails, RunTaskEnds
  <2>3. QED
    BY <1>3, <2>1, <2>2 DEF RunnerStep
<1>4. ASSUME NEW r \in runners, RunnerCancelled(r) PROVE WaitingListSound'
  BY <1>u, <1>d, <1>4 DEF RunnerCancelled
<1>5. CASE ShutdownSync \/ Shutdown
  BY <1>u, <1>5 DEF ShutdownSync, Shutdown
<1>6. CASE UNCHANGED queueVars
  BY <1>u, <1>6 DEF queueVars, waitVars
<1>7. QED
  BY <1>1, <1>2, <1>3, <1>4, <1>5, <1>6 DEF QueueNext

\* _waiting_set and _waiting_groups never drift apart, no group waits twice and
\* the cap of issue #446 holds.
THEOREM WaitingSound == QueueSpec => []WaitingListSound
<1>1. QueueInit => WaitingListSound
  <2> SUFFICES ASSUME QueueInit PROVE WaitingListSound
    OBVIOUS
  <2>1. /\ waiting_groups = <<>> /\ waiting_set = {}
        /\ Len(waiting_groups) = 0 /\ DOMAIN waiting_groups = {}
    BY DEF QueueInit
  <2>2. QED
    BY <2>1, QueueAssumption DEF WaitingListSound, Range
<1>2. QED
  BY <1>1, WaitingNext, TypeCorrect, PTL DEF QueueSpec

-----------------------------------------------------------------------------
(* No stranded task.  NoStrandedTask is not inductive: enqueue_task queues   *)
(* behind a group that says it is active, so active must mean that a runner  *)
(* is alive.                                                                 *)

BackedInv ==
    ~shutting_down =>
        \A g \in Jids :
            /\ groups[g].pending_tasks # <<>> => g \in waiting_set \/ RunnersOf(g) # {}
            /\ groups[g].active => RunnersOf(g) # {}

\* A step that only adds runners, and changes a group only where that keeps it
\* backed, keeps every group backed.
LEMMA BackedStep ==
    ASSUME BackedInv, ~shutting_down,
           \A h \in Jids :
              \/ /\ RunnersOf(h) # {} => RunnersOf(h)' # {}
                 /\ h \in waiting_set => h \in waiting_set' \/ RunnersOf(h)' # {}
                 /\ groups'[h].active => groups[h].active
                 /\ groups'[h].pending_tasks # <<>> => groups[h].pending_tasks # <<>>
              \/ RunnersOf(h)' # {}
              \/ groups'[h].pending_tasks = <<>> /\ ~groups'[h].active
              \/ ~groups'[h].active /\ h \in waiting_set'
    PROVE  BackedInv'
BY DEF BackedInv

\* The end of a runner leaves every group backed: what its own group has queued
\* is started at once, and a popped group that has a task is started.
LEMMA DrainGroupBacks ==
    ASSUME TypeOK, ConcurrencyLimit, Apart(runners), BackedInv, ~shutting_down,
           NEW r \in runners, NEW STATE st, st \in GroupState, ~st.active,
           DrainGroup(r, st)
    PROVE  BackedInv'
<1> DEFINE g == r.jid
           rs == runners \ {r}
           gs == [groups EXCEPT ![g] = st]
<1>0. /\ g \in Jids
      /\ groups \in [Jids -> GroupState]
      /\ rs \in SUBSET Runner /\ IsFiniteSet(rs)
      /\ \A h \in Jids \ {g} : RunnersOf(h) \subseteq rs
  <2>1. IsFiniteSet(rs)
    BY FS_RemoveElement DEF ConcurrencyLimit
  <2>2. QED
    BY <2>1 DEF TypeOK, Runner, RunnersOf
<1>1. ASSUME NEW t \in TaskIds \cup {NoTask},
             NEW STATE s1, s1 \in GroupState,
             groups' = [groups EXCEPT ![g] = s1],
             runners' = rs \cup {NewRunner(g, t, rs)},
             UNCHANGED waitVars
      PROVE  BackedInv'
  <2>1. NewRunner(g, t, rs).jid = g
    BY DEF NewRunner
  <2>2. RunnersOf(g)' # {}
    BY <1>1, <2>1 DEF RunnersOf
  <2>3. \A h \in Jids \ {g} : /\ RunnersOf(h) # {} => RunnersOf(h)' # {}
                              /\ groups'[h] = groups[h]
                              /\ h \in waiting_set => h \in waiting_set'
    BY <1>0, <1>1 DEF RunnersOf, waitVars
  <2>4. QED
    BY <2>2, <2>3, BackedStep
<1>2. CASE st.pending_tasks # <<>>
  <2>1. /\ groups' = [groups EXCEPT ![g] = PendingTaskStarted(st)]
        /\ runners' = rs \cup {NewRunner(g, Head(st.pending_tasks), rs)}
        /\ UNCHANGED waitVars
    BY <1>2 DEF DrainGroup
  <2>2. Head(st.pending_tasks) \in TaskIds /\ PendingTaskStarted(st) \in GroupState
    BY <1>2, TaskOfState
  <2>3. QED
    BY <1>1, <2>1, <2>2
<1>3. CASE st.pending_tasks = <<>> /\ st.pending_messages /\ ~RetryPending(st)
  <2>1. /\ groups' = [groups EXCEPT ![g] = MessageRunCreated(st)]
        /\ runners' = rs \cup {NewRunner(g, NoTask, rs)}
        /\ UNCHANGED waitVars
    BY <1>3 DEF DrainGroup
  <2>2. MessageRunCreated(st) \in GroupState
    BY StateChanges
  <2>3. QED
    BY <1>1, <2>1, <2>2
<1>4. CASE st.pending_tasks = <<>> /\ st.pending_messages /\ RetryPending(st)
  <2>1. groups' = gs /\ runners' = rs /\ UNCHANGED waitVars
    BY <1>4 DEF DrainGroup
  <2>2. groups'[g].pending_tasks = <<>> /\ ~groups'[g].active
    BY <1>0, <1>4, <2>1
  <2>3. \A h \in Jids \ {g} : /\ RunnersOf(h) # {} => RunnersOf(h)' # {}
                              /\ groups'[h] = groups[h]
                              /\ h \in waiting_set => h \in waiting_set'
    BY <1>0, <2>1 DEF RunnersOf, waitVars
  <2>4. QED
    BY <2>2, <2>3, BackedStep
<1>5. CASE st.pending_tasks = <<>> /\ ~st.pending_messages
  <2>0. gs \in [Jids -> GroupState]
    BY <1>0
  <2>1. DrainWaiting(gs, rs, active_count - 1)
    BY <1>5 DEF DrainGroup
  <2>2. PICK k \in 0..Len(waiting_groups) :
          LET started == {waiting_groups[i] :
                            i \in {j \in 1..k : ReadyToRun(gs[waiting_groups[j]])}}
          IN  /\ groups' = [h \in Jids |-> IF h \in started
                                           THEN WaitingRunCreated(gs[h]) ELSE gs[h]]
              /\ runners' = rs \cup {NewRunner(h, NextRun(gs[h]), rs) : h \in started}
              /\ waiting_set' = waiting_set \ {waiting_groups[i] : i \in 1..k}
    BY <2>1 DEF DrainWaiting
  <2> DEFINE popped == {waiting_groups[i] : i \in 1..k}
             started == {waiting_groups[i] :
                           i \in {j \in 1..k : ReadyToRun(gs[waiting_groups[j]])}}
  <2>3. \A h \in popped : gs[h].pending_tasks # <<>> => h \in started
    BY DEF ReadyToRun
  <2>4. /\ groups' = [h \in Jids |-> IF h \in started
                                     THEN WaitingRunCreated(gs[h]) ELSE gs[h]]
        /\ runners' = rs \cup {NewRunner(h, NextRun(gs[h]), rs) : h \in started}
        /\ waiting_set' = waiting_set \ popped
    BY <2>2
  <2> HIDE DEF popped, started, gs, rs
  <2>5. \A h \in Jids : h \in started => RunnersOf(h)' # {}
    <3>1. \A h : NewRunner(h, NextRun(gs[h]), rs).jid = h
      BY DEF NewRunner
    <3>2. QED
      BY <2>4, <3>1 DEF RunnersOf
  <2>6. \A h \in Jids \ {g} : RunnersOf(h) # {} => RunnersOf(h)' # {}
    BY <1>0, <2>4 DEF RunnersOf
  <2>7. \A h \in Jids : h \notin started => groups'[h] = gs[h]
    BY <2>4
  <2>8. gs[g] = st /\ \A h \in Jids \ {g} : gs[h] = groups[h]
    BY <1>0 DEF gs
  <2>9. SUFFICES ASSUME NEW h \in Jids
                 PROVE  /\ groups'[h].pending_tasks # <<>>
                              => h \in waiting_set' \/ RunnersOf(h)' # {}
                        /\ groups'[h].active => RunnersOf(h)' # {}
    BY DEF BackedInv
  <2>10. CASE h \in started
    BY <2>5, <2>10
  <2>11. CASE h \notin started /\ h = g
    BY <1>5, <2>7, <2>8, <2>11
  <2>12. CASE h \notin started /\ h # g
    <3>1. groups'[h] = groups[h] /\ gs[h] = groups[h]
      BY <2>7, <2>8, <2>12
    <3>2. h \in popped => groups[h].pending_tasks = <<>>
      BY <2>3, <2>12, <3>1
    <3>3. h \in waiting_set /\ h \notin popped => h \in waiting_set'
      BY <2>4
    <3>4. /\ groups[h].pending_tasks # <<>> => h \in waiting_set \/ RunnersOf(h) # {}
          /\ groups[h].active => RunnersOf(h) # {}
      BY DEF BackedInv
    <3>5. RunnersOf(h) # {} => RunnersOf(h)' # {}
      BY <2>6, <2>12
    <3>6. QED
      BY <3>1, <3>2, <3>3, <3>4, <3>5
  <2>13. QED
    BY <2>10, <2>11, <2>12
<1>6. QED
  BY <1>2, <1>3, <1>4, <1>5

\* A start or a mark made by enqueue_message_check leaves every group backed.
LEMMA MessageCheckBacks ==
    ASSUME TypeOK, BackedInv, ~shutting_down,
           NEW g \in Jids, NEW STATE st, st \in GroupState, NEW b \in BOOLEAN,
           st.active = groups[g].active,
           st.pending_tasks = groups[g].pending_tasks,
           MessageCheck(g, st, b)
    PROVE  BackedInv'
<1> DEFINE new == NewRunner(g, NoTask, runners)
<1>0. groups \in [Jids -> GroupState] /\ new.jid = g
  BY DEF TypeOK, NewRunner
<1>1. \/ /\ groups' = [groups EXCEPT ![g] = MarkPending(st)]
         /\ waiting_set \subseteq waiting_set'
         /\ runners' = runners
      \/ /\ groups' = [groups EXCEPT ![g] = MessageRunCreated(st)]
         /\ runners' = runners \cup {new}
         /\ waiting_set' = waiting_set
  BY DEF MessageCheck, JoinWaiting, slotVars, waitVars
<1>2. /\ waiting_set \subseteq waiting_set'
      /\ \A h \in Jids : RunnersOf(h) # {} => RunnersOf(h)' # {}
      /\ \A h \in Jids \ {g} : groups'[h] = groups[h]
  BY <1>0, <1>1 DEF RunnersOf
<1>3. \/ RunnersOf(g)' # {}
      \/ groups'[g].active = st.active /\ groups'[g].pending_tasks = st.pending_tasks
  <2>1. CASE groups' = [groups EXCEPT ![g] = MarkPending(st)]
    <3>1. groups'[g] = MarkPending(st)
      BY <1>0, <2>1
    <3>2. MarkPending(st).active = st.active /\ MarkPending(st).pending_tasks = st.pending_tasks
      BY DEF MarkPending, GroupState
    <3>3. QED
      BY <3>1, <3>2
  <2>2. CASE runners' = runners \cup {new}
    BY <1>0, <2>2 DEF RunnersOf
  <2>3. QED
    BY <1>1, <2>1, <2>2
<1> HIDE DEF new
<1>4. QED
  BY <1>2, <1>3, BackedStep

\* Every step keeps tasks backed by a runner or a waiting entry, and active groups by a runner.
LEMMA BackedNext == CountInv /\ BackedInv /\ [QueueNext]_queueVars => BackedInv'
<1> SUFFICES ASSUME TypeOK, ConcurrencyLimit, Apart(runners), BackedInv,
                    [QueueNext]_queueVars
             PROVE  BackedInv'
  BY DEF CountInv
<1>s. ASSUME shutting_down' PROVE BackedInv'
  BY <1>s DEF BackedInv
<1>f. \A r \in runners : r.jid \in Jids /\ groups[r.jid] \in GroupState
  BY DEF TypeOK, Runner
<1>g. \A g \in Jids : groups[g] \in GroupState
  BY DEF TypeOK
\* the end of a runner
<1>d. ASSUME NEW r \in runners, NEW STATE st, st \in GroupState, ~st.active,
             DrainGroup(r, st), UNCHANGED shutting_down
      PROVE  BackedInv'
  <2>1. CASE shutting_down
    BY <1>s, <1>d, <2>1
  <2>2. CASE ~shutting_down
    BY <1>d, <2>2, DrainGroupBacks
  <2>3. QED
    BY <2>1, <2>2
<1>1. ASSUME NEW g \in Jids, EnqueueMessageCheck(g) PROVE BackedInv'
  BY <1>g, <1>1, MessageCheckBacks DEF EnqueueMessageCheck
<1>2. ASSUME NEW g \in Jids, RetryTimerFires(g) PROVE BackedInv'
  <2>1. CASE shutting_down
    BY <1>s, <1>2, <2>1 DEF RetryTimerFires
  <2>2. CASE ~shutting_down
    <3> DEFINE st == [groups[g] EXCEPT !.retry_ready = TRUE]
    <3>1. /\ st \in GroupState
          /\ st.active = groups[g].active
          /\ st.pending_tasks = groups[g].pending_tasks
      BY <1>g DEF GroupState
    <3>2. MessageCheck(g, st, TRUE)
      BY <1>2, <2>2 DEF RetryTimerFires
    <3> HIDE DEF st
    <3>3. QED
      BY <2>2, <3>1, <3>2, MessageCheckBacks
  <2>3. QED
    BY <2>1, <2>2
<1>3. ASSUME NEW t \in TaskIds, EnqueueTask(t) PROVE BackedInv'
  <2> DEFINE g == TaskJid[t]
             new == NewRunner(g, t, runners)
  <2>0. /\ ~shutting_down /\ g \in Jids
        /\ groups \in [Jids -> GroupState]
        /\ new.jid = g
    BY <1>3, QueueAssumption DEF EnqueueTask, TypeOK, NewRunner
  <2>1. \/ /\ groups[g].active
           /\ groups' = [groups EXCEPT ![g] = TaskQueued(groups[g], t)]
           /\ runners' = runners /\ waiting_set' = waiting_set
        \/ /\ ~groups[g].active
           /\ groups' = [groups EXCEPT ![g] = TaskQueued(groups[g], t)]
           /\ runners' = runners /\ waiting_set \subseteq waiting_set' /\ g \in waiting_set'
        \/ /\ groups' = [groups EXCEPT ![g] = TaskRunCreated(groups[g], t)]
           /\ runners' = runners \cup {new} /\ waiting_set' = waiting_set
    BY <1>3 DEF EnqueueTask, MayWait, JoinWaiting, slotVars, waitVars
  <2>2. /\ waiting_set \subseteq waiting_set'
        /\ \A h \in Jids : RunnersOf(h) # {} => RunnersOf(h)' # {}
        /\ \A h \in Jids \ {g} : groups'[h] = groups[h]
    BY <2>0, <2>1 DEF RunnersOf
  <2>3. \/ RunnersOf(g)' # {}
        \/ ~groups'[g].active /\ g \in waiting_set'
    <3>1. CASE groups[g].active
      BY <2>0, <2>2, <3>1 DEF BackedInv
    <3>2. CASE /\ ~groups[g].active /\ g \in waiting_set'
               /\ groups' = [groups EXCEPT ![g] = TaskQueued(groups[g], t)]
      <4>1. groups'[g] = TaskQueued(groups[g], t)
        BY <2>0, <3>2
      <4>2. TaskQueued(groups[g], t).active = groups[g].active
        BY <2>0 DEF TaskQueued, GroupState
      <4>3. QED
        BY <3>2, <4>1, <4>2
    <3>3. CASE runners' = runners \cup {new}
      BY <2>0, <3>3 DEF RunnersOf
    <3>4. QED
      BY <2>1, <3>1, <3>2, <3>3
  <2> HIDE DEF new, g
  <2>4. QED
    BY <2>0, <2>2, <2>3, BackedStep
<1>4. ASSUME NEW r \in runners, RunForGroupStarts(r) \/ RunTaskStarts(r) PROVE BackedInv'
  <2>1. CASE shutting_down
    BY <1>s, <1>4, <2>1 DEF RunForGroupStarts, RunTaskStarts
  <2>2. CASE ~shutting_down
    <3>1. runners' = (runners \ {r}) \cup {Running(r)} /\ waiting_set' = waiting_set
      BY <1>4 DEF RunForGroupStarts, RunTaskStarts, waitVars
    <3>2. Running(r).jid = r.jid
      BY DEF Running, TypeOK, Runner
    <3>3. \A h \in Jids : RunnersOf(h) # {} => RunnersOf(h)' # {}
      BY <3>1, <3>2 DEF RunnersOf
    <3>4. \A h \in Jids : /\ groups'[h].active = groups[h].active
                          /\ groups'[h].pending_tasks = groups[h].pending_tasks
      <4>1. CASE UNCHANGED groups
        BY <4>1
      <4>2. CASE groups' = [groups EXCEPT ![r.jid].pending_messages = FALSE]
        BY <1>f, <4>2 DEF TypeOK, GroupState
      <4>3. QED
        BY <1>4, <4>1, <4>2 DEF RunForGroupStarts, RunTaskStarts
    <3>5. QED
      BY <2>2, <3>1, <3>3, <3>4, BackedStep
  <2>3. QED
    BY <2>1, <2>2
<1>5. ASSUME NEW r \in runners, RunForGroupSucceeds(r) PROVE BackedInv'
  <2> DEFINE st == MessageRunEnded([groups[r.jid] EXCEPT !.retry_count = 0])
  <2>1. st \in GroupState /\ ~st.active
    <3>1. [groups[r.jid] EXCEPT !.retry_count = 0] \in GroupState
      <4>1. groups[r.jid] \in GroupState /\ 0 \in 0..MAX_RETRIES
        BY <1>f, QueueAssumption
      <4>2. QED
        BY <4>1 DEF GroupState
    <3>2. QED
      BY <3>1, EndedType, EndedInactive
  <2>2. DrainGroup(r, st) /\ UNCHANGED shutting_down
    BY <1>5 DEF RunForGroupSucceeds
  <2> HIDE DEF st
  <2>3. QED
    BY <1>d, <2>1, <2>2
<1>6. ASSUME NEW r \in runners, RunForGroupFails(r) PROVE BackedInv'
  <2>1. PICK st \in GroupState : ~st.active /\ DrainGroup(r, st) /\ UNCHANGED shutting_down
    BY <1>f, <1>6, FailedState
  <2>2. QED
    BY <1>d, <2>1
<1>7. ASSUME NEW r \in runners, RunTaskEnds(r) PROVE BackedInv'
  <2> DEFINE st == [groups[r.jid] EXCEPT !.active = FALSE, !.running_task_id = NoTask]
  <2>1. st \in GroupState /\ ~st.active
    BY <1>f DEF GroupState
  <2>2. DrainGroup(r, st) /\ UNCHANGED shutting_down
    BY <1>7 DEF RunTaskEnds
  <2> HIDE DEF st
  <2>3. QED
    BY <1>d, <2>1, <2>2
<1>8. ASSUME NEW r \in runners, RunnerCancelled(r) PROVE BackedInv'
  BY <1>s, <1>8 DEF RunnerCancelled
<1>9. CASE ShutdownSync \/ Shutdown
  BY <1>s, <1>9 DEF ShutdownSync, Shutdown
<1>10. CASE UNCHANGED queueVars
  BY <1>10 DEF BackedInv, RunnersOf, queueVars
<1>11. QED
  BY <1>1, <1>2, <1>3, <1>4, <1>5, <1>6, <1>7, <1>8, <1>9, <1>10 DEF QueueNext, RunnerStep

\* A task that enqueue_task accepted always has a runner of its group, or a
\* place in the waiting list, that will get to it.
THEOREM TasksBacked == QueueSpec => []NoStrandedTask
<1>1. QueueInit => BackedInv
  BY DEF QueueInit, BackedInv, NewGroupState
<1>2. BackedInv => NoStrandedTask
  BY DEF BackedInv, NoStrandedTask
<1>3. QED
  BY <1>1, <1>2, BackedNext, CountInvariant, PTL DEF QueueSpec

-----------------------------------------------------------------------------
(* The task lists of the groups. *)

\* The share of group g, in the state st, in PendingTasksSound.
TaskListSound(g, st) ==
    LET pending == st.pending_tasks
    IN  /\ st.pending_task_ids = Range(pending)
        /\ \A i, j \in 1..Len(pending) : pending[i] = pending[j] => i = j
        /\ \A i \in 1..Len(pending) : TaskJid[pending[i]] = g
        /\ Len(pending) <= MAX_PENDING_TASKS_PER_GROUP

\* enqueue_task appends a task that is not in the list yet, where there is room.
LEMMA QueuedList ==
    ASSUME NEW g, NEW st \in GroupState, TaskListSound(g, st),
           NEW t \in TaskIds, TaskJid[t] = g, t \notin st.pending_task_ids,
           Len(st.pending_tasks) < MAX_PENDING_TASKS_PER_GROUP
    PROVE  /\ TaskListSound(g, TaskQueued(st, t))
           /\ st.pending_task_ids \subseteq TaskQueued(st, t).pending_task_ids
<1> DEFINE s == st.pending_tasks
           new == Append(s, t)
<1>0. /\ s \in Seq(TaskIds) /\ Len(s) \in Nat /\ DOMAIN s = 1..Len(s)
      /\ MAX_PENDING_TASKS_PER_GROUP \in Nat
  BY LenProperties, QueueAssumption DEF GroupState
<1>1. /\ TaskQueued(st, t).pending_tasks = new
      /\ TaskQueued(st, t).pending_task_ids = st.pending_task_ids \cup {t}
  BY DEF TaskQueued, GroupState
<1>2. /\ Len(new) = Len(s) + 1
      /\ \A i \in 1..Len(s) : new[i] = s[i]
      /\ new[Len(s) + 1] = t
      /\ DOMAIN new = 1..(Len(s) + 1)
  BY <1>0, AppendProperties, LenProperties
<1> HIDE DEF new
<1>3. \A i \in 1..Len(s) : s[i] # t
  BY <1>0 DEF TaskListSound, Range
<1>4. st.pending_task_ids \cup {t} = Range(new)
  BY <1>0, <1>2 DEF TaskListSound, Range
<1>5. \A i, j \in 1..Len(new) : new[i] = new[j] => i = j
  BY <1>0, <1>2, <1>3 DEF TaskListSound
<1>6. \A i \in 1..Len(new) : TaskJid[new[i]] = g
  BY <1>0, <1>2 DEF TaskListSound
<1>7. QED
  BY <1>0, <1>1, <1>2, <1>4, <1>5, <1>6 DEF TaskListSound

\* Starting the head of the list takes exactly that task out of it.
LEMMA StartedList ==
    ASSUME NEW g, NEW st \in GroupState, TaskListSound(g, st), st.pending_tasks # <<>>
    PROVE  /\ TaskListSound(g, PendingTaskStarted(st))
           /\ PendingTaskStarted(st).pending_task_ids
                = st.pending_task_ids \ {Head(st.pending_tasks)}
<1> DEFINE s == st.pending_tasks
           new == Tail(s)
<1>0. /\ s \in Seq(TaskIds) /\ Len(s) \in Nat \ {0} /\ DOMAIN s = 1..Len(s)
      /\ Head(s) = s[1]
      /\ MAX_PENDING_TASKS_PER_GROUP \in Nat
  BY LenProperties, EmptySeq, QueueAssumption DEF GroupState
<1>1. /\ PendingTaskStarted(st).pending_tasks = new
      /\ PendingTaskStarted(st).pending_task_ids = st.pending_task_ids \ {Head(s)}
  BY DEF PendingTaskStarted, GroupState
<1>2. /\ Len(new) = Len(s) - 1
      /\ \A i \in 1..Len(new) : new[i] = s[i + 1]
      /\ DOMAIN new = 1..Len(new)
  BY <1>0, HeadTailProperties, LenProperties
<1> HIDE DEF new
<1>3. \A i \in 1..Len(new) : i + 1 \in 1..Len(s) /\ new[i] = s[i + 1]
  BY <1>0, <1>2
<1>4. st.pending_task_ids \ {Head(s)} = Range(new)
  <2>1. \A x \in st.pending_task_ids \ {Head(s)} : x \in Range(new)
    <3>1. TAKE x \in st.pending_task_ids \ {Head(s)}
    <3>2. PICK i \in 1..Len(s) : x = s[i]
      BY <1>0 DEF TaskListSound, Range
    <3>3. i # 1
      BY <1>0, <3>2
    <3>4. i - 1 \in 1..Len(new) /\ (i - 1) + 1 = i
      BY <1>0, <1>2, <3>2, <3>3
    <3>5. new[i - 1] = x
      BY <1>2, <3>2, <3>4
    <3>6. QED
      BY <1>2, <3>4, <3>5 DEF Range
  <2>2. \A x \in Range(new) : x \in st.pending_task_ids \ {Head(s)}
    <3>1. TAKE x \in Range(new)
    <3>2. PICK i \in 1..Len(new) : x = new[i]
      BY <1>2 DEF Range
    <3>3. i + 1 \in 1..Len(s) /\ x = s[i + 1] /\ 1 \in 1..Len(s) /\ i + 1 # 1
      BY <1>0, <1>3, <3>2
    <3>4. x # s[1]
      BY <3>3 DEF TaskListSound
    <3>5. QED
      BY <1>0, <3>3, <3>4 DEF TaskListSound, Range
  <2>3. QED
    BY <2>1, <2>2
<1>5. \A i, j \in 1..Len(new) : new[i] = new[j] => i = j
  <2>1. TAKE i, j \in 1..Len(new)
  <2>2. HAVE new[i] = new[j]
  <2>3. i + 1 = j + 1
    BY <1>3, <2>2 DEF TaskListSound
  <2>4. QED
    BY <2>3
<1>6. \A i \in 1..Len(new) : TaskJid[new[i]] = g
  BY <1>3 DEF TaskListSound
<1>7. QED
  BY <1>0, <1>1, <1>2, <1>4, <1>5, <1>6 DEF TaskListSound

\* The lists do not change unless a task is queued or started.
LEMMA SameList ==
    ASSUME NEW g, NEW st, NEW s0, SameTasks(st, s0), TaskListSound(g, s0)
    PROVE  TaskListSound(g, st)
BY DEF SameTasks, TaskListSound

\* A group that _drain_waiting starts loses at most the task it is started for.
LEMMA WaitingList ==
    ASSUME NEW g, NEW st \in GroupState, TaskListSound(g, st)
    PROVE  /\ TaskListSound(g, WaitingRunCreated(st))
           /\ \A t \in st.pending_task_ids \ WaitingRunCreated(st).pending_task_ids :
                 t = NextRun(st)
<1>1. CASE st.pending_tasks # <<>>
  BY <1>1, StartedList DEF WaitingRunCreated, NextRun
<1>2. CASE st.pending_tasks = <<>>
  <2>1. SameTasks(WaitingRunCreated(st), st)
    BY <1>2 DEF SameTasks, WaitingRunCreated, MessageRunCreated, GroupState
  <2>2. QED
    BY <2>1, SameList DEF SameTasks
<1>3. QED
  BY <1>1, <1>2

\* A step keeps the lists sound, and a task leaves its list only for a new runner.
TasksKept ==
    \A h \in Jids :
        /\ TaskListSound(h, groups'[h])
        /\ \A t \in groups[h].pending_task_ids \ groups'[h].pending_task_ids :
              \E n \in runners' \ runners : n.jid = h /\ n.task = t

\* The end of a runner keeps the lists: what leaves one is started.
LEMMA DrainGroupTasks ==
    ASSUME TypeOK, ConcurrencyLimit, PendingTasksSound,
           NEW r \in runners, r.phase = "running" \/ shutting_down,
           NEW STATE st, st \in GroupState, SameTasks(st, groups[r.jid]),
           DrainGroup(r, st)
    PROVE  TasksKept
<1> DEFINE g == r.jid
           rs == runners \ {r}
           gs == [groups EXCEPT ![g] = st]
<1>0. /\ g \in Jids
      /\ groups \in [Jids -> GroupState]
      /\ IsFiniteSet(rs) /\ rs \in SUBSET Runner
  <2>1. IsFiniteSet(rs)
    BY FS_RemoveElement DEF ConcurrencyLimit
  <2>2. QED
    BY <2>1 DEF TypeOK, Runner
<1>1. /\ gs[g] = st
      /\ gs \in [Jids -> GroupState]
      /\ \A h \in Jids : /\ h # g => gs[h] = groups[h]
                         /\ TaskListSound(h, groups[h])
                         /\ SameTasks(gs[h], groups[h])
                         /\ TaskListSound(h, gs[h])
  <2>1. /\ gs[g] = st
        /\ gs \in [Jids -> GroupState]
        /\ \A h \in Jids : h # g => gs[h] = groups[h]
    BY <1>0
  <2> HIDE DEF gs
  <2>2. \A h \in Jids : TaskListSound(h, groups[h]) /\ SameTasks(gs[h], groups[h])
    BY <2>1 DEF PendingTasksSound, TaskListSound, SameTasks
  <2>3. QED
    BY <2>1, <2>2, SameList
\* a new coroutine is neither r nor another that was alive
<1>2. ASSUME NEW h \in Jids, NEW t \in TaskIds \cup {NoTask}, ~shutting_down
      PROVE  /\ NewRunner(h, t, rs) \notin runners
             /\ NewRunner(h, t, rs).jid = h
             /\ NewRunner(h, t, rs).task = t
  <2>1. Fresh(NewRunner(h, t, rs), h, t, rs)
    BY <1>0, <1>2, NewRunnerFacts
  <2>2. QED
    BY <1>2, <2>1 DEF Fresh
<1> HIDE DEF gs
<1>3. ASSUME groups' = gs PROVE TasksKept
  BY <1>1, <1>3 DEF TasksKept, SameTasks
<1>4. CASE ~shutting_down /\ st.pending_tasks # <<>>
  <2>1. /\ groups' = [gs EXCEPT ![g] = PendingTaskStarted(st)]
        /\ runners' = rs \cup {NewRunner(g, Head(st.pending_tasks), rs)}
    BY <1>0, <1>4 DEF DrainGroup, gs
  <2>2. Head(st.pending_tasks) \in TaskIds
    BY <1>4, TaskOfState
  <2>3. \A h \in Jids : groups'[h] = IF h = g THEN PendingTaskStarted(st) ELSE gs[h]
    BY <1>0, <1>1, <2>1
  <2>4. /\ TaskListSound(g, PendingTaskStarted(st))
        /\ PendingTaskStarted(st).pending_task_ids
             = st.pending_task_ids \ {Head(st.pending_tasks)}
    BY <1>0, <1>1, <1>4, StartedList
  <2>5. /\ NewRunner(g, Head(st.pending_tasks), rs) \in runners' \ runners
        /\ NewRunner(g, Head(st.pending_tasks), rs).jid = g
        /\ NewRunner(g, Head(st.pending_tasks), rs).task = Head(st.pending_tasks)
    BY <1>0, <1>2, <1>4, <2>1, <2>2
  <2>6. QED
    BY <1>1, <2>3, <2>4, <2>5 DEF TasksKept, SameTasks
<1>5. CASE groups' = [groups EXCEPT ![g] = MessageRunCreated(st)]
  <2>1. SameTasks(MessageRunCreated(st), st)
    BY DEF SameTasks, MessageRunCreated, GroupState
  <2>2. \A h \in Jids : groups'[h] = IF h = g THEN MessageRunCreated(st) ELSE gs[h]
    BY <1>0, <1>1, <1>5
  <2>3. QED
    BY <1>1, <2>1, <2>2, SameList DEF TasksKept, SameTasks
<1>6. CASE ~shutting_down /\ DrainWaiting(gs, rs, active_count - 1)
  <2>1. PICK started :
          /\ groups' = [h \in Jids |-> IF h \in started
                                       THEN WaitingRunCreated(gs[h]) ELSE gs[h]]
          /\ runners' = rs \cup {NewRunner(h, NextRun(gs[h]), rs) : h \in started}
    BY <1>6 DEF DrainWaiting
  <2>2. SUFFICES ASSUME NEW h \in Jids
                 PROVE  /\ TaskListSound(h, groups'[h])
                        /\ \A t \in groups[h].pending_task_ids \ groups'[h].pending_task_ids :
                              \E n \in runners' \ runners : n.jid = h /\ n.task = t
    BY DEF TasksKept
  <2>3. CASE h \notin started
    BY <1>1, <2>1, <2>3 DEF SameTasks
  <2>4. CASE h \in started
    <3>1. /\ groups'[h] = WaitingRunCreated(gs[h])
          /\ NewRunner(h, NextRun(gs[h]), rs) \in runners'
      BY <2>1, <2>4
    <3>2. NextRun(gs[h]) \in TaskIds \cup {NoTask}
      BY <1>1, TaskOfState DEF NextRun
    <3>3. /\ NewRunner(h, NextRun(gs[h]), rs) \notin runners
          /\ NewRunner(h, NextRun(gs[h]), rs).jid = h
          /\ NewRunner(h, NextRun(gs[h]), rs).task = NextRun(gs[h])
      BY <1>2, <1>6, <3>2
    <3>4. /\ TaskListSound(h, WaitingRunCreated(gs[h]))
          /\ \A t \in gs[h].pending_task_ids \ WaitingRunCreated(gs[h]).pending_task_ids :
                t = NextRun(gs[h])
      BY <1>1, WaitingList
    <3>5. QED
      BY <1>1, <3>1, <3>3, <3>4 DEF SameTasks
  <2>5. QED
    BY <2>3, <2>4
<1>7. QED
  BY <1>3, <1>4, <1>5, <1>6 DEF DrainGroup, gs

\* No step loses a task: what leaves the list of a group is given to a new runner.
LEMMA TasksNext == CountInv /\ PendingTasksSound /\ QueueNext => TasksKept
<1> SUFFICES ASSUME TypeOK, ConcurrencyLimit, PendingTasksSound, QueueNext
             PROVE  TasksKept
  BY DEF CountInv
<1>0. /\ groups \in [Jids -> GroupState]
      /\ \A h \in Jids : TaskListSound(h, groups[h])
      /\ \A r \in runners : r.jid \in Jids /\ groups[r.jid] \in GroupState
  BY DEF TypeOK, Runner, PendingTasksSound, TaskListSound
\* a step that leaves the tasks of its one group alone
<1>s. ASSUME NEW g \in Jids, NEW s1, SameTasks(s1, groups[g]),
             groups' = [groups EXCEPT ![g] = s1]
      PROVE  TasksKept
  <2>1. \A h \in Jids : groups'[h] = IF h = g THEN s1 ELSE groups[h]
    BY <1>0, <1>s
  <2>2. TaskListSound(g, s1)
    BY <1>0, <1>s, SameList
  <2>3. QED
    BY <1>0, <1>s, <2>1, <2>2 DEF TasksKept, SameTasks
<1>u. ASSUME UNCHANGED groups PROVE TasksKept
  BY <1>0, <1>u DEF TasksKept
<1>m. ASSUME NEW g \in Jids, NEW STATE st, st \in GroupState, SameTasks(st, groups[g]),
             NEW b, MessageCheck(g, st, b)
      PROVE  TasksKept
  <2>1. SameTasks(MarkPending(st), groups[g]) /\ SameTasks(MessageRunCreated(st), groups[g])
    BY <1>m DEF SameTasks, MarkPending, MessageRunCreated, GroupState
  <2>2. \/ groups' = [groups EXCEPT ![g] = MarkPending(st)]
        \/ groups' = [groups EXCEPT ![g] = MessageRunCreated(st)]
    BY <1>m DEF MessageCheck
  <2>3. QED
    BY <1>s, <2>1, <2>2
<1>1. ASSUME NEW g \in Jids, EnqueueMessageCheck(g) PROVE TasksKept
  BY <1>0, <1>m, <1>1 DEF EnqueueMessageCheck, SameTasks
<1>2. ASSUME NEW g \in Jids, RetryTimerFires(g) PROVE TasksKept
  <2> DEFINE st == [groups[g] EXCEPT !.retry_ready = TRUE]
  <2>1. st \in GroupState /\ SameTasks(st, groups[g])
    BY <1>0 DEF GroupState, SameTasks
  <2>2. MessageCheck(g, st, TRUE) \/ UNCHANGED groups
    BY <1>2 DEF RetryTimerFires
  <2> HIDE DEF st
  <2>3. QED
    BY <1>m, <1>u, <2>1, <2>2
<1>3. ASSUME NEW t \in TaskIds, EnqueueTask(t) PROVE TasksKept
  <2> DEFINE g == TaskJid[t]
             st == groups[g]
  <2>0. g \in Jids /\ st \in GroupState /\ TaskListSound(g, st)
    BY <1>0, QueueAssumption
  <2>1. \/ /\ t \notin st.pending_task_ids
           /\ Len(st.pending_tasks) < MAX_PENDING_TASKS_PER_GROUP
           /\ groups' = [groups EXCEPT ![g] = TaskQueued(st, t)]
        \/ groups' = [groups EXCEPT ![g] = TaskRunCreated(st, t)]
    BY <1>3 DEF EnqueueTask, TaskKnown
  <2>2. SameTasks(TaskRunCreated(st, t), st)
    BY <2>0 DEF SameTasks, TaskRunCreated, GroupState
  <2>3. CASE groups' = [groups EXCEPT ![g] = TaskRunCreated(st, t)]
    BY <1>s, <2>0, <2>2, <2>3
  <2>4. CASE /\ t \notin st.pending_task_ids
             /\ Len(st.pending_tasks) < MAX_PENDING_TASKS_PER_GROUP
             /\ groups' = [groups EXCEPT ![g] = TaskQueued(st, t)]
    <3>1. \A h \in Jids : groups'[h] = IF h = g THEN TaskQueued(st, t) ELSE groups[h]
      BY <1>0, <2>0, <2>4
    <3>2. /\ TaskListSound(g, TaskQueued(st, t))
          /\ st.pending_task_ids \subseteq TaskQueued(st, t).pending_task_ids
      BY <2>0, <2>4, QueuedList
    <3>3. QED
      BY <1>0, <3>1, <3>2 DEF TasksKept
  <2>5. QED
    BY <2>1, <2>3, <2>4
<1>4. ASSUME NEW r \in runners, RunForGroupStarts(r) \/ RunTaskStarts(r) PROVE TasksKept
  <2> DEFINE s1 == [groups[r.jid] EXCEPT !.pending_messages = FALSE]
  <2>1. SameTasks(s1, groups[r.jid])
    BY <1>0 DEF SameTasks, GroupState
  <2>2. UNCHANGED groups \/ groups' = [groups EXCEPT ![r.jid] = s1]
    BY <1>4 DEF RunForGroupStarts, RunTaskStarts
  <2> HIDE DEF s1
  <2>3. QED
    BY <1>0, <1>s, <1>u, <2>1, <2>2
<1>5. ASSUME NEW r \in runners, RunForGroupSucceeds(r) PROVE TasksKept
  <2> DEFINE s1 == [groups[r.jid] EXCEPT !.retry_count = 0]
             st == MessageRunEnded(s1)
  <2>1. s1 \in GroupState /\ SameTasks(st, groups[r.jid])
    <3>1. groups[r.jid] \in GroupState /\ 0 \in 0..MAX_RETRIES
      BY <1>0, QueueAssumption
    <3>2. QED
      BY <3>1 DEF GroupState, SameTasks, MessageRunEnded
  <2>2. DrainGroup(r, st) /\ r.phase = "running"
    BY <1>5 DEF RunForGroupSucceeds
  <2>3. st \in GroupState
    <3> HIDE DEF s1
    <3>1. QED
      BY <2>1, EndedType
  <2> HIDE DEF st
  <2>4. QED
    BY <2>1, <2>2, <2>3, DrainGroupTasks
<1>6. ASSUME NEW r \in runners, RunForGroupFails(r) PROVE TasksKept
  <2>1. r.phase = "running"
    BY <1>6 DEF RunForGroupFails
  <2>2. QED
    BY <1>0, <1>6, <2>1, FailedState, DrainGroupTasks
<1>7. ASSUME NEW r \in runners, r.phase = "running",
             DrainGroup(r, [groups[r.jid] EXCEPT !.active = FALSE, !.running_task_id = NoTask])
      PROVE  TasksKept
  <2> DEFINE st == [groups[r.jid] EXCEPT !.active = FALSE, !.running_task_id = NoTask]
  <2>1. st \in GroupState /\ SameTasks(st, groups[r.jid])
    BY <1>0 DEF GroupState, SameTasks
  <2> HIDE DEF st
  <2>2. QED
    BY <1>7, <2>1, DrainGroupTasks DEF st
<1>8. ASSUME NEW r \in runners, RunnerCancelled(r) PROVE TasksKept
  <2>1. CASE UNCHANGED groups
    BY <1>u, <2>1
  <2>2. CASE /\ r.phase = "running"
             /\ DrainGroup(r, MessageRunEnded(groups[r.jid]))
    <3>1. /\ MessageRunEnded(groups[r.jid]) \in GroupState
          /\ SameTasks(MessageRunEnded(groups[r.jid]), groups[r.jid])
      BY <1>0, EndedType DEF SameTasks, MessageRunEnded, GroupState
    <3>2. QED
      BY <2>2, <3>1, DrainGroupTasks
  <2>3. QED
    BY <1>7, <1>8, <2>1, <2>2 DEF RunnerCancelled
<1>9. CASE ShutdownSync \/ Shutdown
  BY <1>u, <1>9 DEF ShutdownSync, Shutdown
<1>10. QED
  BY <1>1, <1>2, <1>3, <1>4, <1>5, <1>6, <1>7, <1>8, <1>9 DEF QueueNext, RunnerStep, RunTaskEnds

\* The lists of tasks and the sets of their identifiers agree in every reachable state.
LEMMA TasksInvariant == QueueSpec => []PendingTasksSound
<1>1. QueueInit => PendingTasksSound
  <2> SUFFICES ASSUME QueueInit, NEW g \in Jids PROVE TaskListSound(g, groups[g])
    BY DEF PendingTasksSound, TaskListSound
  <2>1. /\ groups[g].pending_tasks = <<>> /\ groups[g].pending_task_ids = {}
        /\ Len(<<>>) = 0 /\ DOMAIN <<>> = {}
    BY DEF QueueInit, NewGroupState
  <2>2. QED
    BY <2>1, QueueAssumption DEF TaskListSound, Range
<1>2. TasksKept => PendingTasksSound'
  BY DEF TasksKept, PendingTasksSound, TaskListSound
<1>3. PendingTasksSound /\ UNCHANGED queueVars => PendingTasksSound'
  BY DEF PendingTasksSound, queueVars
<1>4. QED
  BY <1>1, <1>2, <1>3, TasksNext, CountInvariant, PTL DEF QueueSpec

\* An accepted task is never dropped: it leaves the list of its group only in the
\* step that starts a coroutine for it.
THEOREM TaskLeavesByRunning == QueueSpec => PendingTaskLeavesByRunning
<1> DEFINE Leaves == \A g \in Jids :
                        \A t \in groups[g].pending_task_ids \ groups'[g].pending_task_ids :
                           \E r \in runners' \ runners : r.jid = g /\ r.task = t
<1>1. TasksKept => Leaves
  BY DEF TasksKept
<1>2. QED
  BY <1>1, TasksNext, TasksInvariant, CountInvariant, PTL
  DEF QueueSpec, PendingTaskLeavesByRunning

-----------------------------------------------------------------------------
(* One container per group.  It holds while no message run fails: a failed   *)
(* run that backs off leaves _drain_group without waking a waiting group,    *)
(* and a group that is started directly while it is still listed is started  *)
(* again when it is popped (the run queue_two_containers).  Without failures *)
(* a group waits only when every slot is taken, so that the group of a new   *)
(* runner is never listed.                                                   *)

\* The states gs of the groups are those of their coroutines rs, of which no
\* group has two, and none of a group of the waiting list ws.
Matched(gs, rs, ws) ==
    /\ \A a, b \in rs : a.jid = b.jid => a = b
    /\ \A h \in Jids : gs[h].active <=> \E r \in rs : r.jid = h
    /\ \A r \in rs : r.task = gs[r.jid].running_task_id
    /\ \A h \in Jids : ~gs[h].active => gs[h].running_task_id = NoTask
    /\ \A h \in ws : ~gs[h].active

NoRetries == \A g \in Jids : groups[g].retry_count = 0 /\ retry_timers[g] = 0

QuietInv ==
    /\ NoRetries
    /\ \A a, b \in runners : a.jid = b.jid => a = b
    /\ ~shutting_down => Matched(groups, runners, waiting_set)
    /\ WorkConserving

\* Starting one coroutine for each group of a set, none of them active, and
\* taking these groups off the waiting list.
LEMMA MatchedStarts ==
    ASSUME NEW gs, NEW rs, NEW ws, Matched(gs, rs, ws),
           NEW started \in SUBSET Jids, NEW gs2, NEW new, NEW ws2,
           ws2 \subseteq ws \ started, ws \subseteq Jids,
           \A r \in rs : r.jid \in Jids,
           \A h \in started : ~gs[h].active /\ gs2[h].active,
           \A h \in Jids \ started : /\ gs2[h].active = gs[h].active
                                     /\ gs2[h].running_task_id = gs[h].running_task_id,
           \A n \in new : n.jid \in started /\ n.task = gs2[n.jid].running_task_id,
           \A h \in started : \E n \in new : n.jid = h,
           \A a, b \in new : a.jid = b.jid => a = b
    PROVE  Matched(gs2, rs \cup new, ws2)
<1>1. \A r \in rs : r.jid \in Jids \ started /\ gs[r.jid].active
  BY DEF Matched
<1>2. \A a, b \in rs \cup new : a.jid = b.jid => a = b
  BY <1>1 DEF Matched
<1>3. \A h \in Jids : gs2[h].active <=> \E r \in rs \cup new : r.jid = h
  BY <1>1 DEF Matched
<1>4. \A r \in rs \cup new : r.task = gs2[r.jid].running_task_id
  BY <1>1 DEF Matched
<1>5. \A h \in Jids : ~gs2[h].active => gs2[h].running_task_id = NoTask
  BY DEF Matched
<1>6. \A h \in ws2 : ~gs2[h].active
  BY DEF Matched
<1>7. QED
  BY <1>2, <1>3, <1>4, <1>5, <1>6 DEF Matched

\* The finally block of a runner, before _drain_group.
LEMMA MatchedEnd ==
    ASSUME TypeOK, NEW ws, Matched(groups, runners, ws),
           NEW r \in runners, NEW st, ~st.active, st.running_task_id = NoTask
    PROVE  Matched([groups EXCEPT ![r.jid] = st], runners \ {r}, ws)
<1> DEFINE gs == [groups EXCEPT ![r.jid] = st]
<1>1. r.jid \in Jids /\ \A h : h \in Jids => gs[h] = IF h = r.jid THEN st ELSE groups[h]
  BY DEF TypeOK, Runner
<1>2. \A q \in runners \ {r} : q.jid \in Jids /\ q.jid # r.jid
  BY DEF Matched, TypeOK, Runner
<1>3. r.jid \notin ws
  BY <1>1 DEF Matched
<1> HIDE DEF gs
<1>4. \A h \in ws : ~gs[h].active
  <2>1. \A h \in ws : gs[h] = groups[h]
    BY <1>3 DEF gs, TypeOK
  <2>2. QED
    BY <2>1 DEF Matched
<1>5. QED
  BY <1>1, <1>2, <1>4 DEF Matched, gs

\* _drain_waiting starts groups that are not active, each once, and leaves a
\* group waiting only when every slot is taken.
LEMMA DrainWaitingQuiet ==
    ASSUME TypeOK, WaitingListSound,
           NEW STATE gs, gs \in [Jids -> GroupState], NEW STATE rs, NEW STATE count,
           Counted(rs, count), Matched(gs, rs, waiting_set),
           \A h \in Jids : gs[h].retry_count = 0,
           DrainWaiting(gs, rs, count)
    PROVE  /\ \A h \in Jids : groups'[h].retry_count = 0
           /\ Matched(groups', runners', waiting_set')
           /\ waiting_groups' # <<>> => active_count' = Slots
<1> DEFINE ws == waiting_groups
<1>0. /\ Len(ws) \in Nat
      /\ DOMAIN ws = 1..Len(ws)
      /\ \A i \in 1..Len(ws) : ws[i] \in Jids
      /\ Slots \in Nat
  BY LenProperties, ElementOfSeq, QueueAssumption DEF TypeOK, Slots
<1>1. PICK k \in 0..Len(ws) :
        LET Starts(j) == {i \in 1..j : ReadyToRun(gs[ws[i]])}
            started == {ws[i] : i \in Starts(k)}
        IN  /\ k = Len(ws) \/ count + Cardinality(Starts(k)) >= Slots
            /\ groups' = [h \in Jids |-> IF h \in started
                                         THEN WaitingRunCreated(gs[h]) ELSE gs[h]]
            /\ runners' = rs \cup {NewRunner(h, NextRun(gs[h]), rs) : h \in started}
            /\ active_count' = count + Cardinality(started)
            /\ ws' = SubSeq(ws, k + 1, Len(ws))
            /\ waiting_set' = waiting_set \ {ws[i] : i \in 1..k}
  BY DEF DrainWaiting, Slots
<1> DEFINE S == {i \in 1..k : ReadyToRun(gs[ws[i]])}
           started == {ws[i] : i \in S}
           new == {NewRunner(h, NextRun(gs[h]), rs) : h \in started}
<1>2. /\ k = Len(ws) \/ count + Cardinality(S) >= Slots
      /\ groups' = [h \in Jids |-> IF h \in started
                                   THEN WaitingRunCreated(gs[h]) ELSE gs[h]]
      /\ runners' = rs \cup new
      /\ active_count' = count + Cardinality(started)
      /\ ws' = SubSeq(ws, k + 1, Len(ws))
      /\ waiting_set' = waiting_set \ {ws[i] : i \in 1..k}
  BY <1>1
<1>3. /\ started \in SUBSET Jids
      /\ started \subseteq {ws[i] : i \in 1..k}
      /\ started \subseteq waiting_set
  BY <1>0 DEF WaitingListSound, Range
<1>4. active_count' <= Slots /\ active_count' \in Nat
  BY DrainWaitingCounts DEF TypeOK, Counted
<1>5. ASSUME ws' # <<>> PROVE active_count' = Slots
  <2>1. k # Len(ws)
    <3>1. SUFFICES ASSUME k = Len(ws) PROVE FALSE
      OBVIOUS
    <3>2. ws' = <<>>
      <4>1. k + 1 \in Int /\ Len(ws) \in Int /\ Len(ws) < k + 1
        BY <1>0, <3>1
      <4>2. QED
        BY <1>2, <4>1, SubSeqEmpty
    <3>3. QED
      BY <1>5, <3>2
  <2>2. Cardinality(started) = Cardinality(S)
    <3> DEFINE f == [i \in S |-> ws[i]]
    <3>1. IsFiniteSet(S)
      <4>1. IsFiniteSet(1..k) /\ S \in SUBSET (1..k)
        BY <1>0, FS_Interval
      <4>2. QED
        BY <4>1, FS_Subset
    <3>2. f \in Bijection(S, started)
      <4>1. \A i, j \in S : ws[i] = ws[j] => i = j
        BY <1>0 DEF WaitingListSound
      <4>2. QED
        BY <4>1 DEF Bijection, Injection, Surjection, IsInjective
    <3>3. ExistsBijection(S, started)
      BY <3>2 DEF ExistsBijection
    <3> HIDE DEF S, started, f
    <3>4. QED
      BY <3>1, <3>3, FS_Bijection
  <2> HIDE DEF S, started
  <2>3. active_count' >= Slots
    BY <1>2, <2>1, <2>2
  <2>4. QED
    BY <1>0, <1>4, <2>3
<1>6. \A h \in started : /\ NewRunner(h, NextRun(gs[h]), rs).jid = h
                         /\ NewRunner(h, NextRun(gs[h]), rs).task = NextRun(gs[h])
  BY DEF NewRunner
<1>7. \A h \in started : ~gs[h].active
  BY <1>3 DEF Matched
<1>8. \A h \in started :
        /\ WaitingRunCreated(gs[h]).active
        /\ WaitingRunCreated(gs[h]).running_task_id = NextRun(gs[h])
        /\ WaitingRunCreated(gs[h]).retry_count = gs[h].retry_count
  <2>1. TAKE h \in started
  <2>2. gs[h] \in GroupState /\ gs[h].running_task_id = NoTask
    BY <1>3, <1>7 DEF Matched
  <2>3. CASE gs[h].pending_tasks # <<>>
    BY <2>2, <2>3 DEF WaitingRunCreated, PendingTaskStarted, NextRun, GroupState
  <2>4. CASE gs[h].pending_tasks = <<>>
    BY <2>2, <2>4 DEF WaitingRunCreated, MessageRunCreated, NextRun, GroupState
  <2>5. QED
    BY <2>3, <2>4
<1> HIDE DEF started
<1>9. /\ \A h \in started : groups'[h] = WaitingRunCreated(gs[h])
      /\ \A h \in Jids \ started : groups'[h] = gs[h]
  BY <1>2, <1>3
<1>10. Matched(groups', rs \cup new, waiting_set')
  <2>1. \A h \in started : ~gs[h].active /\ groups'[h].active
    BY <1>7, <1>8, <1>9
  <2>2. \A h \in Jids \ started : /\ groups'[h].active = gs[h].active
                                  /\ groups'[h].running_task_id = gs[h].running_task_id
    BY <1>9
  <2>3. \A n \in new : n.jid \in started /\ n.task = groups'[n.jid].running_task_id
    BY <1>6, <1>8, <1>9
  <2>4. /\ \A h \in started : \E n \in new : n.jid = h
        /\ \A a, b \in new : a.jid = b.jid => a = b
    BY <1>6
  <2>5. /\ waiting_set' \subseteq waiting_set \ started
        /\ waiting_set \subseteq Jids
        /\ \A r \in rs : r.jid \in Jids
    BY <1>2, <1>3 DEF TypeOK, Counted, Runner
  <2> HIDE DEF new
  <2>6. QED
    BY <1>3, <2>1, <2>2, <2>3, <2>4, <2>5, MatchedStarts
<1>11. \A h \in Jids : groups'[h].retry_count = 0
  BY <1>8, <1>9
<1>12. QED
  BY <1>2, <1>5, <1>10, <1>11

\* The end of a runner, when no retry is pending.
LEMMA DrainGroupQuiet ==
    ASSUME TypeOK, ConcurrencyLimit, Apart(runners), WaitingListSound,
           ~shutting_down, Matched(groups, runners, waiting_set), WorkConserving,
           \A h \in Jids : groups[h].retry_count = 0,
           NEW r \in runners, NEW STATE st, st \in GroupState,
           ~st.active, st.running_task_id = NoTask, st.retry_count = 0,
           DrainGroup(r, st)
    PROVE  /\ \A h \in Jids : groups'[h].retry_count = 0
           /\ Matched(groups', runners', waiting_set')
           /\ waiting_groups' # <<>> => active_count' = Slots
<1> DEFINE g == r.jid
           rs == runners \ {r}
           gs == [groups EXCEPT ![g] = st]
<1>0. /\ g \in Jids
      /\ groups \in [Jids -> GroupState]
      /\ active_count \in Nat
      /\ Matched(gs, rs, waiting_set)
  BY MatchedEnd DEF TypeOK, Runner
<1>1. /\ gs \in [Jids -> GroupState]
      /\ \A h \in Jids : gs[h] = IF h = g THEN st ELSE groups[h]
      /\ \A h \in Jids : gs[h].retry_count = 0
  BY <1>0
<1>2. g \notin waiting_set
  BY <1>0 DEF Matched
\* the group goes on with a coroutine of its own
<1>3. ASSUME NEW t, NEW s1, s1.active, s1.running_task_id = t, s1.retry_count = 0,
             groups' = [groups EXCEPT ![g] = s1],
             runners' = rs \cup {NewRunner(g, t, rs)},
             active_count' = active_count - 1 + 1,
             UNCHANGED waitVars
      PROVE  /\ \A h \in Jids : groups'[h].retry_count = 0
             /\ Matched(groups', runners', waiting_set')
             /\ waiting_groups' # <<>> => active_count' = Slots
  <2>1. \A h \in Jids : groups'[h] = IF h = g THEN s1 ELSE gs[h]
    BY <1>0, <1>1, <1>3
  <2>2. NewRunner(g, t, rs).jid = g /\ NewRunner(g, t, rs).task = t
    BY DEF NewRunner
  <2>3. /\ waiting_set' \subseteq waiting_set \ {g} /\ waiting_set \subseteq Jids
        /\ \A q \in rs : q.jid \in Jids
        /\ {g} \in SUBSET Jids
        /\ gs[g] = st
    BY <1>0, <1>1, <1>2, <1>3 DEF TypeOK, waitVars, Runner
  <2> HIDE DEF gs, rs
  <2>4. Matched(groups', rs \cup {NewRunner(g, t, rs)}, waiting_set')
    <3> DEFINE new == {NewRunner(g, t, rs)}
    <3>1. \A h \in {g} : ~gs[h].active /\ groups'[h].active
      BY <1>0, <1>3, <2>1, <2>3
    <3>2. \A h \in Jids \ {g} : /\ groups'[h].active = gs[h].active
                                /\ groups'[h].running_task_id = gs[h].running_task_id
      BY <2>1
    <3>3. \A n \in new : n.jid \in {g} /\ n.task = groups'[n.jid].running_task_id
      BY <1>0, <1>3, <2>1, <2>2
    <3>4. /\ \A h \in {g} : \E n \in new : n.jid = h
          /\ \A a, b \in new : a.jid = b.jid => a = b
      BY <2>2
    <3> HIDE DEF new
    <3>5. Matched(groups', rs \cup new, waiting_set')
      BY <1>0, <2>3, <3>1, <3>2, <3>3, <3>4, MatchedStarts
    <3>6. QED
      BY <3>5 DEF new
  <2>5. waiting_groups' # <<>> => active_count' = Slots
    BY <1>0, <1>3 DEF WorkConserving, waitVars, Slots
  <2>6. QED
    BY <1>1, <1>3, <2>1, <2>4, <2>5
<1>4. CASE st.pending_tasks # <<>>
  <2> DEFINE s1 == PendingTaskStarted(st)
  <2>1. s1.active /\ s1.running_task_id = Head(st.pending_tasks) /\ s1.retry_count = 0
    BY DEF PendingTaskStarted, GroupState
  <2>2. /\ groups' = [groups EXCEPT ![g] = s1]
        /\ runners' = rs \cup {NewRunner(g, Head(st.pending_tasks), rs)}
        /\ active_count' = active_count - 1 + 1
        /\ UNCHANGED waitVars
    BY <1>4 DEF DrainGroup
  <2> HIDE DEF s1
  <2>3. QED
    BY <1>3, <2>1, <2>2
<1>5. CASE st.pending_tasks = <<>> /\ st.pending_messages
  <2> DEFINE s1 == MessageRunCreated(st)
  <2>1. s1.active /\ s1.running_task_id = NoTask /\ s1.retry_count = 0
    BY DEF MessageRunCreated, GroupState
  <2>2. /\ groups' = [groups EXCEPT ![g] = s1]
        /\ runners' = rs \cup {NewRunner(g, NoTask, rs)}
        /\ active_count' = active_count - 1 + 1
        /\ UNCHANGED waitVars
    <3>1. ~RetryPending(st)
      BY DEF RetryPending
    <3>2. QED
      BY <1>5, <3>1 DEF DrainGroup
  <2> HIDE DEF s1
  <2>3. QED
    BY <1>3, <2>1, <2>2
<1>6. CASE st.pending_tasks = <<>> /\ ~st.pending_messages
  <2>1. DrainWaiting(gs, rs, active_count - 1)
    BY <1>6 DEF DrainGroup
  <2>2. Counted(rs, active_count - 1)
    BY FreedSlot
  <2> HIDE DEF gs, rs
  <2>3. QED
    BY <1>0, <1>1, <2>1, <2>2, DrainWaitingQuiet
<1>7. QED
  BY <1>4, <1>5, <1>6

\* A step of the queue that starts a message run finds no task in its group.
TasksBeforeMessages ==
    \A n \in runners' \ runners :
        n.phase = "created" /\ n.task = NoTask => groups[n.jid].pending_tasks = <<>>

\* The invariant of the queue while no message run fails.
SoundInv ==
    CountInv /\ WaitingListSound /\ PendingTasksSound /\ BackedInv /\ QuietInv

\* The end of a runner starts a message run only where no task is queued.
LEMMA DrainGroupPriority ==
    ASSUME TypeOK, NEW r \in runners, NEW STATE st, st \in GroupState,
           SameTasks(st, groups[r.jid]), DrainGroup(r, st)
    PROVE  TasksBeforeMessages
<1> DEFINE g == r.jid
           rs == runners \ {r}
           gs == [groups EXCEPT ![g] = st]
<1>0. /\ g \in Jids
      /\ \A h \in Jids : /\ gs[h] \in GroupState
                         /\ gs[h].pending_tasks = groups[h].pending_tasks
  BY DEF TypeOK, Runner, SameTasks
<1>1. \A h, t : NewRunner(h, t, rs).jid = h /\ NewRunner(h, t, rs).task = t
  BY DEF NewRunner
<1>2. \A st2 \in GroupState : NextRun(st2) = NoTask => st2.pending_tasks = <<>>
  BY TaskOfState, QueueAssumption DEF NextRun
<1>r. rs \subseteq runners
  OBVIOUS
<1> HIDE DEF gs, rs
<1>3. CASE runners' = rs
  BY <1>r, <1>3 DEF TasksBeforeMessages
<1>4. CASE st.pending_tasks # <<>> /\ runners' = rs \cup {NewRunner(g, Head(st.pending_tasks), rs)}
  <2>1. Head(st.pending_tasks) # NoTask
    BY <1>4, TaskOfState, QueueAssumption
  <2>2. QED
    BY <1>r, <1>1, <1>4, <2>1 DEF TasksBeforeMessages
<1>5. CASE st.pending_tasks = <<>> /\ runners' = rs \cup {NewRunner(g, NoTask, rs)}
  <2>1. groups[g].pending_tasks = <<>>
    BY <1>5 DEF SameTasks
  <2>2. \A n \in runners' \ runners : n.jid = g
    BY <1>r, <1>1, <1>5
  <2>3. QED
    BY <2>1, <2>2 DEF TasksBeforeMessages
<1>6. CASE DrainWaiting(gs, rs, active_count - 1)
  <2>1. PICK started :
          /\ started \subseteq {waiting_groups[i] : i \in 1..Len(waiting_groups)}
          /\ runners' = rs \cup {NewRunner(h, NextRun(gs[h]), rs) : h \in started}
    <3>1. PICK k \in 0..Len(waiting_groups) :
            runners' = rs \cup {NewRunner(h, NextRun(gs[h]), rs) :
                                  h \in {waiting_groups[i] :
                                           i \in {j \in 1..k : ReadyToRun(gs[waiting_groups[j]])}}}
      BY <1>6 DEF DrainWaiting
    <3>2. {waiting_groups[i] : i \in {j \in 1..k : ReadyToRun(gs[waiting_groups[j]])}}
            \subseteq {waiting_groups[i] : i \in 1..Len(waiting_groups)}
      <4>1. Len(waiting_groups) \in Nat
        BY LenProperties DEF TypeOK
      <4>2. QED
        BY <4>1
    <3>3. QED
      BY <3>1, <3>2
  <2>2. started \subseteq Jids
    BY <2>1, ElementOfSeq DEF TypeOK
  <2>3. QED
    BY <1>r, <1>0, <1>1, <1>2, <2>1, <2>2 DEF TasksBeforeMessages
<1>7. QED
  BY <1>3, <1>4, <1>5, <1>6 DEF DrainGroup, gs, rs

\* A direct start of a coroutine, by a call that finds a free slot: the group is
\* neither active nor waiting.
LEMMA DirectStart ==
    ASSUME TypeOK, WaitingListSound, BackedInv, QuietInv, ~shutting_down, ~AtLimit,
           NEW g \in Jids, ~groups[g].active, NEW t \in TaskIds \cup {NoTask},
           NEW s1, s1.active, s1.running_task_id = t, s1.retry_count = 0,
           groups' = [groups EXCEPT ![g] = s1],
           runners' = runners \cup {NewRunner(g, t, runners)},
           UNCHANGED waitVars, UNCHANGED shutting_down, UNCHANGED retry_timers
    PROVE  QuietInv' /\ groups[g].pending_tasks = <<>>
<1>1. waiting_groups = <<>> /\ waiting_set = {}
  <2>1. waiting_groups = <<>>
    BY QueueAssumption DEF QuietInv, WorkConserving, AtLimit
  <2>2. QED
    BY <2>1 DEF WaitingListSound, Range
<1>2. Matched(groups, runners, waiting_set) /\ groups \in [Jids -> GroupState]
  BY DEF QuietInv, TypeOK
<1>3. groups[g].pending_tasks = <<>>
  BY <1>1, <1>2 DEF BackedInv, Matched, RunnersOf
<1>4. \A h \in Jids : groups'[h] = IF h = g THEN s1 ELSE groups[h]
  BY <1>2
<1> DEFINE new == {NewRunner(g, t, runners)}
<1>5. \A n \in new : n.jid = g /\ n.task = t
  BY DEF NewRunner
<1>6. Matched(groups', runners \cup new, waiting_set')
  <2>1. \A h \in {g} : ~groups[h].active /\ groups'[h].active
    BY <1>4
  <2>2. \A h \in Jids \ {g} : /\ groups'[h].active = groups[h].active
                              /\ groups'[h].running_task_id = groups[h].running_task_id
    BY <1>4
  <2>3. \A n \in new : n.jid \in {g} /\ n.task = groups'[n.jid].running_task_id
    BY <1>4, <1>5
  <2>4. /\ \A h \in {g} : \E n \in new : n.jid = h
        /\ \A a, b \in new : a.jid = b.jid => a = b
    BY <1>5
  <2>5. /\ waiting_set' \subseteq waiting_set \ {g} /\ waiting_set \subseteq Jids
        /\ \A q \in runners : q.jid \in Jids
        /\ {g} \in SUBSET Jids
    BY <1>1 DEF TypeOK, waitVars, Runner
  <2> HIDE DEF new
  <2>6. QED
    BY <1>2, <2>1, <2>2, <2>3, <2>4, <2>5, MatchedStarts
<1>7. NoRetries'
  BY <1>4 DEF NoRetries, QuietInv
<1>8. WorkConserving'
  BY <1>1 DEF WorkConserving, waitVars
<1>9. QED
  BY <1>3, <1>6, <1>7, <1>8 DEF QuietInv, Matched

\* A change of one group's marks, or a wait for a slot.
LEMMA MarkOnly ==
    ASSUME TypeOK, WaitingListSound, ConcurrencyLimit, QuietInv, ~shutting_down,
           NEW g \in Jids, NEW s1, s1.active = groups[g].active,
           s1.running_task_id = groups[g].running_task_id,
           s1.retry_count = groups[g].retry_count,
           groups' = [groups EXCEPT ![g] = s1],
           UNCHANGED waitVars \/ (JoinWaiting(g) /\ AtLimit /\ ~groups[g].active),
           UNCHANGED slotVars, UNCHANGED shutting_down, UNCHANGED retry_timers
    PROVE  QuietInv' /\ TasksBeforeMessages
<1>1. /\ \A h \in Jids : /\ groups'[h].active = groups[h].active
                         /\ groups'[h].running_task_id = groups[h].running_task_id
                         /\ groups'[h].retry_count = groups[h].retry_count
      /\ runners' = runners /\ active_count' = active_count
  BY DEF TypeOK, slotVars
<1>2. Matched(groups, runners, waiting_set) /\ waiting_set \subseteq Jids
  BY DEF QuietInv, TypeOK
<1>3. \A h \in waiting_set' : h \in Jids /\ ~groups[h].active
  BY <1>2 DEF Matched, waitVars, JoinWaiting
<1>4. Matched(groups', runners', waiting_set')
  <2>1. \A r \in runners : r.jid \in Jids
    BY DEF TypeOK, Runner
  <2>2. QED
    BY <1>1, <1>2, <1>3, <2>1 DEF Matched
<1>5. WorkConserving'
  <2>1. CASE UNCHANGED waitVars
    BY <1>1, <2>1 DEF QuietInv, WorkConserving, waitVars
  <2>2. CASE AtLimit
    BY <1>1, <2>2, QueueAssumption DEF AtLimit, WorkConserving, ConcurrencyLimit, TypeOK
  <2>3. QED
    BY <2>1, <2>2
<1>6. NoRetries'
  BY <1>1 DEF NoRetries, QuietInv
<1>7. QED
  BY <1>1, <1>4, <1>5, <1>6 DEF QuietInv, Matched, TasksBeforeMessages

\* Without failed runs, every step keeps the order of tasks before messages.
LEMMA QuietNext ==
    ASSUME "failure" \notin Outcomes
    PROVE  SoundInv /\ QueueNext => QuietInv' /\ TasksBeforeMessages
<1> SUFFICES ASSUME TypeOK, ConcurrencyLimit, Apart(runners), WaitingListSound,
                    PendingTasksSound, BackedInv, QuietInv, QueueNext
             PROVE  QuietInv' /\ TasksBeforeMessages
  BY DEF SoundInv, CountInv
<1>0. /\ groups \in [Jids -> GroupState]
      /\ \A g \in Jids : /\ groups[g] \in GroupState
                         /\ groups[g].retry_count = 0
                         /\ retry_timers[g] = 0
      /\ \A r \in runners : r.jid \in Jids
  BY DEF TypeOK, Runner, QuietInv, NoRetries
\* after the shutdown signal runners only go
<1>s. ASSUME shutting_down', runners' \subseteq runners, UNCHANGED <<groups, retry_timers>>
      PROVE  QuietInv' /\ TasksBeforeMessages
  <2>1. NoRetries'
    BY <1>0, <1>s DEF NoRetries
  <2>2. \A a, b \in runners' : a.jid = b.jid => a = b
    BY <1>s DEF QuietInv
  <2>3. QED
    BY <1>s, <2>1, <2>2 DEF QuietInv, WorkConserving, TasksBeforeMessages
\* the end of a runner
<1>d. ASSUME NEW r \in runners, NEW STATE st, st \in GroupState, ~st.active,
             st.running_task_id = NoTask, st.retry_count = 0,
             SameTasks(st, groups[r.jid]), DrainGroup(r, st),
             UNCHANGED <<shutting_down, retry_timers>>
      PROVE  QuietInv' /\ TasksBeforeMessages
  <2>1. TasksBeforeMessages
    BY <1>d, DrainGroupPriority
  <2>2. CASE shutting_down
    <3>1. groups' = [groups EXCEPT ![r.jid] = st] /\ runners' \subseteq runners
      BY <1>d, <2>2 DEF DrainGroup
    <3>2. \A g \in Jids : groups'[g].retry_count = 0
      BY <1>0, <1>d, <3>1
    <3>3. NoRetries'
      BY <1>0, <1>d, <3>2 DEF NoRetries
    <3>4. \A a, b \in runners' : a.jid = b.jid => a = b
      BY <3>1 DEF QuietInv
    <3>5. QED
      BY <1>d, <2>1, <2>2, <3>3, <3>4 DEF QuietInv, WorkConserving
  <2>3. CASE ~shutting_down
    <3>1. Matched(groups, runners, waiting_set) /\ WorkConserving
      BY <2>3 DEF QuietInv
    <3>2. /\ \A h \in Jids : groups'[h].retry_count = 0
          /\ Matched(groups', runners', waiting_set')
          /\ waiting_groups' # <<>> => active_count' = Slots
      BY <1>0, <1>d, <2>3, <3>1, DrainGroupQuiet
    <3>3. NoRetries' /\ WorkConserving'
      BY <1>0, <1>d, <3>2 DEF NoRetries, WorkConserving, Slots
    <3>4. QED
      BY <2>1, <3>2, <3>3 DEF QuietInv, Matched
  <2>4. QED
    BY <2>2, <2>3
<1>1. ASSUME NEW g \in Jids, EnqueueMessageCheck(g) PROVE QuietInv' /\ TasksBeforeMessages
  <2> DEFINE st == groups[g]
  <2>1. /\ ~shutting_down /\ UNCHANGED shutting_down /\ UNCHANGED retry_timers
        /\ \/ /\ groups' = [groups EXCEPT ![g] = MarkPending(st)]
              /\ UNCHANGED waitVars \/ (JoinWaiting(g) /\ AtLimit /\ ~st.active)
              /\ UNCHANGED slotVars
           \/ /\ ~st.active /\ ~AtLimit
              /\ groups' = [groups EXCEPT ![g] = MessageRunCreated(st)]
              /\ runners' = runners \cup {NewRunner(g, NoTask, runners)}
              /\ UNCHANGED waitVars
    BY <1>1 DEF EnqueueMessageCheck, MessageCheck
  <2>2. /\ MarkPending(st).active = st.active
        /\ MarkPending(st).running_task_id = st.running_task_id
        /\ MarkPending(st).retry_count = st.retry_count
        /\ MessageRunCreated(st).active
        /\ MessageRunCreated(st).running_task_id = st.running_task_id
        /\ MessageRunCreated(st).retry_count = st.retry_count
    BY <1>0 DEF MarkPending, MessageRunCreated, GroupState
  <2>3. CASE groups' = [groups EXCEPT ![g] = MarkPending(st)]
    <3>1. \/ /\ UNCHANGED waitVars \/ (JoinWaiting(g) /\ AtLimit /\ ~st.active)
             /\ UNCHANGED slotVars
          \/ ~st.active /\ MarkPending(st) = MessageRunCreated(st)
      <4>1. groups'[g] = MarkPending(st)
        BY <1>0, <2>3
      <4>2. groups' = [groups EXCEPT ![g] = MessageRunCreated(st)]
              => groups'[g] = MessageRunCreated(st)
        BY <1>0
      <4>3. QED
        BY <2>1, <4>1, <4>2
    <3>2. QED
      BY <1>0, <2>1, <2>2, <2>3, <3>1, MarkOnly
  <2>4. CASE /\ ~st.active /\ ~AtLimit
             /\ groups' = [groups EXCEPT ![g] = MessageRunCreated(st)]
             /\ runners' = runners \cup {NewRunner(g, NoTask, runners)}
             /\ UNCHANGED waitVars
    <3>1. st.running_task_id = NoTask
      BY <2>1, <2>4 DEF QuietInv, Matched
    <3>2. QuietInv' /\ st.pending_tasks = <<>>
      BY <1>0, <2>1, <2>2, <2>4, <3>1, DirectStart
    <3>3. NewRunner(g, NoTask, runners).jid = g
      BY DEF NewRunner
    <3>4. QED
      BY <2>4, <3>2, <3>3 DEF TasksBeforeMessages
  <2>5. QED
    BY <2>1, <2>3, <2>4
<1>2. ASSUME NEW g \in Jids, RetryTimerFires(g) PROVE QuietInv' /\ TasksBeforeMessages
  BY <1>0, <1>2 DEF RetryTimerFires
<1>3. ASSUME NEW t \in TaskIds, EnqueueTask(t) PROVE QuietInv' /\ TasksBeforeMessages
  <2> DEFINE g == TaskJid[t]
             st == groups[g]
  <2>0. g \in Jids
    BY QueueAssumption
  <2>1. /\ ~shutting_down /\ UNCHANGED shutting_down /\ UNCHANGED retry_timers
        /\ \/ /\ groups' = [groups EXCEPT ![g] = TaskQueued(st, t)]
              /\ UNCHANGED waitVars \/ (JoinWaiting(g) /\ AtLimit /\ ~st.active)
              /\ UNCHANGED slotVars
           \/ /\ ~st.active /\ ~AtLimit
              /\ groups' = [groups EXCEPT ![g] = TaskRunCreated(st, t)]
              /\ runners' = runners \cup {NewRunner(g, t, runners)}
              /\ UNCHANGED waitVars
    BY <1>3 DEF EnqueueTask
  <2>2. /\ TaskQueued(st, t).active = st.active
        /\ TaskQueued(st, t).running_task_id = st.running_task_id
        /\ TaskQueued(st, t).retry_count = st.retry_count
        /\ TaskRunCreated(st, t).active
        /\ TaskRunCreated(st, t).running_task_id = t
        /\ TaskRunCreated(st, t).retry_count = st.retry_count
    BY <1>0, <2>0 DEF TaskQueued, TaskRunCreated, GroupState
  <2> HIDE DEF g
  <2>3. CASE /\ groups' = [groups EXCEPT ![g] = TaskQueued(st, t)]
             /\ UNCHANGED waitVars \/ (JoinWaiting(g) /\ AtLimit /\ ~st.active)
             /\ UNCHANGED slotVars
    BY <1>0, <2>0, <2>1, <2>2, <2>3, MarkOnly
  <2>4. CASE /\ ~st.active /\ ~AtLimit
             /\ groups' = [groups EXCEPT ![g] = TaskRunCreated(st, t)]
             /\ runners' = runners \cup {NewRunner(g, t, runners)}
             /\ UNCHANGED waitVars
    <3>1. QuietInv'
      BY <1>0, <2>0, <2>1, <2>2, <2>4, DirectStart
    <3>2. NewRunner(g, t, runners).task = t /\ t # NoTask
      BY QueueAssumption DEF NewRunner
    <3>3. QED
      BY <2>4, <3>1, <3>2 DEF TasksBeforeMessages
  <2>5. QED
    BY <2>1, <2>3, <2>4
<1>4. ASSUME NEW r \in runners, RunForGroupStarts(r) \/ RunTaskStarts(r)
      PROVE  QuietInv' /\ TasksBeforeMessages
  <2>1. /\ runners' = (runners \ {r}) \cup {Running(r)}
        /\ UNCHANGED <<active_count, waitVars, shutting_down, retry_timers>>
    BY <1>4 DEF RunForGroupStarts, RunTaskStarts
  <2>2. /\ Running(r).jid = r.jid /\ Running(r).task = r.task
        /\ Running(r).phase = "running"
    BY DEF Running, TypeOK, Runner
  <2>3. \A h \in Jids : /\ groups'[h].active = groups[h].active
                        /\ groups'[h].running_task_id = groups[h].running_task_id
                        /\ groups'[h].retry_count = groups[h].retry_count
    <3>1. CASE UNCHANGED groups
      BY <3>1
    <3>2. CASE groups' = [groups EXCEPT ![r.jid].pending_messages = FALSE]
      BY <1>0, <3>2 DEF GroupState
    <3>3. QED
      BY <1>4, <3>1, <3>2 DEF RunForGroupStarts, RunTaskStarts
  <2>4. TasksBeforeMessages
    BY <2>1, <2>2 DEF TasksBeforeMessages
  <2>5. NoRetries' /\ WorkConserving'
    <3>1. NoRetries'
      BY <1>0, <2>1, <2>3 DEF NoRetries
    <3>2. WorkConserving'
      BY <2>1 DEF QuietInv, WorkConserving, waitVars
    <3>3. QED
      BY <3>1, <3>2
  <2>6. \A a, b \in runners' : a.jid = b.jid => a = b
    BY <2>1, <2>2 DEF QuietInv
  <2>7. ASSUME ~shutting_down' PROVE Matched(groups', runners', waiting_set')
    <3>1. Matched(groups, runners, waiting_set) /\ waiting_set' = waiting_set
      BY <2>1, <2>7 DEF QuietInv, waitVars
    <3>2. \A h : (\E q \in runners' : q.jid = h) <=> (\E q \in runners : q.jid = h)
      BY <2>1, <2>2
    <3>3. \A q \in runners' : q.jid \in Jids /\ q.task = groups[q.jid].running_task_id
      BY <1>0, <2>1, <2>2, <3>1 DEF Matched
    <3>4. waiting_set \subseteq Jids
      BY DEF TypeOK
    <3>5. QED
      BY <2>3, <2>6, <3>1, <3>2, <3>3, <3>4 DEF Matched
  <2>8. QED
    BY <2>4, <2>5, <2>6, <2>7 DEF QuietInv
<1>5. ASSUME NEW r \in runners, RunForGroupSucceeds(r) PROVE QuietInv' /\ TasksBeforeMessages
  <2> DEFINE s1 == [groups[r.jid] EXCEPT !.retry_count = 0]
             st == MessageRunEnded(s1)
  <2>1. /\ s1 \in GroupState /\ ~st.active /\ st.retry_count = 0
        /\ st.running_task_id = groups[r.jid].running_task_id
        /\ SameTasks(st, groups[r.jid])
    <3>1. groups[r.jid] \in GroupState /\ 0 \in 0..MAX_RETRIES
      BY <1>0, QueueAssumption
    <3>2. QED
      BY <3>1 DEF GroupState, MessageRunEnded, SameTasks
  <2>2. DrainGroup(r, st) /\ UNCHANGED <<shutting_down, retry_timers>> /\ r.task = NoTask
    BY <1>5 DEF RunForGroupSucceeds
  <2>3. st \in GroupState
    <3> HIDE DEF s1
    <3>1. QED
      BY <2>1, EndedType
  <2> HIDE DEF st
  <2>4. CASE ~shutting_down
    <3>1. st.running_task_id = NoTask
      BY <2>1, <2>2, <2>4 DEF QuietInv, Matched
    <3>2. QED
      BY <1>d, <2>1, <2>2, <2>3, <3>1
  <2>5. CASE shutting_down
    <3>1. groups' = [groups EXCEPT ![r.jid] = st] /\ runners' \subseteq runners
      BY <2>2, <2>5 DEF DrainGroup
    <3>2. NoRetries'
      BY <1>0, <2>1, <2>2, <3>1 DEF NoRetries
    <3>3. QED
      BY <2>2, <2>5, <3>1, <3>2 DEF QuietInv, WorkConserving, TasksBeforeMessages
  <2>6. QED
    BY <2>4, <2>5
<1>6. ASSUME NEW r \in runners, RunForGroupFails(r) PROVE FALSE
  BY <1>6 DEF RunForGroupFails
<1>7. ASSUME NEW r \in runners, RunTaskEnds(r) PROVE QuietInv' /\ TasksBeforeMessages
  <2> DEFINE st == [groups[r.jid] EXCEPT !.active = FALSE, !.running_task_id = NoTask]
  <2>1. /\ st \in GroupState /\ ~st.active /\ st.retry_count = 0
        /\ st.running_task_id = NoTask
        /\ SameTasks(st, groups[r.jid])
    <3>1. groups[r.jid] \in GroupState /\ groups[r.jid].retry_count = 0
      BY <1>0
    <3>2. QED
      BY <3>1 DEF GroupState, SameTasks
  <2>2. DrainGroup(r, st) /\ UNCHANGED <<shutting_down, retry_timers>>
    BY <1>7 DEF RunTaskEnds
  <2> HIDE DEF st
  <2>3. QED
    BY <1>d, <2>1, <2>2
<1>8. ASSUME NEW r \in runners, RunnerCancelled(r) PROVE QuietInv' /\ TasksBeforeMessages
  <2>0. shutting_down /\ UNCHANGED <<shutting_down, retry_timers>>
    BY <1>8 DEF RunnerCancelled
  <2>1. CASE runners' = runners \ {r} /\ UNCHANGED groups
    BY <1>s, <2>0, <2>1
  <2>2. ASSUME NEW STATE st, st.retry_count = 0, DrainGroup(r, st)
        PROVE  QuietInv' /\ TasksBeforeMessages
    <3>1. groups' = [groups EXCEPT ![r.jid] = st] /\ runners' \subseteq runners
      BY <2>0, <2>2 DEF DrainGroup
    <3>2. NoRetries'
      BY <1>0, <2>0, <2>2, <3>1 DEF NoRetries
    <3>3. QED
      BY <2>0, <3>1, <3>2 DEF QuietInv, WorkConserving, TasksBeforeMessages
  <2>3. MessageRunEnded(groups[r.jid]).retry_count = 0
    BY <1>0 DEF MessageRunEnded, GroupState
  <2>4. [groups[r.jid] EXCEPT !.active = FALSE, !.running_task_id = NoTask].retry_count = 0
    BY <1>0 DEF GroupState
  <2>5. QED
    BY <1>8, <2>1, <2>2, <2>3, <2>4 DEF RunnerCancelled
<1>9. CASE ShutdownSync \/ Shutdown
  <2>1. shutting_down' /\ UNCHANGED <<groups, runners>>
    BY <1>9 DEF ShutdownSync, Shutdown, slotVars
  <2>2. \A g \in Jids : retry_timers'[g] = 0
    BY <1>0, <1>9 DEF ShutdownSync, Shutdown
  <2>3. NoRetries'
    BY <1>0, <2>1, <2>2 DEF NoRetries
  <2>4. QED
    BY <2>1, <2>3 DEF QuietInv, WorkConserving, TasksBeforeMessages
<1>10. QED
  BY <1>1, <1>2, <1>3, <1>4, <1>5, <1>6, <1>7, <1>8, <1>9 DEF QueueNext, RunnerStep

\* Without failed runs, the whole invariant holds in every reachable state.
LEMMA SoundInvariant == ASSUME "failure" \notin Outcomes PROVE QueueSpec => []SoundInv
<1>1. QueueInit => QuietInv
  <2> SUFFICES ASSUME QueueInit PROVE QuietInv
    OBVIOUS
  <2>1. NoRetries /\ Matched(groups, runners, waiting_set) /\ WorkConserving
    BY DEF QueueInit, NewGroupState, NoRetries, Matched, WorkConserving
  <2>2. QED
    BY <2>1 DEF QuietInv, QueueInit
<1>2. BackedInv /\ CountInv /\ [QueueNext]_queueVars => BackedInv'
  BY BackedNext
<1>3. QueueInit => BackedInv
  BY DEF QueueInit, BackedInv, NewGroupState
<1>4. SoundInv /\ [QueueNext]_queueVars => QuietInv'
  <2>1. SoundInv /\ UNCHANGED queueVars => QuietInv'
    BY DEF SoundInv, QuietInv, NoRetries, WorkConserving, Matched, queueVars
  <2>2. QED
    BY <2>1, QuietNext
<1>5. SoundInv <=> CountInv /\ WaitingListSound /\ PendingTasksSound /\ BackedInv /\ QuietInv
  BY DEF SoundInv
<1>6. QED
  BY <1>1, <1>2, <1>3, <1>4, <1>5, CountInvariant, WaitingSound, TasksInvariant, PTL
  DEF QueueSpec

\* Runners that differ by their groups are at most one for each group.
LEMMA OnePerGroup ==
    ASSUME \A a, b \in runners : a.jid = b.jid => a = b PROVE OneContainerPerGroup
<1> SUFFICES ASSUME NEW g \in Jids PROVE Cardinality(RunnersOf(g)) <= 1
  BY DEF OneContainerPerGroup
<1>1. RunnersOf(g) = {} \/ \E r \in runners : RunnersOf(g) = {r}
  BY DEF RunnersOf
<1>2. CASE RunnersOf(g) = {}
  BY <1>2, FS_EmptySet
<1>3. CASE RunnersOf(g) # {}
  <2>1. PICK r \in runners : RunnersOf(g) = {r}
    BY <1>1, <1>3
  <2>2. Cardinality(RunnersOf(g)) = 1
    BY <2>1, FS_Singleton
  <2>3. QED
    BY <2>2
<1>4. QED
  BY <1>2, <1>3

\* While no message run fails: one container per group, flags that match the
\* coroutines, task lists within their limits, and no group waiting beside a free
\* slot ("ensures only one container runs per group at a time").
THEOREM QueueStaysSound == ASSUME "failure" \notin Outcomes PROVE QueueSpec => []QueueSound
<1>1. SoundInv => QueueSound
  <2> SUFFICES ASSUME TypeOK, ConcurrencyLimit, PendingTasksSound, QuietInv PROVE QueueSound
    BY DEF SoundInv, CountInv
  <2>1. OneContainerPerGroup
    BY OnePerGroup DEF QuietInv
  <2>2. StateMatchesRunner
    <3> SUFFICES ASSUME ~shutting_down, NEW g \in Jids
                 PROVE  /\ groups[g].active <=> RunnersOf(g) # {}
                        /\ \A r \in RunnersOf(g) : r.task = groups[g].running_task_id
      BY DEF StateMatchesRunner
    <3>1. QED
      BY DEF QuietInv, Matched, RunnersOf
  <2>3. QED
    BY <2>1, <2>2 DEF QueueSound, QuietInv
<1>2. QED
  BY <1>1, SoundInvariant, PTL

\* While no message run fails, a message run starts only for a group that has no
\* task queued ("tasks are prioritized over pending messages"), and no accepted task
\* is dropped.
THEOREM TasksComeFirst == ASSUME "failure" \notin Outcomes PROVE QueueSpec => TasksFirst
<1> DEFINE First == \A r \in runners' \ runners :
                       r.phase = "created" /\ r.task = NoTask
                           => groups[r.jid].pending_tasks = <<>>
<1>1. SoundInv /\ QueueNext => First
  BY QuietNext DEF TasksBeforeMessages
<1>2. QueueSpec => [][First]_queueVars
  BY <1>1, SoundInvariant, PTL DEF QueueSpec
<1>3. QED
  BY <1>2, TaskLeavesByRunning DEF TasksFirst, TaskPriority

-----------------------------------------------------------------------------
(* Failures and retries.  When there is a slot for every group, no group     *)
(* ever waits, and the promises of the queue hold through failing runs and   *)
(* their back-off as well.  The back-off of a group is a timer that sleeps,  *)
(* a fired one that came while a task ran (retry_ready, which the drain      *)
(* behind that task honours), or the message run it led to.                  *)

\* The back-off of a group in the state st, n timers of which sleep.
RetrySound(st, n) ==
    /\ n <= 1
    /\ n = 1 => /\ st.retry_count > 0 /\ ~st.retry_ready
                /\ st.active => st.running_task_id # NoTask
    /\ st.retry_ready => st.active /\ st.running_task_id # NoTask /\ st.pending_messages
    /\ st.retry_count > 0 => \/ n = 1
                             \/ st.retry_ready
                             \/ st.active /\ st.running_task_id = NoTask

RoomInv ==
    /\ \A a, b \in runners : a.jid = b.jid => a = b
    /\ \A g \in Jids : retry_timers[g] <= 1
    /\ \A r \in runners : r.task = NoTask => retry_timers[r.jid] = 0
    /\ ~shutting_down => /\ waiting_groups = <<>>
                         /\ Matched(groups, runners, {})
                         /\ \A g \in Jids : RetrySound(groups[g], retry_timers[g])

\* A group that is not active leaves a slot free for itself.
LEMMA RoomFree ==
    ASSUME TypeOK, ConcurrencyLimit, RoomInv, ~shutting_down,
           Cardinality(Jids) <= MAX_CONCURRENT_CONTAINERS,
           NEW g \in Jids, ~groups[g].active
    PROVE  ~AtLimit
<1> DEFINE others == Jids \ {g}
           busy == {r.jid : r \in runners}
<1>1. /\ Cardinality(Jids) \in Nat
      /\ IsFiniteSet(others)
      /\ Cardinality(others) = Cardinality(Jids) - 1
  BY QueueAssumption, FS_RemoveElement, FS_CardinalityType
<1>2. busy \in SUBSET others
  BY DEF RoomInv, Matched, TypeOK, Runner
<1>3. IsFiniteSet(runners) /\ Cardinality(runners) = active_count /\ active_count \in Nat
  BY DEF ConcurrencyLimit, TypeOK
<1>4. Cardinality(busy) = Cardinality(runners) /\ IsFiniteSet(busy)
  <2> DEFINE f == [r \in runners |-> r.jid]
  <2>1. f \in Bijection(runners, busy)
    BY DEF Bijection, Injection, Surjection, IsInjective, RoomInv
  <2>2. ExistsBijection(runners, busy)
    BY <2>1 DEF ExistsBijection
  <2> HIDE DEF f, busy
  <2>3. QED
    BY <1>3, <2>2, FS_Bijection
<1> HIDE DEF busy, others
<1>5. Cardinality(busy) <= Cardinality(others)
  BY <1>1, <1>2, FS_Subset
<1>6. QED
  BY <1>1, <1>3, <1>4, <1>5, QueueAssumption DEF AtLimit

\* With an empty list _drain_waiting does nothing.
LEMMA EmptyDrain ==
    ASSUME waiting_groups = <<>>, NEW STATE gs, gs \in [Jids -> GroupState],
           NEW STATE rs, NEW STATE count, DrainWaiting(gs, rs, count)
    PROVE  groups' = gs /\ runners' = rs /\ waiting_groups' = <<>>
<1>1. Len(waiting_groups) = 0
  OBVIOUS
<1>2. PICK k \in 0..Len(waiting_groups) :
        LET started == {waiting_groups[i] :
                          i \in {j \in 1..k : ReadyToRun(gs[waiting_groups[j]])}}
        IN  /\ groups' = [h \in Jids |-> IF h \in started
                                         THEN WaitingRunCreated(gs[h]) ELSE gs[h]]
            /\ runners' = rs \cup {NewRunner(h, NextRun(gs[h]), rs) : h \in started}
            /\ waiting_groups' = SubSeq(waiting_groups, k + 1, Len(waiting_groups))
  BY DEF DrainWaiting
<1>3. k = 0 /\ 1..k = {}
  BY <1>1
<1>4. {waiting_groups[i] : i \in {j \in 1..k : ReadyToRun(gs[waiting_groups[j]])}} = {}
  BY <1>3
<1>5. waiting_groups' = <<>>
  BY <1>1, <1>2, <1>3, SubSeqEmpty
<1>6. groups' = [h \in Jids |-> gs[h]] /\ runners' = rs
  BY <1>2, <1>4
<1>7. QED
  BY <1>5, <1>6

\* A step that changes one group, and leaves it with the coroutine its state shows.
LEMMA RoomStep ==
    ASSUME TypeOK, RoomInv, ~shutting_down, UNCHANGED shutting_down,
           NEW g \in Jids, NEW s1, NEW n \in Nat, NEW new,
           groups' = [groups EXCEPT ![g] = s1],
           retry_timers' = [retry_timers EXCEPT ![g] = n],
           RetrySound(s1, n),
           waiting_groups' = <<>>,
           runners' = {q \in runners : q.jid # g} \cup new,
           \/ new = {} /\ ~s1.active /\ s1.running_task_id = NoTask
           \/ \E q : /\ new = {q} /\ q.jid = g
                     /\ s1.active /\ q.task = s1.running_task_id
    PROVE  RoomInv'
<1>1. /\ \A h \in Jids : groups'[h] = IF h = g THEN s1 ELSE groups[h]
      /\ \A h \in Jids : retry_timers'[h] = IF h = g THEN n ELSE retry_timers[h]
  BY DEF TypeOK
<1>2. /\ Matched(groups, runners, {})
      /\ \A h \in Jids : RetrySound(groups[h], retry_timers[h])
      /\ \A r \in runners : r.jid \in Jids
  BY DEF RoomInv, TypeOK, Runner
<1>3. \A a, b \in runners' : a.jid = b.jid => a = b
  BY <1>2 DEF Matched
<1>4. \A h \in Jids : groups'[h].active <=> \E r \in runners' : r.jid = h
  <2>1. TAKE h \in Jids
  <2>2. CASE h = g
    BY <1>1, <2>2
  <2>3. CASE h # g
    BY <1>1, <1>2, <2>3 DEF Matched
  <2>4. QED
    BY <2>2, <2>3
<1>5. \A r \in runners' : r.jid \in Jids /\ r.task = groups'[r.jid].running_task_id
  BY <1>1, <1>2 DEF Matched
<1>6. \A h \in Jids : ~groups'[h].active => groups'[h].running_task_id = NoTask
  BY <1>1, <1>2 DEF Matched
<1>7. \A h \in Jids : RetrySound(groups'[h], retry_timers'[h])
  BY <1>1, <1>2
<1>8. \A h \in Jids : retry_timers'[h] <= 1
  BY <1>7 DEF RetrySound
<1>9. \A r \in runners' : r.task = NoTask => retry_timers'[r.jid] = 0
  <2>1. SUFFICES ASSUME NEW r \in runners', r.task = NoTask PROVE retry_timers'[r.jid] = 0
    OBVIOUS
  <2>2. groups'[r.jid].active /\ groups'[r.jid].running_task_id = NoTask
    BY <1>4, <1>5, <2>1
  <2>3. retry_timers'[r.jid] \in Nat
    BY <1>1, <1>5 DEF TypeOK
  <2>4. retry_timers'[r.jid] # 1 /\ retry_timers'[r.jid] <= 1
    BY <1>5, <1>7, <2>2 DEF RetrySound
  <2>5. QED
    BY <2>3, <2>4
<1>10. Matched(groups', runners', {})
  BY <1>3, <1>4, <1>5, <1>6 DEF Matched
<1>11. QED
  BY <1>3, <1>7, <1>8, <1>9, <1>10 DEF RoomInv

\* The end of a runner, its group left in the state st with n timers asleep.
LEMMA DrainGroupRoom ==
    ASSUME TypeOK, ConcurrencyLimit, Apart(runners), RoomInv, ~shutting_down,
           UNCHANGED shutting_down,
           NEW r \in runners, NEW STATE st, st \in GroupState,
           ~st.active, st.running_task_id = NoTask,
           DrainGroup(r, st),
           NEW STATE n, n \in Nat, retry_timers' = [retry_timers EXCEPT ![r.jid] = n],
           n <= 1,
           n = 1 => st.retry_count > 0 /\ ~st.retry_ready,
           st.retry_ready => st.pending_messages,
           st.retry_count > 0 => n = 1 \/ st.retry_ready
    PROVE  RoomInv'
<1> DEFINE g == r.jid
           rs == runners \ {r}
<1>0. /\ g \in Jids
      /\ groups \in [Jids -> GroupState]
      /\ waiting_groups = <<>>
      /\ rs = {q \in runners : q.jid # g}
      /\ st.retry_count \in Nat
  BY QueueAssumption DEF TypeOK, Runner, RoomInv, GroupState
<1>1. ASSUME NEW t, NEW s1, s1.active, s1.running_task_id = t, RetrySound(s1, n),
             groups' = [groups EXCEPT ![g] = s1],
             runners' = rs \cup {NewRunner(g, t, rs)},
             UNCHANGED waitVars
      PROVE  RoomInv'
  <2>1. /\ NewRunner(g, t, rs).jid = g /\ NewRunner(g, t, rs).task = t
        /\ waiting_groups' = <<>>
    BY <1>0, <1>1 DEF NewRunner, waitVars
  <2> DEFINE new == {NewRunner(g, t, rs)}
  <2>2. /\ runners' = {q \in runners : q.jid # g} \cup new
        /\ \E q : /\ new = {q} /\ q.jid = g
                  /\ s1.active /\ q.task = s1.running_task_id
    BY <1>0, <1>1, <2>1
  <2> HIDE DEF new, rs
  <2>3. QED
    BY <1>0, <1>1, <2>1, <2>2, RoomStep
<1>2. ASSUME groups' = [groups EXCEPT ![g] = st], runners' = rs,
             waiting_groups' = <<>>, RetrySound(st, n)
      PROVE  RoomInv'
  <2> DEFINE new == {}
  <2>1. runners' = {q \in runners : q.jid # g} \cup new
    BY <1>0, <1>2
  <2> HIDE DEF rs
  <2>2. QED
    BY <1>0, <1>2, <2>1, RoomStep
<1>3. CASE st.pending_tasks # <<>>
  <2> DEFINE s1 == PendingTaskStarted(st)
  <2>1. /\ s1.active /\ s1.running_task_id = Head(st.pending_tasks)
        /\ s1.retry_ready = st.retry_ready /\ s1.retry_count = st.retry_count
        /\ s1.pending_messages = st.pending_messages
    BY DEF PendingTaskStarted, GroupState
  <2>2. /\ groups' = [groups EXCEPT ![g] = s1]
        /\ runners' = rs \cup {NewRunner(g, Head(st.pending_tasks), rs)}
        /\ UNCHANGED waitVars
    BY <1>3 DEF DrainGroup
  <2>3. Head(st.pending_tasks) # NoTask
    BY <1>3, TaskOfState, QueueAssumption
  <2> HIDE DEF s1
  <2>4. RetrySound(s1, n)
    BY <2>1, <2>3 DEF RetrySound
  <2>5. QED
    BY <1>1, <2>1, <2>2, <2>4
<1>4. CASE st.pending_tasks = <<>> /\ st.pending_messages /\ ~RetryPending(st)
  <2> DEFINE s1 == MessageRunCreated(st)
  <2>1. /\ s1.active /\ s1.running_task_id = NoTask
        /\ ~s1.retry_ready /\ s1.retry_count = st.retry_count
    BY DEF MessageRunCreated, GroupState
  <2>2. /\ groups' = [groups EXCEPT ![g] = s1]
        /\ runners' = rs \cup {NewRunner(g, NoTask, rs)}
        /\ UNCHANGED waitVars
    BY <1>4 DEF DrainGroup
  <2> HIDE DEF s1
  <2>3. n # 1
    BY <1>4 DEF RetryPending
  <2>4. RetrySound(s1, n)
    BY <2>1, <2>3 DEF RetrySound
  <2>5. QED
    BY <1>1, <2>1, <2>2, <2>4
<1>5. CASE st.pending_tasks = <<>> /\ st.pending_messages /\ RetryPending(st)
  <2>1. groups' = [groups EXCEPT ![g] = st] /\ runners' = rs /\ UNCHANGED waitVars
    BY <1>5 DEF DrainGroup
  <2>2. RetrySound(st, n)
    BY <1>5 DEF RetrySound, RetryPending
  <2>3. QED
    BY <1>0, <1>2, <2>1, <2>2 DEF waitVars
<1>6. CASE st.pending_tasks = <<>> /\ ~st.pending_messages
  <2>1. DrainWaiting([groups EXCEPT ![g] = st], rs, active_count - 1)
    BY <1>6 DEF DrainGroup
  <2>2. [groups EXCEPT ![g] = st] \in [Jids -> GroupState]
    BY <1>0
  <2> HIDE DEF rs
  <2>3. groups' = [groups EXCEPT ![g] = st] /\ runners' = rs /\ waiting_groups' = <<>>
    BY <1>0, <2>1, <2>2, EmptyDrain
  <2>4. RetrySound(st, n)
    BY <1>6 DEF RetrySound
  <2>5. QED
    BY <1>2, <2>3, <2>4
<1>7. QED
  BY <1>3, <1>4, <1>5, <1>6

\* enqueue_message_check, by a caller or by a timer: st is the group's state with
\* the mark of the timer, n what is left of its timers.
LEMMA MessageCheckRoom ==
    ASSUME TypeOK, ConcurrencyLimit, RoomInv, ~shutting_down, UNCHANGED shutting_down,
           Cardinality(Jids) <= MAX_CONCURRENT_CONTAINERS,
           NEW g \in Jids, NEW STATE st, st \in GroupState, NEW b \in BOOLEAN,
           st.active = groups[g].active,
           st.running_task_id = groups[g].running_task_id,
           MessageCheck(g, st, b),
           NEW STATE n, n \in Nat, retry_timers' = [retry_timers EXCEPT ![g] = n],
           st.retry_count > 0 /\ ~b => RetrySound(st, n),
           st.active => RetrySound([st EXCEPT !.pending_messages = TRUE], n),
           b \/ st.retry_count = 0 => n = 0
    PROVE  RoomInv'
<1>0. /\ groups \in [Jids -> GroupState]
      /\ waiting_groups = <<>>
      /\ Matched(groups, runners, {})
      /\ st.retry_count \in Nat
  BY QueueAssumption DEF TypeOK, RoomInv, GroupState
<1>1. \/ /\ st.active \/ (st.retry_count > 0 /\ ~b)
         /\ groups' = [groups EXCEPT ![g] = MarkPending(st)]
         /\ UNCHANGED runners
         /\ waiting_groups' = <<>>
      \/ /\ ~st.active /\ (b \/ st.retry_count = 0)
         /\ groups' = [groups EXCEPT ![g] = MessageRunCreated(st)]
         /\ runners' = runners \cup {NewRunner(g, NoTask, runners)}
         /\ waiting_groups' = <<>>
  <2>1. ~st.active => ~AtLimit
    BY RoomFree
  <2>2. QED
    BY <1>0, <2>1 DEF MessageCheck, slotVars, waitVars
<1>2. CASE /\ st.active \/ (st.retry_count > 0 /\ ~b)
           /\ groups' = [groups EXCEPT ![g] = MarkPending(st)]
           /\ UNCHANGED runners
           /\ waiting_groups' = <<>>
  <2> DEFINE s1 == MarkPending(st)
             own == {q \in runners : q.jid = g}
  <2>1. /\ s1 = [st EXCEPT !.pending_messages = TRUE]
        /\ s1.active = st.active
        /\ s1.running_task_id = st.running_task_id
        /\ s1.retry_ready = st.retry_ready
        /\ s1.retry_count = st.retry_count
        /\ s1.pending_messages
    BY DEF MarkPending, GroupState
  <2>2. RetrySound(s1, n)
    <3>1. CASE st.active
      BY <2>1, <3>1
    <3>2. CASE st.retry_count > 0 /\ ~b
      <4>1. RetrySound(st, n)
        BY <3>2
      <4> HIDE DEF s1
      <4>2. QED
        BY <2>1, <4>1 DEF RetrySound
    <3>3. QED
      BY <1>2, <3>1, <3>2
  <2> HIDE DEF s1
  <2>3. runners' = {q \in runners : q.jid # g} \cup own
    BY <1>2
  <2>4. \/ own = {} /\ ~s1.active /\ s1.running_task_id = NoTask
        \/ \E q : /\ own = {q} /\ q.jid = g
                  /\ s1.active /\ q.task = s1.running_task_id
    <3>1. CASE st.active
      <4>1. PICK q \in runners : q.jid = g
        BY <1>0, <3>1 DEF Matched
      <4>2. own = {q} /\ q.task = s1.running_task_id
        BY <1>0, <2>1, <4>1 DEF Matched
      <4>3. QED
        BY <2>1, <3>1, <4>1, <4>2
    <3>2. CASE ~st.active
      BY <1>0, <2>1, <3>2 DEF Matched
    <3>3. QED
      BY <3>1, <3>2
  <2> HIDE DEF own
  <2>5. QED
    BY <1>2, <2>2, <2>3, <2>4, RoomStep DEF s1
<1>3. CASE /\ ~st.active /\ (b \/ st.retry_count = 0)
           /\ groups' = [groups EXCEPT ![g] = MessageRunCreated(st)]
           /\ runners' = runners \cup {NewRunner(g, NoTask, runners)}
           /\ waiting_groups' = <<>>
  <2> DEFINE s1 == MessageRunCreated(st)
             new == {NewRunner(g, NoTask, runners)}
  <2>1. /\ s1.active /\ s1.running_task_id = st.running_task_id /\ ~s1.retry_ready
        /\ st.running_task_id = NoTask
        /\ runners = {q \in runners : q.jid # g}
    BY <1>0, <1>3 DEF MessageRunCreated, GroupState, Matched
  <2>2. RetrySound(s1, n)
    BY <1>3, <2>1 DEF RetrySound
  <2>3. /\ runners' = {q \in runners : q.jid # g} \cup new
        /\ \E q : /\ new = {q} /\ q.jid = g
                  /\ s1.active /\ q.task = s1.running_task_id
    <3>1. NewRunner(g, NoTask, runners).jid = g /\ NewRunner(g, NoTask, runners).task = NoTask
      BY DEF NewRunner
    <3>2. QED
      BY <1>3, <2>1, <3>1
  <2> HIDE DEF s1, new
  <2>4. QED
    BY <1>3, <2>2, <2>3, RoomStep DEF s1
<1>4. QED
  BY <1>1, <1>2, <1>3

\* With a slot for every group, nobody ever waits for one.
LEMMA RoomNext ==
    ASSUME Cardinality(Jids) <= MAX_CONCURRENT_CONTAINERS
    PROVE  CountInv /\ RoomInv /\ QueueNext => RoomInv'
<1> SUFFICES ASSUME TypeOK, ConcurrencyLimit, Apart(runners), RoomInv, QueueNext
             PROVE  RoomInv'
  BY DEF CountInv
<1>0. /\ groups \in [Jids -> GroupState]
      /\ \A g \in Jids : groups[g] \in GroupState /\ groups[g].retry_count \in Nat
      /\ retry_timers \in [Jids -> Nat]
      /\ \A r \in runners : r.jid \in Jids
      /\ \A a, b \in runners : a.jid = b.jid => a = b
      /\ \A g \in Jids : retry_timers[g] <= 1
      /\ \A r \in runners : r.task = NoTask => retry_timers[r.jid] = 0
      /\ 0 \in 0..MAX_RETRIES
      /\ MAX_RETRIES \in Nat
  BY QueueAssumption DEF TypeOK, Runner, RoomInv, GroupState
<1>n. ~shutting_down => /\ Matched(groups, runners, {})
                        /\ \A g \in Jids : RetrySound(groups[g], retry_timers[g])
                        /\ waiting_groups = <<>>
  BY DEF RoomInv
\* after the shutdown signal runners only go, and a timer is only set by one of them
<1>s. ASSUME shutting_down', runners' \subseteq runners,
             \A g \in Jids : retry_timers'[g] \in {0, retry_timers[g]}
      PROVE  RoomInv'
  <2>1. \A g \in Jids : retry_timers'[g] <= 1
    BY <1>0, <1>s
  <2>2. \A r \in runners' : r.task = NoTask => retry_timers'[r.jid] = 0
    BY <1>0, <1>s
  <2>3. QED
    BY <1>0, <1>s, <2>1, <2>2 DEF RoomInv
<1>1. ASSUME NEW g \in Jids, EnqueueMessageCheck(g) PROVE RoomInv'
  <2> DEFINE st == groups[g]
             n == retry_timers[g]
  <2>1. /\ ~shutting_down /\ UNCHANGED shutting_down /\ MessageCheck(g, st, FALSE)
        /\ retry_timers' = [retry_timers EXCEPT ![g] = n]
    BY <1>0, <1>1 DEF EnqueueMessageCheck
  <2>2. RetrySound(st, n)
    BY <1>n, <2>1
  <2>3. RetrySound([st EXCEPT !.pending_messages = TRUE], n)
    <3>1. st \in GroupState
      BY <1>0
    <3>2. QED
      BY <2>2, <3>1 DEF RetrySound, GroupState
  <2>4. n \in Nat /\ (st.retry_count = 0 => n = 0) /\ st \in GroupState
    <3>1. n \in Nat /\ n <= 1 /\ st \in GroupState /\ (n = 1 => st.retry_count > 0)
      BY <1>0, <2>2 DEF RetrySound
    <3>2. QED
      BY <3>1
  <2> HIDE DEF st, n
  <2>5. QED
    BY <2>1, <2>2, <2>3, <2>4, MessageCheckRoom DEF st
<1>2. ASSUME NEW g \in Jids, RetryTimerFires(g) PROVE RoomInv'
  <2>0. /\ retry_timers' = [retry_timers EXCEPT ![g] = @ - 1]
        /\ UNCHANGED shutting_down
        /\ retry_timers[g] = 1
    BY <1>0, <1>2 DEF RetryTimerFires
  <2>1. CASE shutting_down
    <3>1. UNCHANGED runners
      BY <1>2, <2>1 DEF RetryTimerFires, slotVars
    <3>2. \A h \in Jids : retry_timers'[h] \in {0, retry_timers[h]}
      BY <1>0, <2>0
    <3>3. QED
      BY <1>s, <2>0, <2>1, <3>1, <3>2
  <2>2. CASE ~shutting_down
    <3> DEFINE st == [groups[g] EXCEPT !.retry_ready = TRUE]
               n == 0
    <3>1. /\ st \in GroupState
          /\ st.active = groups[g].active
          /\ st.running_task_id = groups[g].running_task_id
          /\ st.retry_count = groups[g].retry_count
      <4>1. groups[g] \in GroupState
        BY <1>0
      <4>2. QED
        BY <4>1 DEF GroupState
    <3>2. MessageCheck(g, st, TRUE)
      BY <1>2, <2>2 DEF RetryTimerFires
    <3>3. groups[g].active => groups[g].running_task_id # NoTask
      BY <1>n, <2>0, <2>2 DEF RetrySound
    <3>4. st.active => RetrySound([st EXCEPT !.pending_messages = TRUE], n)
      <4> DEFINE s2 == [st EXCEPT !.pending_messages = TRUE]
      <4>1. /\ s2.active = groups[g].active /\ s2.pending_messages /\ s2.retry_ready
            /\ s2.running_task_id = groups[g].running_task_id
        <5>1. groups[g] \in GroupState
          BY <1>0
        <5>2. QED
          BY <5>1 DEF GroupState
      <4> HIDE DEF s2
      <4>2. st.active => RetrySound(s2, n)
        BY <3>1, <3>3, <4>1 DEF RetrySound
      <4>3. QED
        BY <4>2 DEF s2
    <3>5. retry_timers' = [retry_timers EXCEPT ![g] = n]
      BY <1>0, <2>0
    <3> HIDE DEF st
    <3>6. QED
      BY <2>0, <2>2, <3>1, <3>2, <3>4, <3>5, MessageCheckRoom
  <2>3. QED
    BY <2>1, <2>2
<1>3. ASSUME NEW t \in TaskIds, EnqueueTask(t) PROVE RoomInv'
  <2> DEFINE g == TaskJid[t]
             st == groups[g]
             n == retry_timers[g]
  <2>0. g \in Jids /\ st \in GroupState /\ n \in Nat /\ t # NoTask
    BY <1>0, QueueAssumption
  <2>1. /\ ~shutting_down /\ UNCHANGED shutting_down
        /\ retry_timers' = [retry_timers EXCEPT ![g] = n]
    BY <1>0, <1>3 DEF EnqueueTask
  <2>2. /\ RetrySound(st, n)
        /\ Matched(groups, runners, {})
        /\ waiting_groups = <<>>
    BY <1>n, <2>0, <2>1
  <2>3. ~st.active => ~AtLimit
    BY <2>0, <2>1, RoomFree
  <2>4. \/ /\ st.active
           /\ groups' = [groups EXCEPT ![g] = TaskQueued(st, t)]
           /\ UNCHANGED runners
           /\ waiting_groups' = <<>>
        \/ /\ ~st.active
           /\ groups' = [groups EXCEPT ![g] = TaskRunCreated(st, t)]
           /\ runners' = runners \cup {NewRunner(g, t, runners)}
           /\ waiting_groups' = <<>>
    BY <1>3, <2>2, <2>3 DEF EnqueueTask, slotVars, waitVars
  <2>5. CASE /\ st.active
             /\ groups' = [groups EXCEPT ![g] = TaskQueued(st, t)]
             /\ UNCHANGED runners
             /\ waiting_groups' = <<>>
    <3> DEFINE s1 == TaskQueued(st, t)
               own == {q \in runners : q.jid = g}
    <3>1. /\ s1.active = st.active
          /\ s1.running_task_id = st.running_task_id
          /\ s1.retry_ready = st.retry_ready
          /\ s1.retry_count = st.retry_count
          /\ s1.pending_messages = st.pending_messages
      BY <2>0 DEF TaskQueued, GroupState
    <3> HIDE DEF s1
    <3>2. RetrySound(s1, n)
      BY <2>2, <3>1 DEF RetrySound
    <3>3. PICK q \in runners : q.jid = g
      BY <2>0, <2>2, <2>5 DEF Matched
    <3>4. own = {q} /\ q.task = s1.running_task_id
      BY <2>2, <3>1, <3>3 DEF Matched
    <3>5. runners' = {p \in runners : p.jid # g} \cup own
      BY <2>5
    <3> HIDE DEF own, st, g, n
    <3>6. QED
      BY <2>0, <2>1, <2>5, <3>1, <3>2, <3>3, <3>4, <3>5, RoomStep DEF s1
  <2>6. CASE /\ ~st.active
             /\ groups' = [groups EXCEPT ![g] = TaskRunCreated(st, t)]
             /\ runners' = runners \cup {NewRunner(g, t, runners)}
             /\ waiting_groups' = <<>>
    <3> DEFINE s1 == TaskRunCreated(st, t)
               new == {NewRunner(g, t, runners)}
    <3>1. /\ s1.active /\ s1.running_task_id = t
          /\ ~s1.retry_ready /\ s1.retry_count = st.retry_count
      BY <2>0 DEF TaskRunCreated, GroupState
    <3> HIDE DEF s1
    <3>2. RetrySound(s1, n)
      BY <2>0, <2>2, <2>6, <3>1 DEF RetrySound
    <3>3. /\ runners' = {p \in runners : p.jid # g} \cup new
          /\ \E q : /\ new = {q} /\ q.jid = g
                    /\ s1.active /\ q.task = s1.running_task_id
      <4>1. runners = {p \in runners : p.jid # g}
        BY <2>0, <2>2, <2>6 DEF Matched
      <4>2. NewRunner(g, t, runners).jid = g /\ NewRunner(g, t, runners).task = t
        BY DEF NewRunner
      <4>3. QED
        BY <2>6, <3>1, <4>1, <4>2
    <3> HIDE DEF new, st, g, n
    <3>4. QED
      BY <2>0, <2>1, <2>6, <3>2, <3>3, RoomStep DEF s1
  <2>7. QED
    BY <2>4, <2>5, <2>6
<1>4. ASSUME NEW r \in runners, RunForGroupStarts(r) \/ RunTaskStarts(r) PROVE RoomInv'
  <2>1. /\ runners' = (runners \ {r}) \cup {Running(r)}
        /\ UNCHANGED <<active_count, waitVars, shutting_down, retry_timers>>
    BY <1>4 DEF RunForGroupStarts, RunTaskStarts
  <2>2. Running(r).jid = r.jid /\ Running(r).task = r.task
    BY DEF Running, TypeOK, Runner
  <2>3. CASE shutting_down
    <3>1. \A a, b \in runners' : a.jid = b.jid => a = b
      BY <1>0, <2>1, <2>2
    <3>2. \A q \in runners' : q.task = NoTask => retry_timers'[q.jid] = 0
      BY <1>0, <2>1, <2>2
    <3>3. QED
      BY <1>0, <2>1, <2>3, <3>1, <3>2 DEF RoomInv
  <2>4. CASE ~shutting_down
    <3> DEFINE g == r.jid
               st == groups[g]
               n == retry_timers[g]
               s1 == groups'[g]
               new == {Running(r)}
    <3>0. /\ g \in Jids /\ st \in GroupState /\ n \in Nat
          /\ st.active /\ r.task = st.running_task_id
          /\ RetrySound(st, n)
      BY <1>0, <1>n, <2>4 DEF Matched
    <3>1. /\ groups' = [groups EXCEPT ![g] = s1]
          /\ s1.active = st.active
          /\ s1.running_task_id = st.running_task_id
          /\ s1.retry_ready = st.retry_ready
          /\ s1.retry_count = st.retry_count
          /\ s1.pending_messages = st.pending_messages \/ r.task = NoTask
      <4>1. CASE RunTaskStarts(r)
        BY <1>0, <3>0, <4>1 DEF RunTaskStarts
      <4>2. CASE RunForGroupStarts(r)
        <5> DEFINE s2 == [st EXCEPT !.pending_messages = FALSE]
        <5>1. groups' = [groups EXCEPT ![g] = s2] /\ r.task = NoTask
          BY <4>2 DEF RunForGroupStarts
        <5>2. /\ s2.active = st.active
              /\ s2.running_task_id = st.running_task_id
              /\ s2.retry_ready = st.retry_ready
              /\ s2.retry_count = st.retry_count
          BY <3>0 DEF GroupState
        <5> HIDE DEF s2
        <5>3. groups'[g] = s2
          BY <1>0, <3>0, <5>1
        <5>4. QED
          BY <5>1, <5>2, <5>3
      <4>3. QED
        BY <1>4, <4>1, <4>2
    <3> HIDE DEF s1
    <3>2. RetrySound(s1, n)
      BY <3>0, <3>1 DEF RetrySound
    <3>3. /\ runners' = {p \in runners : p.jid # g} \cup new
          /\ \E q : /\ new = {q} /\ q.jid = g
                    /\ s1.active /\ q.task = s1.running_task_id
      <4>1. {p \in runners : p.jid # g} = runners \ {r}
        BY <1>0
      <4>2. QED
        BY <2>1, <2>2, <3>0, <3>1, <4>1
    <3>4. /\ retry_timers' = [retry_timers EXCEPT ![g] = n]
          /\ waiting_groups' = <<>> /\ UNCHANGED shutting_down
      BY <1>0, <1>n, <2>1, <2>4 DEF waitVars
    <3> HIDE DEF new, st, g, n
    <3>5. QED
      BY <2>4, <3>0, <3>1, <3>2, <3>3, <3>4, RoomStep
  <2>5. QED
    BY <2>3, <2>4
\* the end of a runner after the shutdown signal
<1>e. ASSUME NEW r \in runners, NEW STATE st, DrainGroup(r, st), shutting_down,
             UNCHANGED shutting_down,
             \A g \in Jids : retry_timers'[g] # retry_timers[g] =>
                g = r.jid /\ retry_timers'[g] = 1
      PROVE  RoomInv'
  <2>1. runners' = runners \ {r}
    BY <1>e DEF DrainGroup
  <2>2. \A q \in runners' : q.jid # r.jid
    BY <1>0, <2>1
  <2>3. \A g \in Jids : retry_timers'[g] <= 1
    BY <1>0, <1>e
  <2>4. \A q \in runners' : q.task = NoTask => retry_timers'[q.jid] = 0
    BY <1>0, <1>e, <2>1, <2>2
  <2>5. QED
    BY <1>0, <1>e, <2>1, <2>3, <2>4 DEF RoomInv
<1>5. ASSUME NEW r \in runners, RunForGroupSucceeds(r) PROVE RoomInv'
  <2> DEFINE s1 == [groups[r.jid] EXCEPT !.retry_count = 0]
             st == MessageRunEnded(s1)
  <2>1. /\ s1 \in GroupState /\ ~st.active /\ st.retry_count = 0
        /\ st.running_task_id = groups[r.jid].running_task_id
        /\ st.retry_ready = groups[r.jid].retry_ready
    <3>1. groups[r.jid] \in GroupState /\ 0 \in 0..MAX_RETRIES
      BY <1>0
    <3>2. QED
      BY <3>1 DEF GroupState, MessageRunEnded
  <2>2. /\ DrainGroup(r, st) /\ UNCHANGED shutting_down /\ UNCHANGED retry_timers
        /\ r.task = NoTask
    BY <1>5 DEF RunForGroupSucceeds
  <2>3. st \in GroupState
    <3> HIDE DEF s1
    <3>1. QED
      BY <2>1, EndedType
  <2> HIDE DEF st
  <2>4. CASE shutting_down
    BY <1>e, <2>2, <2>4
  <2>5. CASE ~shutting_down
    <3> DEFINE n == retry_timers[r.jid]
    <3>1. n = 0 /\ retry_timers' = [retry_timers EXCEPT ![r.jid] = n]
      BY <1>0, <2>2
    <3>2. st.running_task_id = NoTask
      BY <1>n, <2>1, <2>2, <2>5 DEF Matched
    <3>3. ~st.retry_ready
      BY <1>0, <1>n, <2>1, <2>5, <3>2 DEF RetrySound
    <3>4. n \in Nat /\ n <= 1 /\ n # 1 /\ ~(st.retry_count > 0)
      BY <2>1, <3>1
    <3> HIDE DEF n
    <3>5. QED
      BY <2>1, <2>2, <2>3, <2>5, <3>1, <3>2, <3>3, <3>4, DrainGroupRoom
  <2>6. QED
    BY <2>4, <2>5
<1>6. ASSUME NEW r \in runners, RunForGroupFails(r) PROVE RoomInv'
  <2> DEFINE s0 == groups[r.jid]
             giveUp == s0.retry_count + 1 > MAX_RETRIES
             s1 == IF giveUp THEN [s0 EXCEPT !.retry_count = 0, !.retry_ready = FALSE]
                             ELSE [s0 EXCEPT !.retry_count = @ + 1]
             st == MessageRunEnded(s1)
             n == IF giveUp THEN 0 ELSE 1
  <2>0. /\ s0 \in GroupState /\ s0.retry_count \in Nat
        /\ r.jid \in Jids
        /\ 0 \in 0..MAX_RETRIES
    BY <1>0
  <2>1. /\ DrainGroup(r, st) /\ UNCHANGED shutting_down
        /\ retry_timers' = IF giveUp THEN retry_timers
                           ELSE [retry_timers EXCEPT ![r.jid] = @ + 1]
        /\ r.task = NoTask
    BY <1>6 DEF RunForGroupFails
  <2>2. retry_timers' = [retry_timers EXCEPT ![r.jid] = n]
    <3>1. retry_timers[r.jid] = 0
      BY <1>0, <2>1
    <3> HIDE DEF giveUp, s1
    <3>2. CASE giveUp
      BY <1>0, <2>1, <3>1, <3>2
    <3>3. CASE ~giveUp
      BY <1>0, <2>1, <3>1, <3>3
    <3>4. QED
      BY <3>2, <3>3
  <2>3. /\ s1 \in GroupState /\ ~st.active
        /\ st.running_task_id = s0.running_task_id
        /\ IF giveUp THEN ~st.retry_ready /\ st.retry_count = 0
                     ELSE st.retry_ready = s0.retry_ready /\ st.retry_count > 0
    <3>1. CASE giveUp
      BY <2>0, <3>1 DEF GroupState, MessageRunEnded
    <3>2. CASE ~giveUp
      <4>1. s0.retry_count + 1 \in 0..MAX_RETRIES /\ s0.retry_count + 1 > 0
        BY <1>0, <2>0, <3>2
      <4> DEFINE c == s0.retry_count + 1
      <4>2. s1 = [s0 EXCEPT !.retry_count = c]
        BY <3>2
      <4> HIDE DEF c
      <4>3. c \in 0..MAX_RETRIES /\ c > 0
        BY <4>1 DEF c
      <4> HIDE DEF giveUp, s1
      <4>4. QED
        BY <2>0, <3>2, <4>2, <4>3 DEF GroupState, MessageRunEnded
    <3>3. QED
      BY <3>1, <3>2
  <2>4. st \in GroupState
    <3> HIDE DEF s1
    <3>1. QED
      BY <2>3, EndedType
  <2> HIDE DEF st, giveUp
  <2>5. CASE shutting_down
    <3>1. \A g \in Jids : retry_timers'[g] # retry_timers[g] =>
             g = r.jid /\ retry_timers'[g] = 1
      BY <1>0, <2>1, <2>2
    <3>2. QED
      BY <1>e, <2>1, <2>5, <3>1
  <2>6. CASE ~shutting_down
    <3>1. st.running_task_id = NoTask
      BY <1>n, <2>1, <2>3, <2>6 DEF Matched
    <3>2. ~s0.retry_ready
      BY <1>n, <2>0, <2>3, <2>6, <3>1 DEF RetrySound
    <3>3. /\ n \in Nat /\ n <= 1
          /\ n = 1 => st.retry_count > 0
          /\ ~st.retry_ready
          /\ st.retry_count > 0 => n = 1
      <4>1. CASE giveUp
        BY <2>3, <4>1
      <4>2. CASE ~giveUp
        BY <2>3, <3>2, <4>2
      <4>3. QED
        BY <4>1, <4>2
    <3> HIDE DEF n, s1
    <3>4. QED
      BY <2>1, <2>2, <2>3, <2>4, <2>6, <3>1, <3>3, DrainGroupRoom
  <2>7. QED
    BY <2>5, <2>6
<1>7. ASSUME NEW r \in runners, RunTaskEnds(r) PROVE RoomInv'
  <2> DEFINE s0 == groups[r.jid]
             st == [s0 EXCEPT !.active = FALSE, !.running_task_id = NoTask]
             n == retry_timers[r.jid]
  <2>0. s0 \in GroupState /\ r.jid \in Jids /\ n \in Nat /\ n <= 1
    BY <1>0
  <2>1. /\ st \in GroupState /\ ~st.active
        /\ st.running_task_id = NoTask
        /\ st.retry_ready = s0.retry_ready
        /\ st.retry_count = s0.retry_count
        /\ st.pending_messages = s0.pending_messages
    BY <2>0 DEF GroupState
  <2>2. /\ DrainGroup(r, st) /\ UNCHANGED shutting_down /\ UNCHANGED retry_timers
        /\ r.task # NoTask
    BY <1>7 DEF RunTaskEnds
  <2>3. retry_timers' = [retry_timers EXCEPT ![r.jid] = n]
    BY <1>0, <2>2
  <2> HIDE DEF st
  <2>4. CASE shutting_down
    BY <1>e, <2>2, <2>4
  <2>5. CASE ~shutting_down
    <3>1. s0.running_task_id # NoTask /\ RetrySound(s0, n)
      BY <1>n, <2>0, <2>2, <2>5 DEF Matched
    <3> HIDE DEF n, s0
    <3>2. /\ n = 1 => st.retry_count > 0 /\ ~st.retry_ready
          /\ st.retry_ready => st.pending_messages
          /\ st.retry_count > 0 => n = 1 \/ st.retry_ready
      BY <2>1, <3>1 DEF RetrySound
    <3>3. QED
      BY <2>0, <2>1, <2>2, <2>3, <2>5, <3>2, DrainGroupRoom
  <2>6. QED
    BY <2>4, <2>5
<1>8. ASSUME NEW r \in runners, RunnerCancelled(r) PROVE RoomInv'
  <2>1. runners' = runners \ {r} /\ UNCHANGED <<shutting_down, retry_timers>> /\ shutting_down
    BY <1>8 DEF RunnerCancelled, DrainGroup
  <2>2. QED
    BY <1>s, <2>1
<1>9. CASE ShutdownSync \/ Shutdown
  <2>1. shutting_down' /\ UNCHANGED runners
    BY <1>9 DEF ShutdownSync, Shutdown, slotVars
  <2>2. \A g \in Jids : retry_timers'[g] \in {0, retry_timers[g]}
    BY <1>9 DEF ShutdownSync, Shutdown
  <2>3. QED
    BY <1>s, <2>1, <2>2
<1>10. QED
  BY <1>1, <1>2, <1>3, <1>4, <1>5, <1>6, <1>7, <1>8, <1>9 DEF QueueNext, RunnerStep

\* With a slot for every group, the queue starts with nobody waiting.
LEMMA RoomInit == QueueInit => RoomInv
<1> SUFFICES ASSUME QueueInit PROVE RoomInv
  OBVIOUS
<1>1. Matched(groups, runners, {})
  BY DEF QueueInit, NewGroupState, Matched
<1>2. \A g \in Jids : RetrySound(groups[g], retry_timers[g])
  BY DEF QueueInit, NewGroupState, RetrySound
<1>3. QED
  BY <1>1, <1>2 DEF QueueInit, RoomInv

\* What the invariant says in the terms of the module.
LEMMA RoomImplies ==
    ASSUME TypeOK, RoomInv
    PROVE  /\ OneContainerPerGroup /\ StateMatchesRunner /\ WorkConserving
           /\ RetryNotLost /\ BackoffRespected
<1>1. OneContainerPerGroup
  BY OnePerGroup DEF RoomInv
<1>2. StateMatchesRunner
  BY DEF RoomInv, StateMatchesRunner, Matched, RunnersOf
<1>3. WorkConserving
  BY DEF RoomInv, WorkConserving
<1>4. RetryNotLost
  <2> SUFFICES ASSUME NEW g \in Jids, groups[g].retry_count > 0, ~shutting_down
               PROVE  \/ retry_timers[g] > 0
                      \/ groups[g].retry_ready
                      \/ \E r \in RunnersOf(g) : r.task = NoTask
    BY DEF RetryNotLost
  <2>1. /\ RetrySound(groups[g], retry_timers[g])
        /\ Matched(groups, runners, {})
    BY DEF RoomInv
  <2>2. CASE groups[g].active /\ groups[g].running_task_id = NoTask
    <3>1. PICK r \in runners : r.jid = g
      BY <2>1, <2>2 DEF Matched
    <3>2. r.task = NoTask
      BY <2>1, <2>2, <3>1 DEF Matched
    <3>3. QED
      BY <3>1, <3>2 DEF RunnersOf
  <2>3. QED
    BY <2>1, <2>2 DEF RetrySound
<1>5. BackoffRespected
  <2> SUFFICES ASSUME NEW g \in Jids
               PROVE  /\ retry_timers[g] <= 1
                      /\ retry_timers[g] = 1 => \A r \in RunnersOf(g) : r.task # NoTask
    BY DEF BackoffRespected
  <2>1. QED
    BY DEF RoomInv, RunnersOf
<1>6. QED
  BY <1>1, <1>2, <1>3, <1>4, <1>5

\* With a slot for every group the promises of the queue hold whatever fails: one
\* container per group, a back-off that neither is forgotten nor runs twice, and no
\* message run of a group while its timer sleeps.
THEOREM SoundWithRoom ==
    ASSUME Cardinality(Jids) <= MAX_CONCURRENT_CONTAINERS
    PROVE  QueueSpec => [](QueueSound /\ RetryNotLost /\ BackoffRespected)
<1>1. CountInv /\ RoomInv /\ [QueueNext]_queueVars => RoomInv'
  <2>1. RoomInv /\ UNCHANGED queueVars => RoomInv'
    BY DEF RoomInv, RetrySound, Matched, queueVars
  <2>2. QED
    BY <2>1, RoomNext
<1>2. CountInv /\ PendingTasksSound /\ RoomInv
        => QueueSound /\ RetryNotLost /\ BackoffRespected
  BY RoomImplies DEF QueueSound, CountInv
<1>3. QED
  BY <1>1, <1>2, RoomInit, CountInvariant, TasksInvariant, PTL DEF QueueSpec

=============================================================================
