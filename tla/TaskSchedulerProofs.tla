------------------------- MODULE TaskSchedulerProofs -------------------------
(***************************************************************************)
(* Proofs about TaskScheduler: the type invariant, that no row is left in  *)
(* status 'running' without a run behind it, that a paused task stays      *)
(* paused, and that no task with a valid schedule loses its next run, for  *)
(* any set of tasks and any failure limit.                                 *)
(***************************************************************************)
EXTENDS MCTaskScheduler, TLAPS

Statuses == {"success", "error", "timeout"}

(* What the helpers on rows and on the run log return. *)

\* The log of a task with more entries is still one.
LEMMA LoggedType ==
    ASSUME NEW log \in Seq(Statuses), NEW more \in Seq(Statuses)
    PROVE  Logged(log, more) \in Seq(Statuses)
<1> DEFINE all == more \o log
           n == IF Len(all) < MAX_TASK_FAILURES THEN Len(all) ELSE MAX_TASK_FAILURES
<1>1. all \in Seq(Statuses)
  OBVIOUS
<1>2. n \in Nat /\ n <= Len(all)
  BY <1>1, SchedulerAssumption
<1>3. SubSeq(all, 1, n) \in Seq(Statuses)
  BY <1>1, <1>2
<1> QED
  BY <1>3 DEF Logged

\* What a run logs is a list of statuses.
LEMMA LogOfType ==
    ASSUME NEW o \in RunOutcomes
    PROVE  LogOf(o) \in Seq(Statuses)
<1>1. CASE o = "success"
  <2>1. LogOf(o) = <<"success">>
    BY <1>1 DEF LogOf
  <2> QED
    BY <2>1 DEF Statuses
<1>2. CASE o = "null_result"
  <2>1. LogOf(o) = <<"error", "error">>
    BY <1>2 DEF LogOf
  <2> QED
    BY <2>1 DEF Statuses
<1>3. CASE o = "timeout"
  <2>1. LogOf(o) = <<"timeout">>
    BY <1>3 DEF LogOf
  <2> QED
    BY <2>1 DEF Statuses
<1>4. CASE o \in {"reply_error", "exception"}
  <2>1. LogOf(o) = <<"error">>
    BY <1>4 DEF LogOf
  <2> QED
    BY <2>1 DEF Statuses
<1> QED
  BY <1>1, <1>2, <1>3, <1>4 DEF RunOutcomes

\* The row after a run is a row that is active or paused.
LEMMA FinalRowType ==
    ASSUME NEW kind \in Kinds, NEW o, NEW log, NEW row \in Row
    PROVE  /\ FinalRow(kind, o, log, row) \in Row
           /\ FinalRow(kind, o, log, row).status \in {"active", "paused"}
BY DEF FinalRow, NextRunAfter, Row

\* The row after the recovery at start-up is a row that is not running.
LEMMA RecoveredType ==
    ASSUME NEW row \in Row
    PROVE  Recovered(row) \in Row /\ Recovered(row).status # "running"
BY DEF Recovered, NextRunAfter, Row, Kinds

\* An update of one row keeps the type of the table.
LEMMA UpdateTaskType ==
    ASSUME NEW t \in Tasks, NEW row \in Row, rows \in [Tasks -> Row],
           UpdateTask(t, row)
    PROVE  rows' \in [Tasks -> Row]
BY DEF UpdateTask

-----------------------------------------------------------------------------
(* The type invariant. *)

\* The initial state has the types.
LEMMA TypeInit == Init => TypeOK
<1> SUFFICES ASSUME Init PROVE TypeOK
  OBVIOUS
<1>1. rows \in [Tasks -> Row]
  BY SchedulerAssumption DEF Init, NewRow, Row
<1>2. recent \in [Tasks -> Seq({"success", "error", "timeout"})]
  BY DEF Init
<1>3. entries \in [Tasks -> Entry]
  BY DEF Init, NoEntry, Entry, Kinds
<1>4. /\ snapshot \subseteq [task : Tasks, kind : Kinds]
      /\ polling \in BOOLEAN
      /\ host \in {"up", "stopping", "down"}
      /\ held \subseteq Tasks
  BY DEF Init
<1>5. /\ streak \in [Tasks -> 0..MAX_TASK_FAILURES]
      /\ ran \subseteq Tasks
  BY SchedulerAssumption DEF Init
<1> QED
  BY <1>1, <1>2, <1>3, <1>4, <1>5 DEF TypeOK

\* Every step keeps the types.
LEMMA TypeNext == TypeOK /\ [Next]_vars => TypeOK'
<1> SUFFICES ASSUME TypeOK, [Next]_vars PROVE TypeOK'
  OBVIOUS
<1> USE DEF dbVars, loopVars, historyVars
<1>1. ASSUME NEW t \in Tasks, ScheduleTask(t) PROVE TypeOK'
  <2>1. rows[t].kind \in Kinds /\ FirstRun(rows[t].kind) \subseteq {"none", "future", "past"}
    BY DEF TypeOK, Row, FirstRun, Kinds
  <2>2. PICK n \in FirstRun(rows[t].kind) :
            rows' = [rows EXCEPT ![t].status = "active", ![t].next_run = n]
    BY <1>1 DEF ScheduleTask
  <2>3. n \in {"none", "future", "past"}
    BY <2>1, <2>2
  <2>4. rows' = [rows EXCEPT ![t] = [rows[t] EXCEPT !.status = "active", !.next_run = n]]
    BY <2>2 DEF TypeOK, Row
  <2>5. [rows[t] EXCEPT !.status = "active", !.next_run = n] \in Row
    BY <2>3 DEF TypeOK, Row
  <2>6. rows' \in [Tasks -> Row]
    BY <2>4, <2>5 DEF TypeOK
  <2> QED
    BY <1>1, <2>6 DEF ScheduleTask, TypeOK
<1>2. ASSUME NEW t \in Tasks, PauseTask(t) PROVE TypeOK'
  BY <1>2 DEF PauseTask, TypeOK, Row
<1>3. ASSUME NEW t \in Tasks, ResumeTask(t) PROVE TypeOK'
  BY <1>3 DEF ResumeTask, TypeOK, Row
<1>4. ASSUME NEW t \in Tasks, CancelTask(t) PROVE TypeOK'
  <2>1. NoRow(rows[t].kind) \in Row
    BY DEF NoRow, TypeOK, Row
  <2> QED
    BY <1>4, <2>1 DEF CancelTask, TypeOK
<1>5. ASSUME NEW t \in Tasks, ChangeSchedule(t) PROVE TypeOK'
  <2>0. PICK k \in UpdateKinds : \E n \in FirstRun(k) :
            rows' = [rows EXCEPT ![t].kind = k, ![t].next_run = n]
    BY <1>5 DEF ChangeSchedule
  <2>1. PICK n \in FirstRun(k) :
            rows' = [rows EXCEPT ![t].kind = k, ![t].next_run = n]
    BY <2>0
  <2>2. k \in Kinds
    BY SchedulerAssumption
  <2>3. FirstRun(k) \subseteq {"none", "future", "past"}
    BY <2>2 DEF FirstRun, Kinds
  <2>4. rows' = [rows EXCEPT ![t] = [rows[t] EXCEPT !.kind = k, !.next_run = n]]
    BY <2>1 DEF TypeOK, Row
  <2>5. [rows[t] EXCEPT !.kind = k, !.next_run = n] \in Row
    BY <2>1, <2>2, <2>3 DEF TypeOK, Row
  <2>6. rows' \in [Tasks -> Row]
    BY <2>4, <2>5 DEF TypeOK
  <2> QED
    BY <1>5, <2>6 DEF ChangeSchedule, TypeOK
<1>6. ASSUME NEW t \in Tasks, TimePasses(t) PROVE TypeOK'
  BY <1>6 DEF TimePasses, TypeOK, Row
<1>7. CASE PollReads
  <2>1. snapshot' \subseteq [task : Tasks, kind : Kinds]
    BY <1>7 DEF PollReads, TypeOK, Row
  <2> QED
    BY <1>7, <2>1 DEF PollReads, TypeOK
<1>8. ASSUME NEW refused \in SUBSET Tasks, PollEnqueues(refused) PROVE TypeOK'
  <2>1. ASSUME NEW t \in Tasks, \E d \in snapshot : d.task = t
        PROVE  [state |-> "queued", kind |-> (CHOOSE d \in snapshot : d.task = t).kind] \in Entry
    <3>1. (CHOOSE d \in snapshot : d.task = t) \in snapshot
      BY <2>1
    <3> QED
      BY <3>1 DEF TypeOK, Entry
  <2>2. entries' \in [Tasks -> Entry]
    BY <1>8, <2>1 DEF PollEnqueues, TypeOK
  <2> QED
    BY <1>8, <2>2 DEF PollEnqueues, TypeOK
<1>9. ASSUME NEW t \in Tasks, RunTaskWithoutGroup(t) PROVE TypeOK'
  <2>1. rows' \in [Tasks -> Row]
    BY <1>9 DEF RunTaskWithoutGroup, UpdateTask, TypeOK, Row
  <2>2. NoEntry \in Entry
    BY DEF NoEntry, Entry, Kinds
  <2> QED
    BY <1>9, <2>1, <2>2 DEF RunTaskWithoutGroup, TypeOK
<1>10. ASSUME NEW t \in Tasks, RunTaskBegins(t) PROVE TypeOK'
  <2>1. rows' \in [Tasks -> Row]
    BY <1>10 DEF RunTaskBegins, UpdateTask, TypeOK, Row
  <2>2. entries' \in [Tasks -> Entry]
    BY <1>10 DEF RunTaskBegins, TypeOK, Entry
  <2> QED
    BY <1>10, <2>1, <2>2 DEF RunTaskBegins, TypeOK
<1>11. ASSUME NEW t \in Tasks, NEW o \in Outcomes, RunTaskEnds(t, o) PROVE TypeOK'
  <2> DEFINE log == Logged(recent[t], LogOf(o))
  <2>1. log \in Seq(Statuses)
    BY SchedulerAssumption, LoggedType, LogOfType DEF TypeOK, Statuses
  <2>2. FinalRow(entries[t].kind, o, log, rows[t]) \in Row
    <3>1. entries[t].kind \in Kinds /\ rows[t] \in Row
      BY DEF TypeOK, Entry
    <3> QED
      BY <3>1, FinalRowType
  <2>3. rows' \in [Tasks -> Row]
    BY <1>11, <2>2, UpdateTaskType DEF RunTaskEnds, TypeOK
  <2>4. NoEntry \in Entry
    BY DEF NoEntry, Entry, Kinds
  <2>5. streak' \in [Tasks -> 0..MAX_TASK_FAILURES]
    BY <1>11, SchedulerAssumption DEF RunTaskEnds, TypeOK
  <2>6. recent' \in [Tasks -> Seq({"success", "error", "timeout"})]
    BY <1>11, <2>1 DEF RunTaskEnds, TypeOK, Statuses
  <2>7. entries' \in [Tasks -> Entry]
    BY <1>11, <2>4 DEF RunTaskEnds, TypeOK
  <2> QED
    BY <1>11, <2>3, <2>5, <2>6, <2>7 DEF RunTaskEnds, TypeOK
<1>12. ASSUME NEW t \in Tasks, RunTaskCancelled(t) PROVE TypeOK'
  <2>1. rows' \in [Tasks -> Row]
    BY <1>12 DEF RunTaskCancelled, UpdateTask, TypeOK, Row
  <2>2. NoEntry \in Entry
    BY DEF NoEntry, Entry, Kinds
  <2> QED
    BY <1>12, <2>1, <2>2 DEF RunTaskCancelled, TypeOK
<1>13. CASE Stop
  BY <1>13 DEF Stop, TypeOK
<1>14. CASE Crash
  <2>1. NoEntry \in Entry
    BY DEF NoEntry, Entry, Kinds
  <2> QED
    BY <1>14, <2>1 DEF Crash, TypeOK
<1>15. CASE Restart
  <2>1. rows' \in [Tasks -> Row]
    BY <1>15, RecoveredType DEF Restart, TypeOK
  <2> QED
    BY <1>15, <2>1 DEF Restart, TypeOK
<1>16. CASE UNCHANGED vars
  BY <1>16 DEF vars, TypeOK
<1> QED
  BY <1>1, <1>2, <1>3, <1>4, <1>5, <1>6, <1>7, <1>8, <1>9, <1>10, <1>11, <1>12,
     <1>13, <1>14, <1>15, <1>16 DEF Next

\* Type correctness of the scheduler's tables, run log and process state.
THEOREM TypeCorrect == Spec => []TypeOK
<1>1. Init => TypeOK
  BY TypeInit
<1>2. TypeOK /\ [Next]_vars => TypeOK'
  BY TypeNext
<1> QED
  BY <1>1, <1>2, PTL DEF Spec

-----------------------------------------------------------------------------
(* RunningIsBacked is inductive relative to the type invariant. *)

\* No row is running at first.
LEMMA BackedInit == Init => RunningIsBacked
BY DEF Init, RunningIsBacked, NewRow

\* A run that leaves the queue, by its end or a back-off, leaves no row in
\* status 'running' behind.
LEMMA EntryGone ==
    ASSUME TypeOK, RunningIsBacked, NEW t \in Tasks, NEW row \in Row,
           row.status # "running",
           UpdateTask(t, row), entries' = [entries EXCEPT ![t] = NoEntry], host' = host
    PROVE  RunningIsBacked'
<1> SUFFICES ASSUME NEW u \in Tasks, rows'[u].status = "running"
             PROVE  host' = "down" \/ entries'[u].state = "running"
  BY DEF RunningIsBacked
<1>1. u # t
  BY DEF UpdateTask, Exists, TypeOK
<1>2. rows'[u] = rows[u] /\ entries'[u] = entries[u]
  BY <1>1 DEF UpdateTask, TypeOK
<1> QED
  BY <1>2 DEF RunningIsBacked

\* Every step keeps an entry of the queue behind each running row.
LEMMA BackedNext ==
    TypeOK /\ RunningIsBacked /\ [Next]_vars => RunningIsBacked'
<1> SUFFICES ASSUME TypeOK, RunningIsBacked, [Next]_vars PROVE RunningIsBacked'
  OBVIOUS
<1> USE DEF dbVars, loopVars, historyVars
<1>1. ASSUME NEW t \in Tasks, ScheduleTask(t) PROVE RunningIsBacked'
  BY <1>1 DEF ScheduleTask, RunningIsBacked, TypeOK, Row
<1>2. ASSUME NEW t \in Tasks, PauseTask(t) PROVE RunningIsBacked'
  BY <1>2 DEF PauseTask, RunningIsBacked, TypeOK, Row
<1>3. ASSUME NEW t \in Tasks, ResumeTask(t) PROVE RunningIsBacked'
  BY <1>3 DEF ResumeTask, RunningIsBacked, TypeOK, Row
<1>4. ASSUME NEW t \in Tasks, CancelTask(t) PROVE RunningIsBacked'
  BY <1>4 DEF CancelTask, NoRow, RunningIsBacked, TypeOK, Row
<1>5. ASSUME NEW t \in Tasks, ChangeSchedule(t) PROVE RunningIsBacked'
  BY <1>5 DEF ChangeSchedule, RunningIsBacked, TypeOK, Row
<1>6. ASSUME NEW t \in Tasks, TimePasses(t) PROVE RunningIsBacked'
  BY <1>6 DEF TimePasses, RunningIsBacked, TypeOK, Row
<1>7. CASE PollReads
  BY <1>7 DEF PollReads, RunningIsBacked
<1>8. ASSUME NEW refused \in SUBSET Tasks, PollEnqueues(refused) PROVE RunningIsBacked'
  BY <1>8 DEF PollEnqueues, RunningIsBacked, TypeOK
<1>9. ASSUME NEW t \in Tasks, RunTaskWithoutGroup(t) PROVE RunningIsBacked'
  <2> DEFINE row == [rows[t] EXCEPT !.next_run = "future"]
  <2>1. row \in Row /\ row.status = rows[t].status
    BY DEF TypeOK, Row
  <2>2. rows[t].status # "running"
    BY <1>9 DEF RunTaskWithoutGroup, RunningIsBacked
  <2> QED
    BY <1>9, <2>1, <2>2, EntryGone DEF RunTaskWithoutGroup
<1>10. ASSUME NEW t \in Tasks, RunTaskBegins(t) PROVE RunningIsBacked'
  <2> SUFFICES ASSUME NEW u \in Tasks, rows'[u].status = "running"
               PROVE  host' = "down" \/ entries'[u].state = "running"
    BY DEF RunningIsBacked
  <2>1. CASE u = t
    BY <1>10, <2>1 DEF RunTaskBegins, TypeOK, Entry
  <2>2. CASE u # t
    BY <1>10, <2>2 DEF RunTaskBegins, UpdateTask, TypeOK, RunningIsBacked
  <2> QED
    BY <2>1, <2>2
<1>11. ASSUME NEW t \in Tasks, NEW o \in Outcomes, RunTaskEnds(t, o) PROVE RunningIsBacked'
  <2> DEFINE row == FinalRow(entries[t].kind, o, Logged(recent[t], LogOf(o)), rows[t])
  <2>1. entries[t].kind \in Kinds /\ rows[t] \in Row
    BY DEF TypeOK, Entry
  <2>2. row \in Row /\ row.status # "running"
    BY <2>1, FinalRowType
  <2>3. UpdateTask(t, row) /\ entries' = [entries EXCEPT ![t] = NoEntry] /\ host' = host
    BY <1>11 DEF RunTaskEnds
  <2> HIDE DEF row
  <2> QED
    BY <2>2, <2>3, EntryGone
<1>12. ASSUME NEW t \in Tasks, RunTaskCancelled(t) PROVE RunningIsBacked'
  <2> DEFINE row == [rows[t] EXCEPT
                        !.status = IF entries[t].kind = "once" THEN "active" ELSE "paused",
                        !.next_run = "none"]
  <2>1. row \in Row /\ row.status # "running"
    BY DEF TypeOK, Row
  <2>2. UpdateTask(t, row) /\ entries' = [entries EXCEPT ![t] = NoEntry] /\ host' = host
    BY <1>12 DEF RunTaskCancelled
  <2> HIDE DEF row
  <2> QED
    BY <2>1, <2>2, EntryGone
<1>13. CASE Stop
  BY <1>13 DEF Stop, RunningIsBacked
<1>14. CASE Crash
  BY <1>14 DEF Crash, RunningIsBacked
<1>15. CASE Restart
  BY <1>15, RecoveredType DEF Restart, RunningIsBacked, TypeOK
<1>16. CASE UNCHANGED vars
  BY <1>16 DEF vars, RunningIsBacked
<1> QED
  BY <1>1, <1>2, <1>3, <1>4, <1>5, <1>6, <1>7, <1>8, <1>9, <1>10, <1>11, <1>12,
     <1>13, <1>14, <1>15, <1>16 DEF Next

\* However runs end, the host crashes, stops and restarts, and operators
\* pause, change or cancel tasks, a row in status 'running' has a run behind
\* it or is about to be recovered by the next start.
THEOREM RunningBacked == Spec => []RunningIsBacked
<1>1. Init => RunningIsBacked
  BY BackedInit
<1>2. TypeOK /\ RunningIsBacked /\ [Next]_vars => RunningIsBacked'
  BY BackedNext
<1> QED
  BY <1>1, <1>2, TypeCorrect, PTL DEF Spec

-----------------------------------------------------------------------------
(* A task at rest that an operator pauses stays at rest.  The table could     *)
(* bring it back only as a row not created yet, which a paused one never is.  *)

HeldInv == PauseHolds /\ \A t \in held : ~Fresh(t)

\* Nothing is paused at first.
LEMMA HeldInit == Init => HeldInv
BY DEF Init, HeldInv, PauseHolds

\* Every step keeps what a pause holds back.
LEMMA HeldNext == TypeOK /\ HeldInv /\ [Next]_vars => HeldInv'
<1> SUFFICES ASSUME TypeOK, HeldInv, [Next]_vars PROVE HeldInv'
  OBVIOUS
<1> USE DEF HeldInv, PauseHolds, AtRest, Fresh
<1>1. ASSUME NEW t \in Tasks, ScheduleTask(t) PROVE HeldInv'
  BY <1>1 DEF ScheduleTask, TypeOK, loopVars, historyVars
<1>2. ASSUME NEW t \in Tasks, PauseTask(t) PROVE HeldInv'
  BY <1>2 DEF PauseTask, Exists, TypeOK, loopVars
<1>3. ASSUME NEW t \in Tasks, ResumeTask(t) PROVE HeldInv'
  BY <1>3 DEF ResumeTask, TypeOK, loopVars
<1>4. ASSUME NEW t \in Tasks, CancelTask(t) PROVE HeldInv'
  BY <1>4 DEF CancelTask, NoRow, TypeOK, loopVars, historyVars
<1>5. ASSUME NEW t \in Tasks, ChangeSchedule(t) PROVE HeldInv'
  BY <1>5 DEF ChangeSchedule, Exists, TypeOK, loopVars, historyVars
<1>6. ASSUME NEW t \in Tasks, TimePasses(t) PROVE HeldInv'
  BY <1>6 DEF TimePasses, Exists, TypeOK, loopVars, historyVars
<1>7. CASE PollReads
  BY <1>7 DEF PollReads, Due, TypeOK, dbVars, historyVars
<1>8. ASSUME NEW refused \in SUBSET Tasks, PollEnqueues(refused) PROVE HeldInv'
  BY <1>8 DEF PollEnqueues, TypeOK, dbVars, historyVars
<1>9. ASSUME NEW t \in Tasks, RunTaskWithoutGroup(t) PROVE HeldInv'
  BY <1>9 DEF RunTaskWithoutGroup, UpdateTask, TypeOK, loopVars, historyVars
<1>10. ASSUME NEW t \in Tasks, RunTaskBegins(t) PROVE HeldInv'
  BY <1>10 DEF RunTaskBegins, UpdateTask, TypeOK, loopVars
<1>11. ASSUME NEW t \in Tasks, NEW o \in Outcomes, RunTaskEnds(t, o) PROVE HeldInv'
  BY <1>11 DEF RunTaskEnds, UpdateTask, TypeOK, loopVars
<1>12. ASSUME NEW t \in Tasks, RunTaskCancelled(t) PROVE HeldInv'
  BY <1>12 DEF RunTaskCancelled, UpdateTask, TypeOK, loopVars, historyVars
<1>13. CASE Stop
  BY <1>13 DEF Stop, dbVars, historyVars
<1>14. CASE Crash
  BY <1>14 DEF Crash, NoEntry, TypeOK, dbVars, historyVars
<1>15. CASE Restart
  BY <1>15 DEF Restart, Recovered, TypeOK, historyVars
<1>16. CASE UNCHANGED vars
  BY <1>16 DEF vars
<1> QED
  BY <1>1, <1>2, <1>3, <1>4, <1>5, <1>6, <1>7, <1>8, <1>9, <1>10, <1>11, <1>12,
     <1>13, <1>14, <1>15, <1>16 DEF Next

\* A task that is paused while no run of it is queued, under way or read by
\* the poll gets no run until it is resumed, whatever polls, schedule changes,
\* crashes and recoveries come in between.
THEOREM PauseKept == Spec => []PauseHolds
<1>1. Init => HeldInv
  BY HeldInit
<1>2. TypeOK /\ HeldInv /\ [Next]_vars => HeldInv'
  BY HeldNext
<1>3. HeldInv => PauseHolds
  BY DEF HeldInv
<1> QED
  BY <1>1, <1>2, <1>3, TypeCorrect, PTL DEF Spec

-----------------------------------------------------------------------------
(* A task with a valid schedule that nobody changes keeps its next run, while *)
(* the host is not stopped by a signal.  The queue's entry and the poll's     *)
(* snapshot have the kind of the row they were read from, a run under way has *)
(* been counted, and a row in the table that may still run has a time for it. *)

TaskKept(t) ==
    /\ rows[t].kind \in {"once", "recurring"}
    /\ entries[t].state # "none" => entries[t].kind = rows[t].kind
    /\ entries[t].state = "running" => t \in ran
    /\ \A d \in snapshot : d.task = t => d.kind = rows[t].kind
    /\ Exists(t) /\ (rows[t].kind = "recurring" \/ t \notin ran) => rows[t].next_run # "none"

AllKept == \A t \in Tasks : TaskKept(t)

\* The invariant says more than the two properties.
LEMMA KeptEnough == AllKept => RecurringStaysScheduled /\ OnceNotForgotten
BY DEF AllKept, TaskKept, Exists, RecurringStaysScheduled, OnceNotForgotten

\* A step on one task's row, and perhaps its entry, that keeps the row's kind and leaves
\* it a next run if it needs one.
LEMMA RowMoves ==
    ASSUME TypeOK, AllKept, NEW t \in Tasks, NEW row \in Row,
           rows' = [rows EXCEPT ![t] = row],
           row.kind = rows[t].kind,
           row.status # "absent" /\ (row.kind = "recurring" \/ t \notin ran') => row.next_run # "none",
           NEW entry \in Entry, entries' = [entries EXCEPT ![t] = entry],
           entry.state # "none" => entry.kind = rows[t].kind,
           entry.state = "running" => t \in ran',
           ran \subseteq ran', snapshot' = snapshot
    PROVE  AllKept'
<1> SUFFICES ASSUME NEW u \in Tasks PROVE TaskKept(u)'
  BY DEF AllKept
<1>1. TaskKept(u)
  BY DEF AllKept
<1>2. CASE u = t
  <2>1. rows'[u] = row /\ entries'[u] = entry
    BY <1>2 DEF TypeOK
  <2> QED
    BY <1>1, <1>2, <2>1 DEF TaskKept, Exists
<1>3. CASE u # t
  <2>1. rows'[u] = rows[u] /\ entries'[u] = entries[u]
    BY <1>3 DEF TypeOK
  <2> QED
    BY <1>1, <2>1 DEF TaskKept, Exists
<1> QED
  BY <1>2, <1>3

\* The same through UpdateTask, which does nothing to a row that is gone.
LEMMA UpdateMoves ==
    ASSUME TypeOK, AllKept, NEW t \in Tasks, NEW row \in Row, UpdateTask(t, row),
           row.kind = rows[t].kind,
           row.kind = "recurring" \/ t \notin ran' => row.next_run # "none",
           NEW entry \in Entry, entries' = [entries EXCEPT ![t] = entry],
           entry.state # "none" => entry.kind = rows[t].kind,
           entry.state = "running" => t \in ran',
           ran \subseteq ran', snapshot' = snapshot
    PROVE  AllKept'
<1>1. CASE Exists(t)
  BY <1>1, RowMoves DEF UpdateTask
<1>2. CASE ~Exists(t)
  <2>1. rows' = [rows EXCEPT ![t] = rows[t]]
    BY <1>2 DEF UpdateTask, TypeOK
  <2>2. rows[t] \in Row /\ rows[t].status = "absent"
    BY <1>2 DEF TypeOK, Exists
  <2> QED
    BY <2>1, <2>2, RowMoves
<1> QED
  BY <1>1, <1>2

\* Tasks that have not been created have their next runs.
LEMMA KeptInit ==
    Init /\ (\A t \in Tasks : rows[t].kind \in {"once", "recurring"}) => AllKept
BY DEF Init, AllKept, TaskKept, Exists, NewRow, NoEntry

\* The steps on a task itself: created, paused, resumed, cancelled, its time come.
LEMMA KeptOperations ==
    ASSUME TypeOK, AllKept, NEW t \in Tasks,
           ScheduleTask(t) \/ PauseTask(t) \/ ResumeTask(t) \/ CancelTask(t) \/ TimePasses(t)
    PROVE  AllKept'
<1> USE DEF loopVars, historyVars
<1>1. /\ rows[t] \in Row /\ entries[t] \in Entry /\ TaskKept(t)
      /\ entries = [entries EXCEPT ![t] = entries[t]]
  BY DEF TypeOK, AllKept
<1>2. CASE ScheduleTask(t)
  <2>1. PICK n \in FirstRun(rows[t].kind) :
            rows' = [rows EXCEPT ![t].status = "active", ![t].next_run = n]
    BY <1>2 DEF ScheduleTask
  <2>2. n \in {"future", "past"}
    BY <1>1, <2>1 DEF TaskKept, FirstRun
  <2> DEFINE row == [rows[t] EXCEPT !.status = "active", !.next_run = n]
  <2>3. row \in Row /\ row.kind = rows[t].kind /\ row.next_run # "none"
    BY <1>1, <2>2 DEF Row
  <2>4. rows' = [rows EXCEPT ![t] = row]
    BY <2>1 DEF TypeOK, Row
  <2>5. UNCHANGED <<entries, ran, snapshot>>
    BY <1>2 DEF ScheduleTask
  <2> HIDE DEF row
  <2> QED
    BY <1>1, <2>3, <2>4, <2>5, RowMoves DEF TaskKept
<1>3. CASE PauseTask(t) \/ ResumeTask(t)
  <2>1. PICK s \in {"paused", "active"} : rows' = [rows EXCEPT ![t].status = s]
    BY <1>3 DEF PauseTask, ResumeTask
  <2> DEFINE row == [rows[t] EXCEPT !.status = s]
  <2>2. row \in Row /\ row.kind = rows[t].kind /\ row.next_run = rows[t].next_run
    BY <1>1 DEF Row
  <2>3. rows' = [rows EXCEPT ![t] = row]
    BY <2>1 DEF TypeOK, Row
  <2>4. UNCHANGED <<entries, ran, snapshot>> /\ Exists(t)
    BY <1>3 DEF PauseTask, ResumeTask
  <2> HIDE DEF row
  <2> QED
    BY <1>1, <2>2, <2>3, <2>4, RowMoves DEF TaskKept
<1>4. CASE CancelTask(t)
  <2>1. NoRow(rows[t].kind) \in Row /\ NoRow(rows[t].kind).kind = rows[t].kind
        /\ NoRow(rows[t].kind).status = "absent"
    BY <1>1 DEF NoRow, Row
  <2>2. UNCHANGED <<entries, ran, snapshot>>
    BY <1>4 DEF CancelTask
  <2> QED
    BY <1>1, <1>4, <2>1, <2>2, RowMoves DEF CancelTask, TaskKept
<1>5. CASE TimePasses(t)
  <2> DEFINE row == [rows[t] EXCEPT !.next_run = "past"]
  <2>1. row \in Row /\ row.kind = rows[t].kind /\ row.next_run = "past"
    BY <1>1 DEF Row
  <2>2. rows' = [rows EXCEPT ![t] = row]
    BY <1>5 DEF TimePasses, TypeOK, Row
  <2>3. UNCHANGED <<entries, ran, snapshot>>
    BY <1>5 DEF TimePasses
  <2> HIDE DEF row
  <2> QED
    BY <1>1, <2>1, <2>2, <2>3, RowMoves DEF TaskKept
<1> QED
  BY <1>2, <1>3, <1>4, <1>5

\* The steps of a run: an hour's back-off, its begin, its end.
LEMMA KeptRuns ==
    ASSUME TypeOK, AllKept, NEW t \in Tasks, NEW o \in RunOutcomes,
           RunTaskWithoutGroup(t) \/ RunTaskBegins(t) \/ RunTaskEnds(t, o)
    PROVE  AllKept'
<1> USE DEF loopVars, historyVars
<1>1. rows[t] \in Row /\ entries[t] \in Entry /\ TaskKept(t)
  BY DEF TypeOK, AllKept
<1>2. NoEntry \in Entry /\ NoEntry.state = "none"
  BY DEF NoEntry, Entry, Kinds
<1>3. CASE RunTaskWithoutGroup(t)
  <2> DEFINE row == [rows[t] EXCEPT !.next_run = "future"]
  <2>1. row \in Row /\ row.kind = rows[t].kind /\ row.next_run = "future"
    BY <1>1 DEF Row
  <2>2. UpdateTask(t, row) /\ entries' = [entries EXCEPT ![t] = NoEntry]
        /\ UNCHANGED <<ran, snapshot>>
    BY <1>3 DEF RunTaskWithoutGroup
  <2> HIDE DEF row
  <2> QED
    BY <1>2, <2>1, <2>2, UpdateMoves
<1>4. CASE RunTaskBegins(t)
  <2> DEFINE row == [rows[t] EXCEPT !.status = "running"]
             entry == [entries[t] EXCEPT !.state = "running"]
  <2>1. row \in Row /\ row.kind = rows[t].kind /\ row.status = "running"
        /\ row.next_run = rows[t].next_run
    BY <1>1 DEF Row
  <2>2. entry \in Entry /\ entry.kind = rows[t].kind /\ entry.state = "running"
    BY <1>1, <1>4 DEF Entry, RunTaskBegins, TaskKept
  <2>3. entries' = [entries EXCEPT ![t] = entry]
    BY <1>4 DEF RunTaskBegins, TypeOK, Entry
  <2>4. UpdateTask(t, row) /\ ran' = ran \cup {t} /\ snapshot' = snapshot
    BY <1>4 DEF RunTaskBegins
  <2> HIDE DEF row, entry
  <2>5. CASE Exists(t)
    <3>1. row.kind = "recurring" \/ t \notin ran' => row.next_run # "none"
      BY <1>1, <2>1, <2>4, <2>5 DEF TaskKept
    <3> QED
      BY <2>1, <2>2, <2>3, <2>4, <3>1, UpdateMoves
  <2>6. CASE ~Exists(t)
    <3>1. rows' = [rows EXCEPT ![t] = rows[t]] /\ rows[t].status = "absent"
      BY <2>4, <2>6 DEF UpdateTask, TypeOK, Exists
    <3> QED
      BY <1>1, <2>2, <2>3, <2>4, <3>1, RowMoves
  <2> QED
    BY <2>5, <2>6
<1>5. CASE RunTaskEnds(t, o)
  <2>1. entries[t].kind = rows[t].kind /\ t \in ran /\ rows[t].kind \in {"once", "recurring"}
    BY <1>1, <1>5 DEF RunTaskEnds, TaskKept
  <2> DEFINE log == Logged(recent[t], LogOf(o))
             row == FinalRow(entries[t].kind, o, log, rows[t])
  <2>2. row \in Row
    BY <1>1, FinalRowType DEF Entry
  <2> HIDE DEF log
  <2>3. row.kind = rows[t].kind /\ (row.kind = "recurring" => row.next_run = "future")
    BY <1>1, <2>1 DEF FinalRow, NextRunAfter, Row
  <2>4. UpdateTask(t, row) /\ entries' = [entries EXCEPT ![t] = NoEntry]
        /\ UNCHANGED <<ran, snapshot>>
    BY <1>5 DEF RunTaskEnds, log
  <2> HIDE DEF row
  <2> QED
    BY <1>2, <2>1, <2>2, <2>3, <2>4, UpdateMoves
<1> QED
  BY <1>3, <1>4, <1>5

\* The steps of the poll and of the host.
LEMMA KeptLoop ==
    ASSUME TypeOK, AllKept,
           \/ PollReads \/ \E refused \in SUBSET Tasks : PollEnqueues(refused)
           \/ Crash \/ Restart \/ UNCHANGED vars
    PROVE  AllKept'
<1> USE DEF dbVars, loopVars, historyVars
<1> SUFFICES ASSUME NEW u \in Tasks PROVE TaskKept(u)'
  BY DEF AllKept
<1>1. TaskKept(u) /\ rows[u] \in Row /\ entries[u] \in Entry
  BY DEF AllKept, TypeOK
<1>2. CASE PollReads
  <2>1. \A d \in snapshot' : d.kind = rows[d.task].kind
    BY <1>2 DEF PollReads
  <2>2. UNCHANGED <<rows, entries, ran>>
    BY <1>2 DEF PollReads
  <2> QED
    BY <1>1, <2>1, <2>2 DEF TaskKept, Exists
<1>3. ASSUME NEW refused \in SUBSET Tasks, PollEnqueues(refused) PROVE TaskKept(u)'
  <2>1. UNCHANGED <<rows, ran>> /\ snapshot' = {}
    BY <1>3 DEF PollEnqueues
  <2>2. CASE entries'[u] = entries[u]
    BY <1>1, <2>1, <2>2 DEF TaskKept, Exists
  <2>3. CASE entries'[u] # entries[u]
    <3>1. /\ \E d \in snapshot : d.task = u
          /\ entries'[u] = [state |-> "queued", kind |-> (CHOOSE d \in snapshot : d.task = u).kind]
      BY <1>3, <2>3 DEF PollEnqueues
    <3>2. PICK d \in snapshot : d = (CHOOSE e \in snapshot : e.task = u) /\ d.task = u
      BY <3>1
    <3>3. d.kind = rows[u].kind
      BY <1>1, <3>2 DEF TaskKept
    <3>4. entries'[u].state = "queued" /\ entries'[u].kind = rows[u].kind
      BY <3>1, <3>2, <3>3
    <3> QED
      BY <1>1, <2>1, <3>4 DEF TaskKept, Exists
  <2> QED
    BY <2>2, <2>3
<1>4. CASE Crash
  BY <1>1, <1>4 DEF Crash, NoEntry, TaskKept, Exists
<1>5. CASE Restart
  <2>1. rows'[u] = Recovered(rows[u]) /\ UNCHANGED <<entries, ran, snapshot>>
    BY <1>5 DEF Restart
  <2>2. /\ Recovered(rows[u]).kind = rows[u].kind
        /\ Recovered(rows[u]).status = "absent" <=> rows[u].status = "absent"
        /\ Recovered(rows[u]).next_run \in {rows[u].next_run, "future"}
    BY <1>1 DEF Recovered, NextRunAfter, TaskKept, Row
  <2> QED
    BY <1>1, <2>1, <2>2 DEF TaskKept, Exists
<1>6. CASE UNCHANGED vars
  BY <1>1, <1>6 DEF vars, TaskKept, Exists
<1> QED
  BY <1>2, <1>3, <1>4, <1>5, <1>6

\* However polls, runs of every outcome, back-offs, pauses, resumptions, cancellations,
\* crashes and recoveries interleave: if every schedule is valid, none is changed and no
\* signal stops the host, a recurring task that is active has a next run, and a single
\* run is due until it has been made.  (The three hypotheses are needed: update_task
\* under a run, an invalid schedule and the finally block under CancelledError each
\* leave an active task without a next run.)
THEOREM NextRunsKept ==
    ASSUME NewKinds \subseteq {"once", "recurring"}, UpdateKinds = {}, ~GracefulStops
    PROVE  Spec => [](RecurringStaysScheduled /\ OnceNotForgotten)
<1> DEFINE KeptInv == AllKept /\ host # "stopping"
<1>1. Init => KeptInv
  <2>1. Init => \A t \in Tasks : rows[t].kind \in {"once", "recurring"}
    BY DEF Init, NewRow
  <2> QED
    BY <2>1, KeptInit DEF Init
<1>2. TypeOK /\ KeptInv /\ [Next]_vars => KeptInv'
  <2> SUFFICES ASSUME TypeOK, AllKept, host # "stopping", [Next]_vars PROVE KeptInv'
    OBVIOUS
  <2>1. host' # "stopping"
    BY DEF Next, vars, ScheduleTask, PauseTask, ResumeTask, CancelTask, ChangeSchedule,
           TimePasses, PollReads, PollEnqueues, RunTaskWithoutGroup, RunTaskBegins,
           RunTaskEnds, RunTaskCancelled, Stop, Crash, Restart, loopVars
  <2>2. AllKept'
    <3>1. ASSUME NEW t \in Tasks,
                 \/ ScheduleTask(t) \/ PauseTask(t) \/ ResumeTask(t) \/ CancelTask(t)
                 \/ TimePasses(t)
          PROVE  AllKept'
      BY <3>1, KeptOperations
    <3>2. ASSUME NEW t \in Tasks, NEW o \in Outcomes, RunTaskEnds(t, o) PROVE AllKept'
      BY <3>2, SchedulerAssumption, KeptRuns
    <3>3. ASSUME NEW t \in Tasks, RunTaskWithoutGroup(t) \/ RunTaskBegins(t) PROVE AllKept'
      <4>1. "success" \in RunOutcomes
        BY DEF RunOutcomes
      <4> QED
        BY <3>3, <4>1, KeptRuns
    <3>4. ASSUME NEW t \in Tasks PROVE ~ChangeSchedule(t) /\ ~RunTaskCancelled(t) /\ ~Stop
      BY DEF ChangeSchedule, RunTaskCancelled, Stop
    <3> HIDE DEF KeptInv
    <3>5. CASE \/ PollReads \/ \E refused \in SUBSET Tasks : PollEnqueues(refused)
               \/ Crash \/ Restart \/ UNCHANGED vars
      BY <3>5, KeptLoop
    <3>6. CASE Stop
      BY <3>6 DEF Stop
    <3> QED
      BY <3>1, <3>2, <3>3, <3>4, <3>5, <3>6 DEF Next
  <2> QED
    BY <2>1, <2>2
<1>3. KeptInv => RecurringStaysScheduled /\ OnceNotForgotten
  BY KeptEnough
<1> HIDE DEF KeptInv
<1> QED
  BY <1>1, <1>2, <1>3, TypeCorrect, PTL DEF Spec

-----------------------------------------------------------------------------
(* The same of the two scenarios that are model-checked together.             *)

ScenarioInv == TypeOK /\ (scenario = "two" => AllKept)

\* Both scenarios take steps of the specification, and the first only steps that keep
\* the schedules.
LEMMA ScenarioNext == ScenarioInv /\ [MCNext]_<<vars, scenario>> => ScenarioInv'
<1> SUFFICES ASSUME ScenarioInv, [MCNext]_<<vars, scenario>> PROVE ScenarioInv'
  OBVIOUS
<1>1. TypeOK
  BY DEF ScenarioInv
<1>2. CASE scenario = "two" /\ TwoTasks /\ UNCHANGED scenario
  <2>1. [Next]_vars
    BY <1>2, ScenarioAssumption DEF TwoTasks, Next
  <2>2. AllKept
    BY <1>2 DEF ScenarioInv
  <2>3. ASSUME NEW t \in Tasks,
               \/ ScheduleTask(t) \/ PauseTask(t) \/ ResumeTask(t) \/ CancelTask(t)
               \/ TimePasses(t)
        PROVE  AllKept'
    BY <1>1, <2>2, <2>3, KeptOperations
  <2>4. ASSUME NEW t \in Tasks, NEW o \in {"success", "timeout"},
               RunTaskWithoutGroup(t) \/ RunTaskBegins(t) \/ RunTaskEnds(t, o)
        PROVE  AllKept'
    <3>1. o \in RunOutcomes
      BY DEF RunOutcomes
    <3> QED
      BY <1>1, <2>2, <2>4, <3>1, KeptRuns
  <2>5. ASSUME \/ PollReads \/ \E refused \in SUBSET Tasks : PollEnqueues(refused)
               \/ Crash \/ Restart
        PROVE  AllKept'
    BY <1>1, <2>2, <2>5, KeptLoop
  <2>6. AllKept'
    BY <1>2, <2>3, <2>4, <2>5 DEF TwoTasks
  <2> QED
    BY <1>1, <2>1, <2>6, TypeNext DEF ScenarioInv
<1>3. CASE scenario = "one" /\ OneTask /\ UNCHANGED scenario
  <2>1. [Next]_vars
    BY <1>3 DEF OneTask
  <2> QED
    BY <1>1, <1>3, <2>1, TypeNext DEF ScenarioInv
<1>4. CASE UNCHANGED <<vars, scenario>>
  <2>1. UNCHANGED vars /\ UNCHANGED scenario
    BY <1>4
  <2>2. TypeOK'
    BY <1>1, <2>1, TypeNext
  <2>3. AllKept => AllKept'
    BY <1>1, <2>1, KeptLoop
  <2> QED
    BY <2>1, <2>2, <2>3 DEF ScenarioInv
<1> QED
  BY <1>2, <1>3, <1>4 DEF MCNext

\* In the scenario with valid schedules no step makes a task lose its next run; in both
\* the tables keep their types.
THEOREM SchedulesKept == MCSpec => []ScheduleKept
<1>1. MCInit => ScenarioInv
  BY TypeInit, KeptInit DEF MCInit, ScenarioInv
<1>2. ScenarioInv /\ [MCNext]_<<vars, scenario>> => ScenarioInv'
  BY ScenarioNext
<1>3. ScenarioInv => ScheduleKept
  BY KeptEnough DEF ScenarioInv, ScheduleKept
<1> QED
  BY <1>1, <1>2, <1>3, PTL DEF MCSpec

-----------------------------------------------------------------------------
(* The failure limit.  The failures that task_run_logs begins with, newest      *)
(* first, are as many as there have been in a row, up to the limit.            *)

Failure(status) == status \in {"error", "timeout"}

\* log begins with exactly n failures.
Leading(log, n) ==
    /\ n \in 0..Len(log)
    /\ \A i \in 1..n : Failure(log[i])
    /\ n = Len(log) \/ ~Failure(log[n + 1])

\* There is one such number, and the query counts it.
LEMMA LeadingCounted ==
    ASSUME NEW log \in Seq(Statuses), NEW n, Leading(log, n)
    PROVE  CountRecentFailures(log) = n
<1>1. Len(log) \in Nat
  OBVIOUS
<1>2. ASSUME NEW m, Leading(log, m) PROVE m = n
  <2>1. ASSUME m < n PROVE FALSE
    <3>1. m + 1 \in 1..n /\ m # Len(log)
      BY <1>1, <1>2, <2>1 DEF Leading
    <3> QED
      BY <1>2, <3>1 DEF Leading
  <2>2. ASSUME n < m PROVE FALSE
    <3>1. n + 1 \in 1..m /\ n # Len(log)
      BY <1>1, <1>2, <2>2 DEF Leading
    <3> QED
      BY <1>2, <3>1 DEF Leading
  <2> QED
    BY <1>1, <1>2, <2>1, <2>2 DEF Leading
<1> DEFINE c == CHOOSE m \in 0..Len(log) :
                    /\ \A i \in 1..m : Failure(log[i])
                    /\ m = Len(log) \/ ~Failure(log[m + 1])
<1>3. Leading(log, c)
  BY DEF Leading
<1>4. CountRecentFailures(log) = c
  BY DEF CountRecentFailures, Failure
<1> HIDE DEF c
<1> QED
  BY <1>2, <1>3, <1>4

\* What logging one run does to the number: none after a success, else one more.
LEMMA LeadingLogged ==
    ASSUME NEW log \in Seq(Statuses), Len(log) <= MAX_TASK_FAILURES, NEW n, Leading(log, n),
           NEW o \in {"success", "timeout"}
    PROVE  /\ Len(Logged(log, LogOf(o))) <= MAX_TASK_FAILURES
           /\ Leading(Logged(log, LogOf(o)),
                      IF o = "success" THEN 0 ELSE IF n = MAX_TASK_FAILURES THEN n ELSE n + 1)
<1> DEFINE all == <<o>> \o log
           len == IF Len(all) < MAX_TASK_FAILURES THEN Len(all) ELSE MAX_TASK_FAILURES
           new == SubSeq(all, 1, len)
<1>1. MAX_TASK_FAILURES \in Nat /\ MAX_TASK_FAILURES > 0 /\ Len(log) \in Nat /\ n \in 0..Len(log)
  BY SchedulerAssumption DEF Leading
<1>2. LogOf(o) = <<o>> /\ o \in Statuses
  BY DEF LogOf, Statuses
<1>3. /\ all \in Seq(Statuses) /\ Len(all) = Len(log) + 1 /\ all[1] = o
      /\ \A i \in 1..Len(log) : all[i + 1] = log[i]
  BY <1>2
<1>4. Logged(log, LogOf(o)) = new
  BY <1>2 DEF Logged
<1> HIDE DEF all
<1>5. len \in 1..MAX_TASK_FAILURES /\ len <= Len(all) /\ (len < MAX_TASK_FAILURES => len = Len(log) + 1)
  BY <1>1, <1>3
<1> HIDE DEF len
<1>6. new \in Seq(Statuses) /\ Len(new) = len /\ \A i \in 1..len : new[i] = all[i]
  BY <1>1, <1>3, <1>5
<1> HIDE DEF new
<1>7. new[1] = o /\ \A i \in 1..Len(log) : i + 1 <= len => new[i + 1] = log[i]
  BY <1>1, <1>3, <1>5, <1>6
<1>8. CASE o = "success"
  <2>1. Leading(new, 0)
    BY <1>5, <1>6, <1>7, <1>8 DEF Leading, Failure
  <2> QED
    BY <1>4, <1>5, <1>6, <1>8, <2>1
<1>9. CASE o = "timeout"
  <2> DEFINE m == IF n = MAX_TASK_FAILURES THEN n ELSE n + 1
  <2>1. m \in 1..len /\ m <= n + 1
    BY <1>1, <1>3, <1>5
  <2>2. ASSUME NEW i \in 1..m PROVE Failure(new[i])
    <3>1. CASE i = 1
      BY <1>7, <1>9, <3>1 DEF Failure
    <3>2. CASE i # 1
      <4>1. i - 1 \in 1..n /\ i - 1 \in 1..Len(log) /\ (i - 1) + 1 = i /\ i <= len
        BY <1>1, <1>5, <2>1, <3>2
      <4> QED
        BY <1>7, <4>1 DEF Leading
    <3> QED
      BY <3>1, <3>2
  <2>3. m = len \/ ~Failure(new[m + 1])
    <3> SUFFICES ASSUME m # len PROVE ~Failure(new[m + 1])
      OBVIOUS
    <3>1. m < len /\ m = n + 1 /\ n < Len(log)
      BY <1>1, <1>3, <1>5, <2>1
    <3>2. n + 1 \in 1..Len(log) /\ (n + 1) + 1 <= len /\ n # Len(log)
      BY <1>1, <1>5, <3>1
    <3>3. new[(n + 1) + 1] = log[n + 1]
      BY <1>7, <3>2
    <3> QED
      BY <3>1, <3>2, <3>3 DEF Leading
  <2> HIDE DEF m
  <2>4. Leading(new, m)
    BY <1>5, <1>6, <2>1, <2>2, <2>3 DEF Leading
  <2> QED
    BY <1>4, <1>5, <1>6, <1>9, <2>4 DEF m
<1> QED
  BY <1>8, <1>9

StreakInv ==
    scenario = "two" =>
        \A t \in Tasks : /\ Len(recent[t]) <= MAX_TASK_FAILURES
                         /\ Leading(recent[t], streak[t])

\* No task has failed at first.
LEMMA StreakInit == MCInit => StreakInv
<1> SUFFICES ASSUME MCInit, NEW t \in Tasks
             PROVE  Len(recent[t]) <= MAX_TASK_FAILURES /\ Leading(recent[t], streak[t])
  BY DEF StreakInv
<1>1. recent[t] = <<>> /\ streak[t] = 0 /\ Len(<<>>) = 0
  BY DEF MCInit, Init
<1> QED
  BY <1>1, SchedulerAssumption DEF Leading

\* Nothing but the end of a run moves the log and the count.
LEMMA LogsRest ==
    ASSUME NEW t \in Tasks, TwoTasks, \A o \in {"success", "timeout"} : ~RunTaskEnds(t, o), TypeOK
    PROVE  recent'[t] = recent[t] /\ streak'[t] = streak[t]
<1>1. CASE \E u \in Tasks, o \in {"success", "timeout"} : RunTaskEnds(u, o)
  <2>1. PICK u \in Tasks, o \in {"success", "timeout"} : RunTaskEnds(u, o)
    BY <1>1
  <2>2. u # t
    BY <2>1
  <2> QED
    BY <2>1, <2>2 DEF RunTaskEnds, TypeOK
<1>2. CASE ~\E u \in Tasks, o \in {"success", "timeout"} : RunTaskEnds(u, o)
  <2>1. UNCHANGED <<recent, streak>>
    BY <1>2 DEF TwoTasks, ScheduleTask, PauseTask, ResumeTask, CancelTask, TimePasses,
                RunTaskWithoutGroup, RunTaskBegins, PollReads, PollEnqueues, Crash, Restart,
                dbVars, historyVars
  <2> QED
    BY <2>1
<1> QED
  BY <1>1, <1>2

\* The log and the count after the end of a run.
LEMMA LogsMove ==
    ASSUME NEW t \in Tasks, NEW o \in {"success", "timeout"}, RunTaskEnds(t, o), TypeOK,
           Len(recent[t]) <= MAX_TASK_FAILURES, Leading(recent[t], streak[t])
    PROVE  /\ recent'[t] = Logged(recent[t], LogOf(o)) /\ recent'[t] \in Seq(Statuses)
           /\ Len(recent'[t]) <= MAX_TASK_FAILURES /\ Leading(recent'[t], streak'[t])
           /\ streak'[t] = IF o = "success" THEN 0
                           ELSE IF streak[t] = MAX_TASK_FAILURES THEN streak[t] ELSE streak[t] + 1
<1>1. recent'[t] = Logged(recent[t], LogOf(o)) /\ recent[t] \in Seq(Statuses)
  BY DEF RunTaskEnds, TypeOK, Statuses
<1>2. streak'[t] = IF o = "success" THEN 0
                   ELSE IF streak[t] = MAX_TASK_FAILURES THEN streak[t] ELSE streak[t] + 1
  BY DEF RunTaskEnds, TypeOK, Failed
<1>3. recent'[t] \in Seq(Statuses)
  <2>1. o \in RunOutcomes
    BY DEF RunOutcomes
  <2> QED
    BY <1>1, <2>1, LogOfType, LoggedType
<1> QED
  BY <1>1, <1>2, <1>3, LeadingLogged

\* Every step keeps the log at its length and the streak of failures at its head.
LEMMA StreakNext ==
    TypeOK /\ StreakInv /\ [MCNext]_<<vars, scenario>> => StreakInv'
<1> SUFFICES ASSUME TypeOK, StreakInv, [MCNext]_<<vars, scenario>>,
                    scenario' = "two", NEW t \in Tasks
             PROVE  (Len(recent[t]) <= MAX_TASK_FAILURES /\ Leading(recent[t], streak[t]))'
  BY DEF StreakInv
<1>1. scenario = "two" /\ (TwoTasks \/ UNCHANGED vars)
  BY DEF MCNext
<1>2. Len(recent[t]) <= MAX_TASK_FAILURES /\ Leading(recent[t], streak[t])
  BY <1>1 DEF StreakInv
<1>3. CASE \E o \in {"success", "timeout"} : RunTaskEnds(t, o)
  BY <1>2, <1>3, LogsMove
<1>4. CASE recent'[t] = recent[t] /\ streak'[t] = streak[t]
  BY <1>2, <1>4 DEF Leading
<1>5. CASE UNCHANGED vars
  BY <1>4, <1>5 DEF vars
<1> QED
  BY <1>1, <1>3, <1>4, <1>5, LogsRest

\* The two halves of the limit at one step.
LEMMA LimitStep ==
    ASSUME TypeOK, StreakInv, [MCNext]_<<vars, scenario>>,
           NEW t \in Tasks, scenario = "two", RunEnds(t), entries[t].kind = "recurring"
    PROVE  /\ streak[t] < streak'[t] /\ streak'[t] = MAX_TASK_FAILURES
                 => rows'[t].status \in {"paused", "absent"}
           /\ rows'[t].status = "paused" => streak'[t] = MAX_TASK_FAILURES
<1>1. PICK o \in {"success", "timeout"} : RunTaskEnds(t, o)
  <2>1. TwoTasks
    <3>1. ~UNCHANGED vars
      BY DEF vars, RunEnds
    <3> QED
      BY <3>1 DEF MCNext
  <2>2. entries'[t] # entries[t] /\ entries[t].state = "running" /\ host' # "down"
        /\ entries'[t].state = "none"
    BY DEF RunEnds
  <2>3. ASSUME NEW u \in Tasks, RunTaskWithoutGroup(u) \/ RunTaskBegins(u) PROVE FALSE
    BY <2>2, <2>3 DEF RunTaskWithoutGroup, RunTaskBegins, TypeOK
  <2>4. ~PollReads /\ ~Crash /\ ~Restart /\ \A refused \in SUBSET Tasks : ~PollEnqueues(refused)
    BY <2>2 DEF PollReads, Crash, Restart, PollEnqueues
  <2>5. \A u \in Tasks : /\ ~ScheduleTask(u) /\ ~PauseTask(u) /\ ~ResumeTask(u)
                         /\ ~CancelTask(u) /\ ~TimePasses(u)
    BY <2>2 DEF ScheduleTask, PauseTask, ResumeTask, CancelTask, TimePasses
  <2>6. PICK u \in Tasks, o \in {"success", "timeout"} : RunTaskEnds(u, o)
    BY <2>1, <2>3, <2>4, <2>5 DEF TwoTasks
  <2>7. u = t
    BY <2>2, <2>6 DEF RunTaskEnds, TypeOK
  <2> QED
    BY <2>6, <2>7
<1>2. Len(recent[t]) <= MAX_TASK_FAILURES /\ Leading(recent[t], streak[t])
  BY DEF StreakInv
<1> DEFINE log == Logged(recent[t], LogOf(o))
<1>3. /\ log \in Seq(Statuses) /\ Leading(log, streak'[t])
      /\ streak'[t] = IF o = "success" THEN 0
                      ELSE IF streak[t] = MAX_TASK_FAILURES THEN streak[t] ELSE streak[t] + 1
  BY <1>1, <1>2, LogsMove
<1>4. CountRecentFailures(log) = streak'[t]
  <2> HIDE DEF log
  <2> QED
    BY <1>3, LeadingCounted
<1>5. streak[t] \in 0..MAX_TASK_FAILURES /\ MAX_TASK_FAILURES \in Nat
  BY SchedulerAssumption DEF TypeOK
<1> HIDE DEF log
<1>6. rows[t] \in Row /\ Raised(o) <=> o = "timeout"
  BY DEF TypeOK, Raised
<1> DEFINE row == FinalRow("recurring", o, log, rows[t])
<1>7. row.status = IF o = "timeout" /\ streak'[t] >= MAX_TASK_FAILURES THEN "paused" ELSE "active"
  BY <1>4, <1>6 DEF FinalRow, NextRunAfter, Row, TypeOK
<1>8. rows'[t].status = IF Exists(t) THEN row.status ELSE "absent"
  BY <1>1 DEF RunTaskEnds, UpdateTask, Exists, TypeOK, log
<1> HIDE DEF row
<1> QED
  BY <1>3, <1>5, <1>7, <1>8

\* A run that completes _MAX_TASK_FAILURES time-outs in a row pauses its task, and a run
\* that ends pauses it only then, whatever was paused, resumed, cancelled or crashed
\* between the runs: the log the query reads counts the failures exactly.
THEOREM PausesExactly == MCSpec => AutoPauses
<1>1. MCInit => ScenarioInv /\ StreakInv
  BY TypeInit, KeptInit, StreakInit DEF MCInit, ScenarioInv
<1>2. ScenarioInv /\ StreakInv /\ [MCNext]_<<vars, scenario>> => (ScenarioInv /\ StreakInv)'
  BY ScenarioNext, StreakNext DEF ScenarioInv
<1>3. ScenarioInv /\ StreakInv /\ [MCNext]_<<vars, scenario>>
        => [\A t \in Tasks :
              (scenario = "two" /\ RunEnds(t) /\ entries[t].kind = "recurring") =>
                  /\ streak[t] < streak'[t] /\ streak'[t] = MAX_TASK_FAILURES
                        => rows'[t].status \in {"paused", "absent"}
                  /\ rows'[t].status = "paused" => streak'[t] = MAX_TASK_FAILURES]_vars
  BY LimitStep DEF ScenarioInv
<1> QED
  BY <1>1, <1>2, <1>3, PTL DEF MCSpec, AutoPauses

=============================================================================
